--------------------------- MODULE ContentProofs ---------------------------
(***************************************************************************)
(* Firewall rules, address lists and static routes, for any routers, items *)
(* and overlapping requests, with any of the three pages and any number of *)
(* other administrators.                                                   *)
(***************************************************************************)
EXTENDS MCContent, SequenceTheorems, FiniteSetTheorems, TLAPS, WellFoundedInduction

-----------------------------------------------------------------------------
(* Sequences of anything.                                                  *)

IsSequence(s) == s \in Seq({s[k] : k \in DOMAIN s})

\* The shape of a sequence.
LEMMA SequenceShape ==
    ASSUME NEW S, NEW s \in Seq(S), NEW n, Len(s) = n
    PROVE  n \in Nat /\ DOMAIN s = 1..n /\ s = [k \in 1..n |-> s[k]]
OBVIOUS

\* A sequence is a function on the first numbers.
LEMMA SequenceIsFunction ==
    ASSUME NEW s, IsSequence(s)
    PROVE  /\ Len(s) \in Nat
           /\ DOMAIN s = 1..Len(s)
           /\ s = [k \in 1..Len(s) |-> s[k]]
<1> DEFINE S == {s[k] : k \in DOMAIN s}
<1>1. s \in Seq(S)
  BY DEF IsSequence
<1> HIDE DEF S
<1> QED  BY <1>1

\* A function on the first numbers is a sequence.
LEMMA FunctionIsSequence ==
    ASSUME NEW n \in Nat, NEW f, f = [k \in 1..n |-> f[k]]
    PROVE  IsSequence(f) /\ Len(f) = n /\ DOMAIN f = 1..n
<1> DEFINE S == {f[k] : k \in DOMAIN f}
<1>1. \A k \in 1..n : f[k] \in S
  OBVIOUS
<1>2. f \in [1..n -> S]
  BY <1>1
<1> HIDE DEF S
<1>3. f \in Seq(S) /\ Len(f) = n
  BY <1>2
<1> QED  BY <1>3 DEF IsSequence, S

\* What Append does.
LEMMA AppendIs ==
    ASSUME NEW s, IsSequence(s), NEW e
    PROVE  /\ IsSequence(Append(s, e))
           /\ Len(Append(s, e)) = Len(s) + 1
           /\ DOMAIN Append(s, e) = 1..(Len(s) + 1)
           /\ \A k \in 1..Len(s) : Append(s, e)[k] = s[k]
           /\ Append(s, e)[Len(s) + 1] = e
<1> DEFINE S == {s[k] : k \in DOMAIN s} \cup {e}
           t == Append(s, e)
<1>1. s \in Seq(S)
  BY DEF IsSequence
<1>2. Len(s) \in Nat
  BY SequenceIsFunction
<1> HIDE DEF S
<1>3. /\ t \in Seq(S)
      /\ \A k \in 1..Len(s) : t[k] = s[k]
      /\ Len(t) = Len(s) + 1
      /\ t[Len(s) + 1] = e
  <2>1. e \in S
    BY DEF S
  <2> QED  BY <1>1, <2>1, AppendProperties
<1>4. DOMAIN t = 1..(Len(s) + 1) /\ t = [k \in 1..(Len(s) + 1) |-> t[k]]
  <2> HIDE DEF t
  <2> QED  BY <1>3, SequenceShape
<1> HIDE DEF t
<1>5. IsSequence(t)
  BY <1>2, <1>4, FunctionIsSequence
<1> QED  BY <1>3, <1>4, <1>5 DEF t

\* What \o does.
LEMMA ConcatIs ==
    ASSUME NEW s, IsSequence(s), NEW t, IsSequence(t), NEW m, Len(s) = m, NEW n, Len(t) = n
    PROVE  /\ IsSequence(s \o t)
           /\ Len(s \o t) = m + n
           /\ DOMAIN (s \o t) = 1..(m + n)
           /\ \A k \in 1..(m + n) : (s \o t)[k] = IF k <= m THEN s[k] ELSE t[k - m]
<1> DEFINE S == {s[k] : k \in DOMAIN s} \cup {t[k] : k \in DOMAIN t}
           u == s \o t
<1>1. s \in Seq(S) /\ t \in Seq(S)
  BY DEF IsSequence
<1>2. m \in Nat /\ n \in Nat
  BY SequenceIsFunction
<1> HIDE DEF S
<1>3. /\ u \in Seq(S)
      /\ Len(u) = m + n
      /\ \A k \in 1..(m + n) : u[k] = IF k <= m THEN s[k] ELSE t[k - m]
  BY <1>1, ConcatProperties
<1>4. DOMAIN u = 1..(m + n) /\ u = [k \in 1..(m + n) |-> u[k]]
  <2> HIDE DEF u
  <2> QED  BY <1>3, SequenceShape
<1> HIDE DEF u
<1>5. IsSequence(u)
  BY <1>2, <1>4, FunctionIsSequence
<1> QED  BY <1>3, <1>4, <1>5 DEF u

\* What SubSeq does.
LEMMA SubSeqIs ==
    ASSUME NEW s, NEW m \in Nat \ {0}, NEW n \in Nat, m <= n + 1
    PROVE  /\ IsSequence(SubSeq(s, m, n))
           /\ Len(SubSeq(s, m, n)) = n - m + 1
           /\ \A k \in 1..(n - m + 1) : SubSeq(s, m, n)[k] = s[m + k - 1]
<1> DEFINE S == {s[k] : k \in m..n}
           t == SubSeq(s, m, n)
<1>1. \A k \in m..n : s[k] \in S
  OBVIOUS
<1> HIDE DEF S
<1>2. /\ t \in Seq(S)
      /\ Len(t) = n - m + 1
      /\ \A k \in 1..(n - m + 1) : t[k] = s[m + k - 1]
  BY <1>1, SubSeqProperties
<1>3. n - m + 1 \in Nat
  OBVIOUS
<1>4. t = [k \in 1..(n - m + 1) |-> t[k]]
  BY <1>2, <1>3
<1> HIDE DEF t
<1>5. IsSequence(t)
  BY <1>3, <1>4, FunctionIsSequence
<1> QED  BY <1>2, <1>5 DEF t

\* What RemoveAt does.
LEMMA RemoveAtIs ==
    ASSUME NEW s, IsSequence(s), NEW a \in 1..Len(s)
    PROVE  RemoveAt(s, a) = [k \in 1..(Len(s) - 1) |-> IF k < a THEN s[k] ELSE s[k + 1]]
<1> DEFINE l == SubSeq(s, 1, a - 1)
           m == SubSeq(s, a + 1, Len(s))
           n == Len(s)
<1>1. n \in Nat
  BY SequenceIsFunction
<1>2. a - 1 \in Nat /\ a \in Nat /\ a + 1 \in Nat \ {0} /\ a <= n
  BY <1>1
<1>3. IsSequence(l) /\ Len(l) = a - 1 /\ \A k \in 1..(a - 1) : l[k] = s[k]
  <2>1. 1 <= (a - 1) + 1
    BY <1>2
  <2>2. /\ IsSequence(l) /\ Len(l) = (a - 1) - 1 + 1
        /\ \A k \in 1..((a - 1) - 1 + 1) : l[k] = s[1 + k - 1]
    BY <1>2, <2>1, SubSeqIs
  <2>3. (a - 1) - 1 + 1 = a - 1 /\ \A k \in 1..(a - 1) : 1 + k - 1 = k
    BY <1>2
  <2> HIDE DEF l
  <2> QED  BY <2>2, <2>3
<1>4. IsSequence(m) /\ Len(m) = n - a /\ \A k \in 1..(n - a) : m[k] = s[a + k]
  <2>1. a + 1 <= n + 1
    BY <1>1, <1>2
  <2>2. /\ IsSequence(m) /\ Len(m) = n - (a + 1) + 1
        /\ \A k \in 1..(n - (a + 1) + 1) : m[k] = s[(a + 1) + k - 1]
    BY <1>1, <1>2, <2>1, SubSeqIs
  <2>3. n - (a + 1) + 1 = n - a /\ \A k \in 1..(n - a) : (a + 1) + k - 1 = a + k
    BY <1>1, <1>2
  <2> HIDE DEF m, n
  <2> QED  BY <2>2, <2>3
<1> HIDE DEF l, m
<1>5. /\ IsSequence(l \o m) /\ Len(l \o m) = n - 1
      /\ \A k \in 1..(n - 1) : (l \o m)[k] = IF k <= a - 1 THEN l[k] ELSE m[k - (a - 1)]
  <2>0. \A i, j : Len(l) = i /\ Len(m) = j =>
          /\ IsSequence(l \o m) /\ Len(l \o m) = i + j
          /\ \A k \in 1..(i + j) : (l \o m)[k] = IF k <= i THEN l[k] ELSE m[k - i]
    BY <1>3, <1>4, ConcatIs
  <2>1. /\ IsSequence(l \o m) /\ Len(l \o m) = (a - 1) + (n - a)
        /\ \A k \in 1..((a - 1) + (n - a)) :
              (l \o m)[k] = IF k <= a - 1 THEN l[k] ELSE m[k - (a - 1)]
    BY <1>3, <1>4, <2>0
  <2>2. (a - 1) + (n - a) = n - 1
    BY <1>1, <1>2
  <2> QED  BY <2>1, <2>2
<1>6. \A k \in 1..(n - 1) : (l \o m)[k] = IF k < a THEN s[k] ELSE s[k + 1]
  <2> SUFFICES ASSUME NEW k \in 1..(n - 1)
               PROVE  (l \o m)[k] = IF k < a THEN s[k] ELSE s[k + 1]
    OBVIOUS
  <2>1. CASE k < a
    BY <1>1, <1>2, <1>3, <1>5, <2>1
  <2>2. CASE ~(k < a)
    <3>1. k - (a - 1) \in 1..(n - a) /\ a + (k - (a - 1)) = k + 1 /\ ~(k <= a - 1)
      BY <1>1, <1>2, <2>2
    <3> QED  BY <1>4, <1>5, <2>2, <3>1
  <2> QED  BY <2>1, <2>2
<1>7. l \o m = [k \in 1..(n - 1) |-> (l \o m)[k]]
  BY <1>5, SequenceIsFunction
<1> QED  BY <1>6, <1>7 DEF RemoveAt, l, m

\* What InsertAt does.
LEMMA InsertAtIs ==
    ASSUME NEW s, IsSequence(s), NEW a \in 1..(Len(s) + 1), NEW e
    PROVE  InsertAt(s, a, e) = [k \in 1..(Len(s) + 1) |-> IF k < a THEN s[k]
                                                        ELSE IF k = a THEN e ELSE s[k - 1]]
<1> DEFINE l == SubSeq(s, 1, a - 1)
           m == SubSeq(s, a, Len(s))
           n == Len(s)
           c == <<e>>
<1>1. n \in Nat
  BY SequenceIsFunction
<1>2. a - 1 \in Nat /\ a \in Nat \ {0} /\ a <= n + 1
  BY <1>1
<1>3. IsSequence(l) /\ Len(l) = a - 1 /\ \A k \in 1..(a - 1) : l[k] = s[k]
  <2>1. 1 <= (a - 1) + 1
    BY <1>2
  <2>2. /\ IsSequence(l) /\ Len(l) = (a - 1) - 1 + 1
        /\ \A k \in 1..((a - 1) - 1 + 1) : l[k] = s[1 + k - 1]
    BY <1>2, <2>1, SubSeqIs
  <2>3. (a - 1) - 1 + 1 = a - 1 /\ \A k \in 1..(a - 1) : 1 + k - 1 = k
    BY <1>2
  <2> HIDE DEF l
  <2> QED  BY <2>2, <2>3
<1>4. IsSequence(m) /\ Len(m) = n - a + 1 /\ \A k \in 1..(n - a + 1) : m[k] = s[a + k - 1]
  BY <1>1, <1>2, SubSeqIs
<1>5. IsSequence(c) /\ Len(c) = 1 /\ c[1] = e
  <2>1. c = [k \in 1..1 |-> c[k]]
    OBVIOUS
  <2>2. c[1] = e
    OBVIOUS
  <2> HIDE DEF c
  <2> QED  BY <2>1, <2>2, FunctionIsSequence
<1> HIDE DEF l, m, c
<1>6. /\ IsSequence(l \o c) /\ Len(l \o c) = a
      /\ \A k \in 1..a : (l \o c)[k] = IF k <= a - 1 THEN l[k] ELSE c[k - (a - 1)]
  <2>0. \A i, j : Len(l) = i /\ Len(c) = j =>
          /\ IsSequence(l \o c) /\ Len(l \o c) = i + j
          /\ \A k \in 1..(i + j) : (l \o c)[k] = IF k <= i THEN l[k] ELSE c[k - i]
    BY <1>3, <1>5, ConcatIs
  <2>1. /\ IsSequence(l \o c) /\ Len(l \o c) = (a - 1) + 1
        /\ \A k \in 1..((a - 1) + 1) :
              (l \o c)[k] = IF k <= a - 1 THEN l[k] ELSE c[k - (a - 1)]
    BY <1>3, <1>5, <2>0
  <2>2. (a - 1) + 1 = a
    BY <1>2
  <2> QED  BY <2>1, <2>2
<1> DEFINE d == l \o c
<1>d. IsSequence(d) /\ Len(d) = a
  BY <1>6
<1> HIDE DEF d
<1>7. /\ IsSequence(d \o m) /\ Len(d \o m) = n + 1
      /\ \A k \in 1..(n + 1) : (d \o m)[k] = IF k <= a THEN d[k] ELSE m[k - a]
  <2>0. \A i, j : Len(d) = i /\ Len(m) = j =>
          /\ IsSequence(d \o m) /\ Len(d \o m) = i + j
          /\ \A k \in 1..(i + j) : (d \o m)[k] = IF k <= i THEN d[k] ELSE m[k - i]
    <3> SUFFICES ASSUME NEW i, NEW j, Len(d) = i, Len(m) = j
                 PROVE  /\ IsSequence(d \o m) /\ Len(d \o m) = i + j
                        /\ \A k \in 1..(i + j) :
                              (d \o m)[k] = IF k <= i THEN d[k] ELSE m[k - i]
      OBVIOUS
    <3>1. IsSequence(d) /\ IsSequence(m)
      BY <1>4, <1>d
    <3> QED  BY <3>1, ConcatIs
  <2>1. /\ IsSequence(d \o m) /\ Len(d \o m) = a + (n - a + 1)
        /\ \A k \in 1..(a + (n - a + 1)) : (d \o m)[k] = IF k <= a THEN d[k] ELSE m[k - a]
    BY <1>4, <1>d, <2>0
  <2>2. a + (n - a + 1) = n + 1
    BY <1>1, <1>2
  <2> QED  BY <2>1, <2>2
<1>8. \A k \in 1..(n + 1) :
         (d \o m)[k] = IF k < a THEN s[k] ELSE IF k = a THEN e ELSE s[k - 1]
  <2> SUFFICES ASSUME NEW k \in 1..(n + 1)
               PROVE  (d \o m)[k] = IF k < a THEN s[k] ELSE IF k = a THEN e ELSE s[k - 1]
    OBVIOUS
  <2>1. CASE k < a
    <3>1. k \in 1..a /\ k <= a - 1 /\ k <= a /\ k \in 1..(a - 1)
      BY <1>1, <1>2, <2>1
    <3> QED  BY <1>3, <1>6, <1>7, <2>1, <3>1 DEF d
  <2>2. CASE k = a
    <3>1. k \in 1..a /\ ~(k <= a - 1) /\ k <= a /\ k - (a - 1) = 1 /\ ~(k < a)
      BY <1>1, <1>2, <2>2
    <3> QED  BY <1>5, <1>6, <1>7, <2>2, <3>1 DEF d
  <2>3. CASE k > a
    <3>1. /\ k - a \in 1..(n - a + 1) /\ a + (k - a) - 1 = k - 1
          /\ ~(k <= a) /\ ~(k < a) /\ k # a
      BY <1>1, <1>2, <2>3
    <3> QED  BY <1>4, <1>7, <2>3, <3>1
  <2>4. k < a \/ k = a \/ k > a
    BY <1>1, <1>2
  <2> QED  BY <2>1, <2>2, <2>3, <2>4
<1>9. d \o m = [k \in 1..(n + 1) |-> (d \o m)[k]]
  BY <1>7, SequenceIsFunction
<1> QED  BY <1>8, <1>9 DEF InsertAt, l, m, c, d

-----------------------------------------------------------------------------
(* The pages over the service. Any page acts at any time, and others send  *)
(* what they like.                                                         *)

pagesVars == <<contentVars, firewallVars, listsVars, routesVars>>

PagesInit ==
    /\ \E n \in Nat : \E vals : DOMAIN vals = 1..n /\ InitContent(vals)
    /\ InitFirewall
    /\ InitLists
    /\ InitRoutes

PagesNext ==
    \/ FirewallNext /\ UNCHANGED <<listsVars, routesVars>>
    \/ ListsNext /\ UNCHANGED <<firewallVars, routesVars>>
    \/ RoutesNext /\ UNCHANGED <<firewallVars, listsVars>>
    \/ /\ \E vals, patches, ops : OtherSends(vals, patches, ops)
       /\ UNCHANGED <<firewallVars, listsVars, routesVars>>
    \/ ServeContent /\ UNCHANGED <<firewallVars, listsVars, routesVars>>

PagesSpec == PagesInit /\ [][PagesNext]_pagesVars

Fields == {"op", "names", "val", "patch", "by", "refs", "todo", "target", "done", "undoing", "before",
           "reply", "told", "torn", "loose", "blurred", "left", "strewn"}
IsRequest(q) ==
    /\ q = [f \in Fields |-> q[f]]
    /\ Running(q) => q.told = "no"
    /\ Running(q) /\ q.strewn => q.op = "move" \/ q.undoing
RequestsOK ==
    /\ IsSequence(requests) /\ Len(requests) <= MaxRequests
    /\ \A i \in DOMAIN requests : IsRequest(requests[i])

\* What a page or another administrator may send.
Arrival(q) ==
    \E op \in {"create", "update", "delete", "move", "refused"} : \E names, val, patch, by :
        /\ q = Request(op, names, val, patch, by)
        /\ op \in {"create", "refused"} => names = <<>>
        /\ op \in {"update", "delete"} => \E x : names = <<x>>
        /\ op = "move" => \E x, y : names = <<x, y>>

\* Requests are added, and an answer is heard of.
RequestsGoOn ==
    /\ IsSequence(requests') /\ Len(requests) <= Len(requests') /\ Len(requests') <= MaxRequests
    /\ \A i \in DOMAIN requests :
          /\ requests'[i] = [requests[i] EXCEPT !.told = requests'[i].told]
          /\ Running(requests[i]) => requests'[i].told = requests[i].told
    /\ \A i \in DOMAIN requests' \ DOMAIN requests : Arrival(requests'[i])
NothingLearnt == \A i \in DOMAIN requests : ~Told(i) => ~Told(i)'

\* A step of a page: the list is fetched, or kept; it is marked as stale
\* when the page learns of a success.
PageStep ==
    /\ conf' = conf
    /\ \/ /\ requests' = requests /\ shown' = conf[Master]
          /\ early' = {i \in DOMAIN requests : InForce(requests[i]) /\ Master \in requests[i].done}
       \/ /\ RequestsGoOn /\ shown' = shown /\ early' = early
          /\ ~stale' => ~stale /\ NothingLearnt

\* The fields of a new request.
LEMMA ArrivalIs ==
    ASSUME NEW q, Arrival(q)
    PROVE  /\ IsRequest(q) /\ q.told = "no" /\ q.reply \in {"none", "error"}
           /\ ~q.torn /\ ~q.loose /\ ~q.strewn /\ ~q.blurred /\ ~q.left /\ ~q.undoing /\ q.done = {}
BY DEF Arrival, Request, IsRequest, Fields, Running

\* Nothing happens to the content.
LEMMA IdleStep ==
    ASSUME RequestsOK, conf' = conf, requests' = requests, shown' = shown, early' = early,
           ~stale' => ~stale
    PROVE  PageStep
<1>1. Len(requests) \in Nat /\ DOMAIN requests = 1..Len(requests)
  BY SequenceIsFunction DEF RequestsOK
<1>2. \A i \in DOMAIN requests : requests[i] = [requests[i] EXCEPT !.told = requests[i].told]
  BY DEF RequestsOK, IsRequest
<1>3. RequestsGoOn
  BY <1>1, <1>2 DEF RequestsGoOn, RequestsOK
<1>4. NothingLearnt
  BY DEF NothingLearnt, Told
<1> QED  BY <1>3, <1>4 DEF PageStep

\* A request is sent.
LEMMA SendStep ==
    ASSUME RequestsOK, NEW op, NEW names, NEW val, NEW patch, NEW by,
           Send(op, names, val, patch, by), Arrival(Request(op, names, val, patch, by))
    PROVE  PageStep
<1> DEFINE q == Request(op, names, val, patch, by)
<1>1. /\ Len(requests) < MaxRequests /\ requests' = Append(requests, q)
      /\ conf' = conf /\ shown' = shown /\ stale' = stale /\ early' = early
  BY DEF Send, Arrive, cache
<1> HIDE DEF q
<1>2. Len(requests) \in Nat /\ DOMAIN requests = 1..Len(requests) /\ IsSequence(requests)
  BY SequenceIsFunction DEF RequestsOK
<1>3. /\ IsSequence(requests') /\ Len(requests') = Len(requests) + 1
      /\ DOMAIN requests' = 1..(Len(requests) + 1)
      /\ \A k \in 1..Len(requests) : requests'[k] = requests[k]
      /\ requests'[Len(requests) + 1] = q
  BY <1>1, <1>2, AppendIs
<1>4. \A i \in DOMAIN requests : requests[i] = [requests[i] EXCEPT !.told = requests[i].told]
  BY DEF RequestsOK, IsRequest
<1>5. \A i \in DOMAIN requests : requests'[i] = requests[i]
  BY <1>2, <1>3
<1>6. \A i \in DOMAIN requests' \ DOMAIN requests : Arrival(requests'[i])
  <2> SUFFICES ASSUME NEW i \in DOMAIN requests' \ DOMAIN requests PROVE Arrival(requests'[i])
    OBVIOUS
  <2>1. i = Len(requests) + 1
    BY <1>2, <1>3
  <2> QED  BY <1>3, <2>1 DEF q
<1>7. Len(requests) <= Len(requests') /\ Len(requests') <= MaxRequests
  BY <1>1, <1>2, <1>3, MasterAssumption
<1>8. RequestsGoOn
  BY <1>3, <1>4, <1>5, <1>6, <1>7 DEF RequestsGoOn
<1>9. NothingLearnt
  BY <1>1, <1>5 DEF NothingLearnt, Told
<1> QED  BY <1>1, <1>8, <1>9 DEF PageStep

\* An answer is heard of, and the list marked as stale if that says that the
\* change was made.
LEMMA HearStep ==
    ASSUME RequestsOK, conf' = conf, shown' = shown, early' = early, NEW told,
           requests' = [i \in DOMAIN requests |-> [requests[i] EXCEPT !.told = told[i]]],
           \A i \in DOMAIN requests : Running(requests[i]) => told[i] = "no",
           ~stale' => /\ ~stale
                      /\ \A i \in DOMAIN requests :
                            requests[i].reply = "ok" => told[i] # "yes" \/ told[i] = requests[i].told
    PROVE  PageStep
<1>1. Len(requests) \in Nat /\ DOMAIN requests = 1..Len(requests)
  BY SequenceIsFunction DEF RequestsOK
<1>2. /\ IsSequence(requests') /\ Len(requests') = Len(requests)
      /\ DOMAIN requests' = DOMAIN requests
  <2>1. requests' = [i \in 1..Len(requests) |-> requests'[i]]
    BY <1>1
  <2> QED  BY <1>1, <2>1, FunctionIsSequence
<1>3. \A i \in DOMAIN requests :
         /\ requests'[i] = [requests[i] EXCEPT !.told = requests'[i].told]
         /\ requests'[i].told = told[i]
         /\ requests'[i].reply = requests[i].reply /\ requests'[i].strewn = requests[i].strewn
         /\ requests'[i].done = requests[i].done /\ requests'[i].left = requests[i].left
  BY DEF RequestsOK, IsRequest, Fields
<1>4. \A i \in DOMAIN requests : Running(requests[i]) => requests'[i].told = requests[i].told
  BY <1>3 DEF RequestsOK, IsRequest
<1>5. RequestsGoOn
  BY <1>1, <1>2, <1>3, <1>4 DEF RequestsGoOn, RequestsOK
<1>6. ~stale' => ~stale /\ NothingLearnt
  BY <1>3 DEF NothingLearnt, Told, Running
<1> QED  BY <1>5, <1>6 DEF PageStep

\* The list is fetched.
LEMMA FetchStep ==
    ASSUME Fetch
    PROVE  PageStep
BY DEF Fetch, PageStep, serviceVars

\* A request with an ID, without one, and with two.
LEMMA SendOne ==
    ASSUME RequestsOK, NEW op \in {"update", "delete"}, NEW x, NEW val, NEW patch, NEW by,
           Send(op, <<x>>, val, patch, by)
    PROVE  PageStep
<1>1. Arrival(Request(op, <<x>>, val, patch, by))
  BY DEF Arrival
<1> QED  BY <1>1, SendStep
LEMMA SendNone ==
    ASSUME RequestsOK, NEW op \in {"create", "refused"}, NEW val, NEW patch, NEW by,
           Send(op, <<>>, val, patch, by)
    PROVE  PageStep
<1>1. Arrival(Request(op, <<>>, val, patch, by))
  BY DEF Arrival
<1> QED  BY <1>1, SendStep
LEMMA SendTwo ==
    ASSUME RequestsOK, NEW x, NEW y, NEW val, NEW patch, NEW by,
           Send("move", <<x, y>>, val, patch, by)
    PROVE  PageStep
<1>1. Arrival(Request("move", <<x, y>>, val, patch, by))
  BY DEF Arrival
<1> QED  BY <1>1, SendStep

\* Nothing at all, and a switch to another cluster and back.
LEMMA KeepStep ==
    ASSUME RequestsOK, UNCHANGED contentVars
    PROVE  PageStep
BY IdleStep DEF contentVars
LEMMA ChangeStep ==
    ASSUME RequestsOK, stale' = TRUE, UNCHANGED <<serviceVars, shown, early>>
    PROVE  PageStep
BY IdleStep DEF serviceVars

\* onSuccess of a hook.
LEMMA TakeStep ==
    ASSUME RequestsOK, NEW i \in DOMAIN requests, ~Running(requests[i]), NEW ok,
           ok <=> requests[i].reply = "ok", Take(i, ok)
    PROVE  PageStep
<1> DEFINE told == [j \in DOMAIN requests |-> IF j = i THEN "yes" ELSE requests[j].told]
<1>1. requests' = [j \in DOMAIN requests |-> [requests[j] EXCEPT !.told = told[j]]]
  <2>1. \A j \in DOMAIN requests : requests[j] = [requests[j] EXCEPT !.told = requests[j].told]
    BY DEF RequestsOK, IsRequest
  <2>2. requests' = [requests EXCEPT ![i].told = "yes"]
    BY DEF Take
  <2>3. requests = [j \in DOMAIN requests |-> requests[j]]
    <3>1. IsSequence(requests)
      BY DEF RequestsOK
    <3> QED  BY <3>1, SequenceIsFunction
  <2> QED  BY <2>1, <2>2, <2>3
<1>2. \A j \in DOMAIN requests : Running(requests[j]) => told[j] = "no"
  BY DEF RequestsOK, IsRequest
<1>3. ~stale' => /\ ~stale
                 /\ \A j \in DOMAIN requests :
                       requests[j].reply = "ok" => told[j] # "yes" \/ told[j] = requests[j].told
  BY DEF Take
<1>4. conf' = conf /\ shown' = shown /\ early' = early
  BY DEF Take
<1> HIDE DEF told
<1> QED  BY <1>1, <1>2, <1>3, <1>4, HearStep

-----------------------------------------------------------------------------
(* The firewall page.                                                      *)

\* A cell.
LEMMA SaveStep ==
    ASSUME RequestsOK, NEW r, NEW old, NEW patch, Save(r, old, patch)
    PROVE  PageStep
<1>1. CASE UNCHANGED contentVars
  BY <1>1, KeepStep
<1>2. CASE Send("update", <<r.id>>, Nothing, patch, "cell")
  BY <1>2, SendOne
<1> QED  BY <1>1, <1>2 DEF Save, Keep, OnUpdate
LEMMA AddressCellStep ==
    ASSUME RequestsOK, NEW r, NEW addr, NEW list, AddressCell(r, addr, list)
    PROVE  PageStep
<1> DEFINE old == Or(r.val[addr], r.val[list])
           patch == AddressPatch(addr, list, cell.value)
<1>1. CASE UNCHANGED contentVars
  BY <1>1, KeepStep
<1>2. CASE Save(r, old, patch)
  BY <1>2, SaveStep
<1>3. CASE Send("update", <<r.id>>, Nothing, patch, "cell")
  BY <1>3, SendOne
<1> QED  BY <1>1, <1>2, <1>3 DEF AddressCell, Keep, OnUpdate
LEMMA PortCellStep ==
    ASSUME RequestsOK, NEW r, NEW port, PortCell(r, port)
    PROVE  PageStep
<1>1. CASE UNCHANGED contentVars
  BY <1>1, KeepStep
<1>2. CASE Save(r, r.val[port], SetField(port, cell.value))
  BY <1>2, SaveStep
<1> QED  BY <1>1, <1>2 DEF PortCell, Keep
LEMMA ChoiceCellStep ==
    ASSUME RequestsOK, NEW r, NEW field, NEW sent, ChoiceCell(r, field, sent)
    PROVE  PageStep
<1>1. CASE UNCHANGED contentVars
  BY <1>1, KeepStep
<1>2. ASSUME NEW patch \in sent, Send("update", <<r.id>>, Nothing, patch, "cell")
      PROVE  PageStep
  BY <1>2, SendOne
<1> QED  BY <1>1, <1>2 DEF ChoiceCell, Keep, OnUpdate
LEMMA EditCellsStep ==
    ASSUME RequestsOK, NEW r, EditCells(r)
    PROVE  PageStep
<1>1. CASE SourceCell(r)
  BY <1>1, AddressCellStep DEF SourceCell
<1>2. CASE DestinationCell(r)
  BY <1>2, AddressCellStep DEF DestinationCell
<1>3. CASE SourcePortCell(r)
  BY <1>3, PortCellStep DEF SourcePortCell
<1>4. CASE DestinationPortCell(r)
  BY <1>4, PortCellStep DEF DestinationPortCell
<1>5. CASE ProtocolCell(r)
  BY <1>5, ChoiceCellStep DEF ProtocolCell
<1>6. CASE InInterfaceCell(r)
  BY <1>6, ChoiceCellStep DEF InInterfaceCell
<1>7. CASE OutInterfaceCell(r)
  BY <1>7, ChoiceCellStep DEF OutInterfaceCell
<1>8. CASE ConnStateCell(r)
  <2>1. CASE ChoiceCell(r, "connectionState", {<<>>})
    BY <2>1, ChoiceCellStep
  <2>2. CASE Send("refused", <<>>, Nothing, <<>>, "cell")
    BY <2>2, SendNone
  <2> QED  BY <1>8, <2>1, <2>2 DEF ConnStateCell
<1>9. CASE ActionCell(r)
  BY <1>9, ChoiceCellStep DEF ActionCell
<1> QED  BY <1>1, <1>2, <1>3, <1>4, <1>5, <1>6, <1>7, <1>8, <1>9 DEF EditCells

\* Any step of the page.
LEMMA FirewallStep ==
    ASSUME RequestsOK, FirewallNext
    PROVE  PageStep
<1>1. CASE FetchRules
  BY <1>1, FetchStep DEF FetchRules
<1>2. CASE UNCHANGED contentVars
  BY <1>2, KeepStep
<1>3. ASSUME NEW r, EditCells(r) PROVE PageStep
  BY <1>3, EditCellsStep
<1>4. ASSUME NEW r, NEW over, DragRule(r, over) PROVE PageStep
  BY <1>4, SendNone DEF DragRule
<1>5. CASE SubmitForm
  <2>1. CASE ruleForm.edit = None
    <3>1. Send("create", <<>>, Rule(Merged([chain |-> tab], RuleData(ruleForm))), <<>>, "form")
      BY <1>5, <2>1 DEF SubmitForm
    <3> QED  BY <3>1, SendNone
  <2>2. CASE ruleForm.edit # None
    <3>1. Send("update", <<ruleForm.edit.id>>, Nothing, RuleData(ruleForm), "form")
      BY <1>5, <2>2 DEF SubmitForm
    <3> QED  BY <3>1, SendOne
  <2> QED  BY <2>1, <2>2
<1>6. CASE ConfirmDeleteRule
  <2>1. CASE Send("delete", <<ruleAsk.id>>, Nothing, <<>>, "delete")
    BY <2>1, SendOne
  <2> QED  BY <1>2, <1>6, <2>1 DEF ConfirmDeleteRule
<1>7. ASSUME NEW i \in DOMAIN requests, AnswerRule(i) PROVE PageStep
  <2>1. ~Running(requests[i]) /\ Take(i, requests[i].reply = "ok")
    BY <1>7 DEF AnswerRule
  <2> QED  BY <2>1, TakeStep
<1>8. CASE ChangeCluster
  BY <1>8, ChangeStep DEF ChangeCluster
<1>9. TableOfRules => (UNCHANGED contentVars \/ \E r : EditCells(r) \/ \E over : DragRule(r, over))
  BY DEF TableOfRules, SortableRow, ShowRule, OpenRuleForm, AskDeleteRule
<1>10. FirewallDetail \/ AddRule \/ SelectTab \/ TypeInForm \/ CloseForm => UNCHANGED contentVars
  BY DEF FirewallDetail, AddRule, ShowRule, OpenRuleForm, AskDeleteRule, SelectTab, TypeInForm,
         CloseForm
<1> QED  BY <1>1, <1>2, <1>3, <1>4, <1>5, <1>6, <1>7, <1>8, <1>9, <1>10 DEF FirewallNext

-----------------------------------------------------------------------------
(* The address lists page, the routes page, and other administrators.      *)

\* One delete sends a request for each entry.
LEMMA DeleteEntriesStep ==
    ASSUME RequestsOK, NEW list, HandleDeleteEntries(list)
    PROVE  PageStep
<1> DEFINE n0 == Len(requests)
<1>1. n0 \in Nat /\ DOMAIN requests = 1..n0 /\ IsSequence(requests)
  BY SequenceIsFunction DEF RequestsOK
<1>0. PICK n \in 1..(MaxRequests - n0) : \E ids \in [1..n -> selected[list]] :
         /\ requests' = requests \o
               [k \in 1..n |-> Request("delete", <<ids[k]>>, Nothing, <<>>, "page")]
         /\ conf' = conf /\ shown' = shown /\ stale' = stale /\ early' = early
  BY DEF HandleDeleteEntries, cache
<1>2. PICK ids \in [1..n -> selected[list]] :
         /\ requests' = requests \o
               [k \in 1..n |-> Request("delete", <<ids[k]>>, Nothing, <<>>, "page")]
         /\ conf' = conf /\ shown' = shown /\ stale' = stale /\ early' = early
  BY <1>0
<1> DEFINE sent == [k \in 1..n |-> Request("delete", <<ids[k]>>, Nothing, <<>>, "page")]
<1> HIDE DEF n0
<1>3. n \in Nat /\ n0 + n <= MaxRequests
  BY <1>1, <1>2, MasterAssumption
<1>4. \A k \in 1..n : Arrival(sent[k])
  BY DEF Arrival
<1>5. IsSequence(sent) /\ Len(sent) = n
  <2>1. sent = [k \in 1..n |-> sent[k]]
    OBVIOUS
  <2> HIDE DEF sent
  <2> QED  BY <1>3, <2>1, FunctionIsSequence
<1>6. requests' = requests \o sent
  BY <1>2
<1> HIDE DEF sent
<1>7. /\ IsSequence(requests') /\ Len(requests') = n0 + n /\ DOMAIN requests' = 1..(n0 + n)
      /\ \A k \in 1..(n0 + n) : requests'[k] = IF k <= n0 THEN requests[k] ELSE sent[k - n0]
  <2> DEFINE s == requests
  <2>1. IsSequence(s) /\ Len(s) = n0
    BY <1>1 DEF n0
  <2>2. requests' = s \o sent
    BY <1>6
  <2> HIDE DEF s
  <2>3. \A i, j : Len(s) = i /\ Len(sent) = j =>
          /\ IsSequence(s \o sent) /\ Len(s \o sent) = i + j /\ DOMAIN (s \o sent) = 1..(i + j)
          /\ \A k \in 1..(i + j) : (s \o sent)[k] = IF k <= i THEN s[k] ELSE sent[k - i]
    BY <1>5, <2>1, ConcatIs
  <2>4. /\ IsSequence(s \o sent) /\ Len(s \o sent) = n0 + n /\ DOMAIN (s \o sent) = 1..(n0 + n)
        /\ \A k \in 1..(n0 + n) : (s \o sent)[k] = IF k <= n0 THEN s[k] ELSE sent[k - n0]
    BY <1>5, <2>1, <2>3
  <2> QED  BY <2>2, <2>4 DEF s
<1>8. \A i \in DOMAIN requests : requests[i] = [requests[i] EXCEPT !.told = requests[i].told]
  BY DEF RequestsOK, IsRequest
<1>9. \A i \in DOMAIN requests : requests'[i] = requests[i]
  BY <1>1, <1>3, <1>7
<1>10. \A i \in DOMAIN requests' \ DOMAIN requests : Arrival(requests'[i])
  <2> SUFFICES ASSUME NEW i \in DOMAIN requests' \ DOMAIN requests PROVE Arrival(requests'[i])
    OBVIOUS
  <2>1. i \in 1..(n0 + n) /\ ~(i <= n0) /\ i - n0 \in 1..n
    BY <1>1, <1>3, <1>7
  <2> QED  BY <1>4, <1>7, <2>1
<1>11. n0 <= Len(requests') /\ Len(requests') <= MaxRequests
  BY <1>1, <1>3, <1>7
<1>12. RequestsGoOn
  BY <1>7, <1>8, <1>9, <1>10, <1>11 DEF RequestsGoOn, n0
<1>13. NothingLearnt
  BY <1>2, <1>9 DEF NothingLearnt, Told
<1> QED  BY <1>2, <1>12, <1>13 DEF PageStep

\* An answer to a request of a delete is heard of, and acted on later.
LEMMA AnswerEntryStep ==
    ASSUME RequestsOK, NEW i \in DOMAIN requests, AnswerEntry(i)
    PROVE  PageStep
<1>1. ~Running(requests[i])
  BY DEF AnswerEntry
<1>2. CASE Take(i, requests[i].reply = "ok")
  BY <1>1, <1>2, TakeStep
<1>3. CASE requests' = [requests EXCEPT ![i].told = "heard"] /\ UNCHANGED <<conf, cache>>
  <2> DEFINE told == [j \in DOMAIN requests |-> IF j = i THEN "heard" ELSE requests[j].told]
  <2>1. requests' = [j \in DOMAIN requests |-> [requests[j] EXCEPT !.told = told[j]]]
    <3>1. \A j \in DOMAIN requests : requests[j] = [requests[j] EXCEPT !.told = requests[j].told]
      BY DEF RequestsOK, IsRequest
    <3>2. requests = [j \in DOMAIN requests |-> requests[j]]
      <4>1. IsSequence(requests)
        BY DEF RequestsOK
      <4> QED  BY <4>1, SequenceIsFunction
    <3> QED  BY <1>3, <3>1, <3>2
  <2>2. \A j \in DOMAIN requests : Running(requests[j]) => told[j] = "no"
    BY <1>1 DEF RequestsOK, IsRequest
  <2>3. \A j \in DOMAIN requests : told[j] # "yes" \/ told[j] = requests[j].told
    OBVIOUS
  <2>4. conf' = conf /\ shown' = shown /\ stale' = stale /\ early' = early
    BY <1>3 DEF cache
  <2> HIDE DEF told
  <2> QED  BY <2>1, <2>2, <2>3, <2>4, HearStep
<1> QED  BY <1>2, <1>3 DEF AnswerEntry

\* A delete ends: its answers are in.
LEMMA DeleteEndsStep ==
    ASSUME RequestsOK, NEW b, DeleteEnds(b)
    PROVE  PageStep
<1> DEFINE acted == {i \in DOMAIN requests : i \in batches[b].sent /\ ~batches[b].failed}
           told == [i \in DOMAIN requests |-> IF i \in acted THEN "yes" ELSE requests[i].told]
<1>1. requests' = [i \in DOMAIN requests |-> [requests[i] EXCEPT !.told = told[i]]]
  <2>1. \A j \in DOMAIN requests : requests[j] = [requests[j] EXCEPT !.told = requests[j].told]
    BY DEF RequestsOK, IsRequest
  <2>2. requests' = [i \in DOMAIN requests |->
                       IF i \in acted THEN [requests[i] EXCEPT !.told = "yes"] ELSE requests[i]]
    BY DEF DeleteEnds
  <2> QED  BY <2>1, <2>2
<1>2. \A i \in DOMAIN requests : Running(requests[i]) => told[i] = "no"
  <2> SUFFICES ASSUME NEW i \in DOMAIN requests, Running(requests[i]) PROVE told[i] = "no"
    OBVIOUS
  <2>1. requests[i].told = "no"
    BY DEF RequestsOK, IsRequest
  <2>2. i \notin batches[b].sent
    <3>1. Unheard(b) = {}
      BY DEF DeleteEnds, Done
    <3> QED  BY <2>1, <3>1 DEF Unheard
  <2> QED  BY <2>1, <2>2
<1>3. ~stale' => /\ ~stale
                 /\ \A j \in DOMAIN requests :
                       requests[j].reply = "ok" => told[j] # "yes" \/ told[j] = requests[j].told
  BY DEF DeleteEnds
<1>4. conf' = conf /\ shown' = shown /\ early' = early
  BY DEF DeleteEnds
<1> HIDE DEF told, acted
<1> QED  BY <1>1, <1>2, <1>3, <1>4, HearStep

\* Any step of the address lists page.
LEMMA ListsStep ==
    ASSUME RequestsOK, ListsNext
    PROVE  PageStep
<1>1. CASE FetchLists
  BY <1>1, FetchStep DEF FetchLists
<1>2. CASE UNCHANGED contentVars
  BY <1>2, KeepStep
<1>3. ASSUME NEW list, AddressListGroup(list) PROVE PageStep
  <2>1. CASE HandleDeleteEntries(list)
    BY <2>1, DeleteEntriesStep
  <2>2. CASE UNCHANGED contentVars
    BY <2>2, KeepStep
  <2> QED
    BY <1>3, <2>1, <2>2 DEF AddressListGroup, ToggleList, HandleSelectAll, HandleSelectEntry, Select,
       OpenEntries
<1>4. CASE HandleSubmit
  <2>1. conf' = conf /\ requests' = requests /\ shown' = shown /\ early' = early /\ (~stale' => ~stale)
    BY <1>4 DEF HandleSubmit, serviceVars
  <2> QED  BY <2>1, IdleStep
<1>5. ASSUME NEW b, SendNext(b) PROVE PageStep
  <2>1. Send("create", <<>>, Entry(batches[b].list, Head(batches[b].todo)), <<>>, "page")
    BY <1>5 DEF SendNext
  <2> QED  BY <2>1, SendNone
<1>6. ASSUME NEW b, DeleteEnds(b) PROVE PageStep
  BY <1>6, DeleteEndsStep
<1>7. ASSUME NEW i \in DOMAIN requests, AnswerEntry(i) PROVE PageStep
  BY <1>7, AnswerEntryStep
<1>8. CASE ChangeLists
  BY <1>8, ChangeStep DEF ChangeLists
<1>9. ASSUME NEW b, SubmitEnds(b) PROVE UNCHANGED contentVars
  BY <1>9 DEF SubmitEnds
<1>10. AddAddressList => UNCHANGED contentVars
  BY DEF AddAddressList, OpenEntries
<1>11. EntryDrawer => HandleSubmit \/ UNCHANGED contentVars
  <2>1. ASSUME NEW p, HandleAddEntry(p) PROVE UNCHANGED contentVars
    BY <2>1 DEF HandleAddEntry, Drawer
  <2>2. HandleRemoveEntry => UNCHANGED contentVars
    BY DEF HandleRemoveEntry, Drawer
  <2>3. HandleParseImport => UNCHANGED contentVars
    BY DEF HandleParseImport, Drawer
  <2>4. TypeName => UNCHANGED contentVars
    BY DEF TypeName, Drawer
  <2>5. HandleClose => UNCHANGED contentVars
    BY DEF HandleClose
  <2> QED  BY <2>1, <2>2, <2>3, <2>4, <2>5 DEF EntryDrawer
<1>12. Groups => \E list : AddressListGroup(list)
  BY DEF Groups
<1> QED
  BY <1>1, <1>2, <1>3, <1>4, <1>5, <1>6, <1>7, <1>8, <1>9, <1>10, <1>11, <1>12 DEF ListsNext

\* Any step of the routes page.
LEMMA RoutesStep ==
    ASSUME RequestsOK, RoutesNext
    PROVE  PageStep
<1>1. CASE FetchRoutes
  BY <1>1, FetchStep DEF FetchRoutes
<1>2. CASE UNCHANGED contentVars
  BY <1>2, KeepStep
<1>3. CASE SubmitRoute
  <2>1. Send("create", <<>>, Route(routeForm.destination, routeForm.gateway), <<>>, "page")
    BY <1>3 DEF SubmitRoute
  <2> QED  BY <2>1, SendNone
<1>4. ASSUME NEW i \in DOMAIN requests, AnswerRoute(i) PROVE PageStep
  <2>1. ~Running(requests[i]) /\ Take(i, requests[i].reply = "ok")
    BY <1>4 DEF AnswerRoute
  <2> QED  BY <2>1, TakeStep
<1>5. CASE ChangeRoutes
  BY <1>5, ChangeStep DEF ChangeRoutes
<1>6. OpenRoute \/ TypeInRoute \/ CloseRoute \/ ShowRoute \/ CloseDetail => UNCHANGED contentVars
  BY DEF OpenRoute, TypeInRoute, CloseRoute, ShowRoute, CloseDetail
<1> QED  BY <1>1, <1>2, <1>3, <1>4, <1>5, <1>6 DEF RoutesNext

\* What another administrator sends.
LEMMA OtherStep ==
    ASSUME RequestsOK, NEW vals, NEW patches, NEW ops, OtherSends(vals, patches, ops)
    PROVE  PageStep
<1>1. ASSUME NEW val, Send("create", <<>>, val, <<>>, "other") PROVE PageStep
  BY <1>1, SendNone
<1>2. ASSUME NEW id, NEW patch, Send("update", <<id>>, Nothing, patch, "other") PROVE PageStep
  BY <1>2, SendOne
<1>3. ASSUME NEW id, Send("delete", <<id>>, Nothing, <<>>, "other") PROVE PageStep
  BY <1>3, SendOne
<1>4. ASSUME NEW id, NEW dest, Send("move", <<id, dest>>, Nothing, <<>>, "other") PROVE PageStep
  BY <1>4, SendTwo
<1> QED  BY <1>1, <1>2, <1>3, <1>4 DEF OtherSends

\* Whatever happens, it is a step of a page or of the service.
LEMMA PageOrService ==
    ASSUME RequestsOK, [PagesNext]_pagesVars
    PROVE  PageStep \/ ServeContent
<1>1. CASE UNCHANGED pagesVars
  BY <1>1, KeepStep DEF pagesVars
<1> QED  BY <1>1, FirewallStep, ListsStep, RoutesStep, OtherStep DEF PagesNext

-----------------------------------------------------------------------------
(* The service.                                                            *)

\* Of the requests that are not served only "torn" may change.
Bystander(j) ==
    /\ requests'[j] = [requests[j] EXCEPT !.torn = requests'[j].torn]
    /\ requests[j].torn => requests'[j].torn
\* The request that is served keeps what was sent, and is not answered twice.
Served(i) ==
    /\ Running(requests[i])
    /\ requests'[i] = [f \in Fields |-> requests'[i][f]]
    /\ requests'[i].op = requests[i].op /\ requests'[i].names = requests[i].names
    /\ requests'[i].val = requests[i].val /\ requests'[i].patch = requests[i].patch
    /\ requests'[i].by = requests[i].by /\ requests'[i].told = requests[i].told
    /\ requests[i].torn => requests'[i].torn
    /\ requests[i].loose => requests'[i].loose
    /\ requests[i].blurred => requests'[i].blurred
    /\ requests[i].left => requests'[i].left
ServiceStep(i) ==
    /\ IsSequence(requests') /\ Len(requests') = Len(requests) /\ DOMAIN requests' = DOMAIN requests
    /\ Served(i)
    /\ \A j \in DOMAIN requests \ {i} : Bystander(j)
\* Only the served request changes.
LEMMA AloneServed ==
    ASSUME RequestsOK, NEW i \in DOMAIN requests, NEW q,
           requests' = [requests EXCEPT ![i] = q]
    PROVE  /\ IsSequence(requests') /\ Len(requests') = Len(requests)
           /\ DOMAIN requests' = DOMAIN requests
           /\ requests'[i] = q
           /\ \A j \in DOMAIN requests \ {i} : requests'[j] = requests[j] /\ Bystander(j)
<1>1. Len(requests) \in Nat /\ DOMAIN requests = 1..Len(requests)
  BY SequenceIsFunction DEF RequestsOK
<1>2. requests' = [k \in 1..Len(requests) |-> requests'[k]]
  BY <1>1
<1>3. IsSequence(requests') /\ Len(requests') = Len(requests) /\ DOMAIN requests' = DOMAIN requests
  BY <1>1, <1>2, FunctionIsSequence
<1>4. requests'[i] = q /\ \A j \in DOMAIN requests \ {i} : requests'[j] = requests[j]
  OBVIOUS
<1>5. \A j \in DOMAIN requests : requests[j] = [requests[j] EXCEPT !.torn = requests[j].torn]
  BY DEF RequestsOK, IsRequest
<1> QED  BY <1>3, <1>4, <1>5 DEF Bystander

\* The others are torn if the change falls in their middle.
LEMMA OthersTorn ==
    ASSUME RequestsOK, NEW i \in DOMAIN requests, NEW tears,
           requests' = [j \in DOMAIN requests |-> requests'[j]],
           \A j \in DOMAIN requests \ {i} :
              requests'[j] = [requests[j] EXCEPT !.torn = requests[j].torn \/ tears[j]]
    PROVE  /\ IsSequence(requests') /\ Len(requests') = Len(requests)
           /\ DOMAIN requests' = DOMAIN requests
           /\ \A j \in DOMAIN requests \ {i} :
                 Bystander(j) /\ (requests'[j].torn <=> requests[j].torn \/ tears[j])
<1>1. Len(requests) \in Nat /\ DOMAIN requests = 1..Len(requests)
  BY SequenceIsFunction DEF RequestsOK
<1>2. requests' = [k \in 1..Len(requests) |-> requests'[k]]
  BY <1>1
<1>3. IsSequence(requests') /\ Len(requests') = Len(requests) /\ DOMAIN requests' = DOMAIN requests
  BY <1>1, <1>2, FunctionIsSequence
<1>5. ASSUME NEW j \in DOMAIN requests \ {i}
      PROVE  Bystander(j) /\ (requests'[j].torn <=> requests[j].torn \/ tears[j])
  <2>1. requests'[j] = [requests[j] EXCEPT !.torn = requests[j].torn \/ tears[j]]
    OBVIOUS
  <2>2. requests[j] = [f \in Fields |-> requests[j][f]]
    BY DEF RequestsOK, IsRequest
  <2>3. requests'[j].torn <=> requests[j].torn \/ tears[j]
    BY <2>1, <2>2 DEF Fields
  <2>4. requests'[j].torn = (requests[j].torn \/ tears[j])
    BY <2>1, <2>2 DEF Fields
  <2> QED  BY <2>1, <2>3, <2>4 DEF Bystander
<1> QED  BY <1>3, <1>5

\* All but the served request are marked.
LEMMA MarkedIs ==
    ASSUME RequestsOK, NEW i \in DOMAIN requests, NEW p, requests' = Marked(i, p)
    PROVE  /\ IsSequence(requests') /\ Len(requests') = Len(requests)
           /\ DOMAIN requests' = DOMAIN requests
           /\ requests'[i] = p
           /\ \A j \in DOMAIN requests \ {i} :
                 /\ Bystander(j)
                 /\ requests'[j].torn <=> requests[j].torn \/ Amid(requests[j], requests[i])
<1> DEFINE tears == [j \in DOMAIN requests |-> Amid(requests[j], requests[i])]
<1>1. /\ requests' = [j \in DOMAIN requests |-> requests'[j]]
      /\ requests'[i] = p
      /\ \A j \in DOMAIN requests \ {i} :
            requests'[j] = [requests[j] EXCEPT !.torn = requests[j].torn \/ tears[j]]
  BY DEF Marked
<1>2. \A j \in DOMAIN requests \ {i} : tears[j] <=> Amid(requests[j], requests[i])
  OBVIOUS
<1> HIDE DEF tears
<1> QED  BY <1>1, <1>2, OthersTorn

\* What a step leaves of the request it serves.
RefusedNow(i) ==
    requests'[i].reply = "error" /\ requests'[i].strewn = requests[i].strewn
StillRuns(i) ==
    requests'[i].reply = requests[i].reply /\ requests'[i].strewn = requests[i].strewn
SameLookups(i) ==
    /\ requests'[i].refs = requests[i].refs /\ requests'[i].todo = requests[i].todo
    /\ requests'[i].target = requests[i].target /\ requests'[i].loose = requests[i].loose
    /\ requests'[i].blurred = requests[i].blurred /\ requests'[i].torn = requests[i].torn
SameGroup(i) ==
    /\ requests'[i].done = requests[i].done /\ requests'[i].undoing = requests[i].undoing
    /\ requests'[i].before = requests[i].before /\ requests'[i].left = requests[i].left
OthersMarked(i) ==
    \A j \in DOMAIN requests \ {i} :
        requests'[j].torn <=> requests[j].torn \/ Amid(requests[j], requests[i])

\* A request is refused.
LEMMA RefuseIs ==
    ASSUME RequestsOK, NEW i \in DOMAIN requests, Running(requests[i]), Refuse(i)
    PROVE  ServiceStep(i) /\ RefusedNow(i) /\ SameLookups(i) /\ SameGroup(i)
<1>1. requests[i] = [f \in Fields |-> requests[i][f]]
  BY DEF RequestsOK, IsRequest
<1> DEFINE q == [requests[i] EXCEPT !.reply = "error"]
<1>2. requests' = [requests EXCEPT ![i] = q]
  BY DEF Refuse
<1>3. requests'[i] = q
  BY <1>2, AloneServed
<1>4. Served(i) /\ RefusedNow(i) /\ SameLookups(i) /\ SameGroup(i)
  BY <1>1, <1>3 DEF Served, RefusedNow, SameLookups, SameGroup, Fields, Running
<1> HIDE DEF q
<1> QED  BY <1>2, <1>4, AloneServed DEF ServiceStep

\* LookupMaster.
LEMMA LookupMasterIs ==
    ASSUME RequestsOK, NEW i \in DOMAIN requests, LookupMaster(i)
    PROVE  /\ ServiceStep(i) /\ conf' = conf /\ Master \in requests[i].todo /\ SameGroup(i)
           /\ \/ RefusedNow(i) /\ SameLookups(i)
              \/ /\ StillRuns(i) /\ requests'[i].loose = requests[i].loose
                 /\ requests'[i].blurred = requests[i].blurred
                 /\ requests'[i].torn <=> requests[i].torn \/ Unsettled(Master)
                 /\ \A k \in DOMAIN requests[i].names : At(conf[Master], requests[i].names[k]) # {}
                 /\ requests'[i].refs = [k \in DOMAIN requests[i].names |->
                                           ItemAt(conf[Master], requests[i].names[k]).val]
                 /\ requests'[i].todo = requests[i].todo \ {Master}
                 /\ requests'[i].target = [requests[i].target EXCEPT ![Master] = requests[i].names]
<1>1. requests[i] = [f \in Fields |-> requests[i][f]]
  BY DEF RequestsOK, IsRequest
<1>2. Running(requests[i]) /\ Master \in requests[i].todo /\ conf' = conf
  BY DEF LookupMaster
<1>3. CASE Refuse(i)
  BY <1>2, <1>3, RefuseIs
<1>4. CASE ~Refuse(i)
  <2> DEFINE refs == [k \in DOMAIN requests[i].names |->
                        ItemAt(conf[Master], requests[i].names[k]).val]
             amid == Unsettled(Master)
             q == [requests[i] EXCEPT !.refs = refs, !.todo = @ \ {Master}, !.torn = @ \/ amid,
                                      !.target = [@ EXCEPT ![Master] = requests[i].names]]
  <2>1. /\ \A k \in DOMAIN requests[i].names : At(conf[Master], requests[i].names[k]) # {}
        /\ requests' = [requests EXCEPT ![i].refs = refs, ![i].todo = @ \ {Master},
                                        ![i].torn = @ \/ amid,
                                        ![i].target[Master] = requests[i].names]
    BY <1>4 DEF LookupMaster
  <2> HIDE DEF refs, amid
  <2>2. requests' = [requests EXCEPT ![i] = q]
    BY <1>1, <2>1 DEF Fields
  <2>3. requests'[i] = q
    BY <2>2, AloneServed
  <2>4. /\ q.refs = refs /\ q.todo = requests[i].todo \ {Master}
        /\ q.target = [requests[i].target EXCEPT ![Master] = requests[i].names]
        /\ q.torn <=> requests[i].torn \/ amid
    BY <1>1 DEF Fields
  <2>5. /\ Served(i) /\ StillRuns(i) /\ requests'[i].loose = requests[i].loose
        /\ requests'[i].blurred = requests[i].blurred /\ SameGroup(i)
    BY <1>1, <1>2, <2>3 DEF Served, StillRuns, SameGroup, Fields
  <2> HIDE DEF q
  <2>6. ServiceStep(i)
    BY <2>2, <2>5, AloneServed DEF ServiceStep
  <2> QED  BY <1>2, <2>1, <2>3, <2>4, <2>5, <2>6 DEF refs, amid
<1> QED  BY <1>3, <1>4

\* LookupBackup.
Found(items, refs) ==
    IF \E k \in DOMAIN refs : Alike(items, refs[k]) = {} THEN Nothing
    ELSE [k \in DOMAIN refs |-> FirstMatch(items, refs[k])]
Twice(items, refs) == \E k \in DOMAIN refs : Cardinality(Alike(items, refs[k])) > 1
Blurs(items, refs) == \E k \in DOMAIN refs : Alike(items, refs[k]) # Matching(items, refs[k])
LEMMA LookupBackupIs ==
    ASSUME RequestsOK, NEW i \in DOMAIN requests, NEW r \in Routers, LookupBackup(i, r)
    PROVE  /\ ServiceStep(i) /\ conf' = conf /\ SameGroup(i)
           /\ requests[i].refs # <<>> /\ r \in requests[i].todo
           /\ requests[i].op = "move" => Posted(requests[i])
           /\ StillRuns(i) /\ requests'[i].refs = requests[i].refs
           /\ requests'[i].todo = requests[i].todo \ {r}
           /\ requests'[i].target = [requests[i].target EXCEPT ![r] = Found(conf[r], requests[i].refs)]
           /\ requests'[i].torn <=> requests[i].torn \/ Unsettled(r)
           /\ requests'[i].loose <=> requests[i].loose \/ Twice(conf[r], requests[i].refs)
           /\ requests'[i].blurred <=> requests[i].blurred \/ Blurs(conf[r], requests[i].refs)
<1>1. requests[i] = [f \in Fields |-> requests[i][f]]
  BY DEF RequestsOK, IsRequest
<1> DEFINE found == Found(conf[r], requests[i].refs)
           amid == Unsettled(r)
           many == Twice(conf[r], requests[i].refs)
           blur == Blurs(conf[r], requests[i].refs)
           q == [requests[i] EXCEPT !.todo = @ \ {r}, !.target = [@ EXCEPT ![r] = found],
                                    !.torn = @ \/ amid, !.loose = @ \/ many, !.blurred = @ \/ blur]
<1>2. /\ Running(requests[i]) /\ requests[i].refs # <<>> /\ r \in requests[i].todo
      /\ requests[i].op = "move" => Posted(requests[i])
      /\ conf' = conf
  BY DEF LookupBackup
<1>3. requests' = [requests EXCEPT ![i].todo = @ \ {r}, ![i].target[r] = found,
                                   ![i].torn = @ \/ amid, ![i].loose = @ \/ many,
                                   ![i].blurred = @ \/ blur]
  BY DEF LookupBackup, Found, Twice, Blurs
<1> HIDE DEF found, many, amid, blur
<1>4. requests' = [requests EXCEPT ![i] = q]
  BY <1>1, <1>3 DEF Fields
<1>5. requests'[i] = q
  BY <1>4, AloneServed
<1>6. /\ q.todo = requests[i].todo \ {r} /\ q.refs = requests[i].refs
      /\ q.target = [requests[i].target EXCEPT ![r] = found]
  BY <1>1 DEF Fields
<1>7. /\ q.torn <=> requests[i].torn \/ amid
      /\ q.loose <=> requests[i].loose \/ many
      /\ q.blurred <=> requests[i].blurred \/ blur
  BY <1>1 DEF Fields
<1>8. Served(i) /\ StillRuns(i) /\ SameGroup(i)
  <2>1. /\ requests[i].loose => requests'[i].loose
        /\ requests[i].torn => requests'[i].torn
        /\ requests[i].blurred => requests'[i].blurred
    BY <1>5, <1>7
  <2>2. /\ requests'[i] = [f \in Fields |-> requests'[i][f]]
        /\ requests'[i].op = requests[i].op /\ requests'[i].names = requests[i].names
        /\ requests'[i].val = requests[i].val /\ requests'[i].patch = requests[i].patch
        /\ requests'[i].by = requests[i].by /\ requests'[i].told = requests[i].told
        /\ StillRuns(i) /\ SameGroup(i)
    BY <1>1, <1>5 DEF StillRuns, SameGroup, Fields
  <2> QED  BY <1>2, <2>1, <2>2 DEF Served, SameGroup
<1> HIDE DEF q
<1> QED  BY <1>2, <1>4, <1>5, <1>6, <1>7, <1>8, AloneServed DEF ServiceStep, found, many, amid, blur

\* CallFails.
LEMMA CallFailsIs ==
    ASSUME RequestsOK, NEW i \in DOMAIN requests, CallFails(i)
    PROVE  /\ ServiceStep(i) /\ conf' = conf /\ RefusedNow(i) /\ SameLookups(i) /\ SameGroup(i)
           /\ requests[i].todo # {} \/ requests[i].op = "move"
BY RefuseIs DEF CallFails

\* Apply.
Applies(i, r, q) ==
    /\ Turn(q, r) /\ Free(i) /\ Accepts(conf[r], q, IdOn(q, r))
    /\ conf' = [conf EXCEPT ![r] = After(@, q, IdOn(q, r), r, i)]
LEMMA ApplyIs ==
    ASSUME RequestsOK, NEW i \in DOMAIN requests, NEW r \in Routers, Apply(i, r),
           NEW q, q = requests[i]
    PROVE  /\ ServiceStep(i) /\ StillRuns(i) /\ SameLookups(i) /\ Applies(i, r, q)
           /\ requests'[i].undoing = q.undoing /\ requests'[i].left = q.left
           /\ requests'[i].done = q.done \cup {r}
           /\ requests'[i].before = [q.before EXCEPT ![r] =
                 IF q.op = "create" THEN Nothing ELSE ItemAt(conf[r], IdOn(q, r)).val]
           /\ OthersMarked(i)
<1>1. q = [f \in Fields |-> q[f]]
  BY DEF RequestsOK, IsRequest
<1> DEFINE was == IF q.op = "create" THEN Nothing ELSE ItemAt(conf[r], IdOn(q, r)).val
           p == [q EXCEPT !.done = @ \cup {r}, !.before = [@ EXCEPT ![r] = was]]
<1>2. Applies(i, r, q)
  BY DEF Apply, Takes, Applies
<1>3. requests' = Marked(i, [q EXCEPT !.done = @ \cup {r}, !.before[r] = was])
  BY DEF Apply
<1> HIDE DEF was
<1>4. requests' = Marked(i, p)
  <2>1. p = [q EXCEPT !.done = @ \cup {r}, !.before[r] = was]
    BY <1>1 DEF Fields
  <2> HIDE DEF p
  <2> QED  BY <1>3, <2>1
<1>5. /\ p = [f \in Fields |-> p[f]] /\ p.reply = q.reply /\ p.strewn = q.strewn
      /\ p.op = q.op /\ p.names = q.names /\ p.val = q.val /\ p.patch = q.patch
      /\ p.by = q.by /\ p.told = q.told /\ p.torn = q.torn /\ p.loose = q.loose
      /\ p.blurred = q.blurred /\ p.left = q.left /\ p.undoing = q.undoing
      /\ p.refs = q.refs /\ p.todo = q.todo /\ p.target = q.target
      /\ p.done = q.done \cup {r} /\ p.before = [q.before EXCEPT ![r] = was]
  BY <1>1 DEF Fields
<1> HIDE DEF p
<1>6. /\ IsSequence(requests') /\ Len(requests') = Len(requests)
      /\ DOMAIN requests' = DOMAIN requests
      /\ requests'[i] = p
      /\ \A j \in DOMAIN requests \ {i} :
            /\ Bystander(j)
            /\ requests'[j].torn <=> requests[j].torn \/ Amid(requests[j], requests[i])
  BY <1>4, MarkedIs
<1>7. Running(q)
  BY <1>2 DEF Applies, Turn, Ready
<1>8. Served(i) /\ StillRuns(i) /\ SameLookups(i)
  BY <1>5, <1>6, <1>7 DEF Served, StillRuns, SameLookups
<1> QED  BY <1>2, <1>5, <1>6, <1>8 DEF ServiceStep, OthersMarked, was

\* Finish.
LEMMA FinishIs ==
    ASSUME RequestsOK, NEW i \in DOMAIN requests, Finish(i), NEW q, q = requests[i]
    PROVE  /\ ServiceStep(i) /\ SameLookups(i) /\ SameGroup(i) /\ conf' = conf
           /\ Ready(q) /\ ~q.undoing /\ q.done = Touched(q)
           /\ requests'[i].reply \in {"ok", "unsaid"} /\ requests'[i].strewn = q.strewn
           /\ \A j \in DOMAIN requests \ {i} : requests'[j] = requests[j]
<1>1. q = [f \in Fields |-> q[f]]
  BY DEF RequestsOK, IsRequest
<1>2. Ready(q) /\ ~q.undoing /\ q.done = Touched(q) /\ conf' = conf
  BY DEF Finish
<1>3. PICK reply \in {"ok", "unsaid"} : requests' = [requests EXCEPT ![i].reply = reply]
  BY DEF Finish
<1> DEFINE p == [q EXCEPT !.reply = reply]
<1>4. requests' = [requests EXCEPT ![i] = p]
  BY <1>3
<1>5. requests'[i] = p /\ \A j \in DOMAIN requests \ {i} : requests'[j] = requests[j]
  BY <1>4, AloneServed
<1>6. /\ Served(i) /\ SameLookups(i) /\ SameGroup(i)
      /\ requests'[i].reply = reply /\ requests'[i].strewn = q.strewn
  BY <1>1, <1>2, <1>5 DEF Served, SameLookups, SameGroup, Fields, Ready
<1> HIDE DEF p
<1> QED  BY <1>2, <1>4, <1>5, <1>6, AloneServed DEF ServiceStep

\* ApplyFails.
LEMMA FailedIs ==
    ASSUME NEW q, q = [f \in Fields |-> q[f]], NEW p, p = Failed(q)
    PROVE  /\ p = [f \in Fields |-> p[f]] /\ p.strewn = q.strewn
           /\ p.op = q.op /\ p.names = q.names /\ p.val = q.val /\ p.patch = q.patch
           /\ p.by = q.by /\ p.told = q.told /\ p.torn = q.torn /\ p.loose = q.loose
           /\ p.blurred = q.blurred /\ p.left = q.left
           /\ p.refs = q.refs /\ p.todo = q.todo /\ p.target = q.target
           /\ p.done = q.done /\ p.before = q.before
           /\ q.done = {} => p.reply = "error" /\ p.undoing = q.undoing
           /\ q.done # {} => p.reply = q.reply /\ p.undoing
<1>1. CASE q.done = {}
  BY <1>1 DEF Failed, Fields
<1>2. CASE q.done # {}
  BY <1>2 DEF Failed, Fields
<1> QED  BY <1>1, <1>2
LEMMA ApplyFailsIs ==
    ASSUME RequestsOK, NEW i \in DOMAIN requests, NEW r \in Routers, ApplyFails(i, r),
           NEW q, q = requests[i]
    PROVE  /\ ServiceStep(i) /\ SameLookups(i) /\ Turn(q, r)
           /\ requests'[i].strewn = q.strewn
           /\ requests'[i].done = q.done /\ requests'[i].before = q.before
           /\ q.done = {} => requests'[i].reply = "error" /\ requests'[i].undoing = q.undoing
           /\ q.done # {} => requests'[i].reply = q.reply /\ requests'[i].undoing
           /\ \/ /\ conf' = conf /\ requests'[i].left = q.left
                 /\ \A j \in DOMAIN requests \ {i} : requests'[j] = requests[j]
              \/ Applies(i, r, q) /\ requests'[i].left /\ OthersMarked(i)
<1>1. q = [f \in Fields |-> q[f]]
  BY DEF RequestsOK, IsRequest
<1>2. PICK p : p = Failed(q)
  OBVIOUS
<1>3. /\ p = [f \in Fields |-> p[f]] /\ p.strewn = q.strewn
      /\ p.op = q.op /\ p.names = q.names /\ p.val = q.val /\ p.patch = q.patch
      /\ p.by = q.by /\ p.told = q.told /\ p.torn = q.torn /\ p.loose = q.loose
      /\ p.blurred = q.blurred /\ p.left = q.left
      /\ p.refs = q.refs /\ p.todo = q.todo /\ p.target = q.target
      /\ p.done = q.done /\ p.before = q.before
      /\ q.done = {} => p.reply = "error" /\ p.undoing = q.undoing
      /\ q.done # {} => p.reply = q.reply /\ p.undoing
  BY <1>1, <1>2, FailedIs
<1>4. Turn(q, r) /\ Running(q)
  BY DEF ApplyFails, Takes, Turn, Ready
<1>5. CASE requests' = [requests EXCEPT ![i] = p] /\ conf' = conf
  <2>1. requests'[i] = p /\ \A j \in DOMAIN requests \ {i} : requests'[j] = requests[j]
    BY <1>5, AloneServed
  <2>2. Served(i) /\ SameLookups(i)
    BY <1>3, <1>4, <2>1 DEF Served, SameLookups
  <2> QED  BY <1>3, <1>4, <1>5, <2>1, <2>2, AloneServed DEF ServiceStep
<1>6. CASE Takes(i, r) /\ requests' = Marked(i, [p EXCEPT !.left = TRUE])
  <2>1. PICK o : o = [p EXCEPT !.left = TRUE]
    OBVIOUS
  <2>2. /\ o = [f \in Fields |-> o[f]] /\ o.strewn = p.strewn /\ o.left
        /\ o.op = p.op /\ o.names = p.names /\ o.val = p.val /\ o.patch = p.patch
        /\ o.by = p.by /\ o.told = p.told /\ o.torn = p.torn /\ o.loose = p.loose
        /\ o.blurred = p.blurred /\ o.reply = p.reply /\ o.undoing = p.undoing
        /\ o.refs = p.refs /\ o.todo = p.todo /\ o.target = p.target
        /\ o.done = p.done /\ o.before = p.before
    BY <1>3, <2>1 DEF Fields
  <2>3. /\ IsSequence(requests') /\ Len(requests') = Len(requests)
        /\ DOMAIN requests' = DOMAIN requests
        /\ requests'[i] = o
        /\ \A j \in DOMAIN requests \ {i} :
              /\ Bystander(j)
              /\ requests'[j].torn <=> requests[j].torn \/ Amid(requests[j], requests[i])
    BY <1>6, <2>1, MarkedIs
  <2>4. Served(i) /\ SameLookups(i)
    BY <1>3, <1>4, <2>2, <2>3 DEF Served, SameLookups
  <2>5. Applies(i, r, q)
    BY <1>6 DEF Takes, Applies
  <2>6. ServiceStep(i) /\ OthersMarked(i)
    BY <2>3, <2>4 DEF ServiceStep, OthersMarked
  <2> QED  BY <1>3, <1>4, <2>2, <2>3, <2>4, <2>5, <2>6
<1> QED  BY <1>2, <1>5, <1>6 DEF ApplyFails

\* TakeBack.
Sticks(q, r, items) ==
    q.op = "update" /\ ItemAt(items, q.target[r][1]).val # q.before[r]
LEMMA TakeBackIs ==
    ASSUME RequestsOK, NEW i \in DOMAIN requests, NEW r \in Routers, TakeBack(i, r),
           NEW q, q = requests[i]
    PROVE  /\ ServiceStep(i) /\ SameLookups(i)
           /\ Running(q) /\ q.undoing /\ r \in q.done /\ (r = Master => q.done = {Master})
           /\ requests'[i].done = q.done \ {r} /\ requests'[i].before = q.before
           /\ requests'[i].undoing = q.undoing
           /\ q.done = {r} => requests'[i].reply = "error"
           /\ q.done # {r} => requests'[i].reply = q.reply
           /\ \/ /\ conf' = [conf EXCEPT ![r] = Reversed(conf[r], q, r, i)]
                 /\ requests'[i].left <=> q.left \/ Sticks(q, r, Reversed(conf[r], q, r, i))
                 /\ requests'[i].strewn <=> q.strewn \/ q.op = "delete"
                 /\ OthersMarked(i)
              \/ /\ conf' = conf /\ requests'[i].left /\ requests'[i].strewn = q.strewn
                 /\ \A j \in DOMAIN requests \ {i} : requests'[j] = requests[j]
<1>1. q = [f \in Fields |-> q[f]]
  BY DEF RequestsOK, IsRequest
<1>2. PICK over : over = [q EXCEPT !.done = @ \ {r}, !.reply = IF q.done = {r} THEN "error" ELSE @]
  OBVIOUS
<1>3. /\ over = [f \in Fields |-> over[f]] /\ over.strewn = q.strewn
      /\ over.op = q.op /\ over.names = q.names /\ over.val = q.val /\ over.patch = q.patch
      /\ over.by = q.by /\ over.told = q.told /\ over.torn = q.torn /\ over.loose = q.loose
      /\ over.blurred = q.blurred /\ over.left = q.left
      /\ over.refs = q.refs /\ over.todo = q.todo /\ over.target = q.target
      /\ over.done = q.done \ {r} /\ over.before = q.before /\ over.undoing = q.undoing
      /\ q.done = {r} => over.reply = "error"
      /\ q.done # {r} => over.reply = q.reply
  BY <1>1, <1>2 DEF Fields
<1>4. Running(q) /\ q.undoing /\ r \in q.done /\ (r = Master => q.done = {Master})
  BY DEF TakeBack
<1>5. CASE /\ conf' = [conf EXCEPT ![r] = Reversed(conf[r], q, r, i)]
           /\ requests' = Marked(i, [over EXCEPT
                             !.left = @ \/ Sticks(q, r, Reversed(conf[r], q, r, i)),
                             !.strewn = @ \/ q.op = "delete"])
  <2>1. PICK sticks : sticks = Sticks(q, r, Reversed(conf[r], q, r, i))
    OBVIOUS
  <2>2. PICK o : o = [over EXCEPT !.left = @ \/ sticks, !.strewn = @ \/ q.op = "delete"]
    OBVIOUS
  <2>3. /\ o = [f \in Fields |-> o[f]]
        /\ o.op = over.op /\ o.names = over.names /\ o.val = over.val /\ o.patch = over.patch
        /\ o.by = over.by /\ o.told = over.told /\ o.torn = over.torn /\ o.loose = over.loose
        /\ o.blurred = over.blurred /\ o.reply = over.reply /\ o.undoing = over.undoing
        /\ o.refs = over.refs /\ o.todo = over.todo /\ o.target = over.target
        /\ o.done = over.done /\ o.before = over.before
    BY <1>3, <2>2 DEF Fields
  <2>4. (o.left <=> over.left \/ sticks) /\ (o.strewn <=> over.strewn \/ q.op = "delete")
    BY <1>3, <2>2 DEF Fields
  <2>5. /\ IsSequence(requests') /\ Len(requests') = Len(requests)
        /\ DOMAIN requests' = DOMAIN requests
        /\ requests'[i] = o
        /\ \A j \in DOMAIN requests \ {i} :
              /\ Bystander(j)
              /\ requests'[j].torn <=> requests[j].torn \/ Amid(requests[j], requests[i])
    BY <1>5, <2>1, <2>2, MarkedIs
  <2>6. Served(i) /\ SameLookups(i)
    BY <1>3, <1>4, <2>3, <2>4, <2>5 DEF Served, SameLookups
  <2>7. ServiceStep(i) /\ OthersMarked(i)
    BY <2>5, <2>6 DEF ServiceStep, OthersMarked
  <2> QED  BY <1>3, <1>4, <1>5, <2>1, <2>3, <2>4, <2>5, <2>6, <2>7
<1>6. CASE /\ requests' = [requests EXCEPT ![i] = [over EXCEPT !.left = TRUE]]
           /\ conf' = conf
  <2>2. PICK o : o = [over EXCEPT !.left = TRUE]
    OBVIOUS
  <2>3. /\ o = [f \in Fields |-> o[f]] /\ o.left /\ o.strewn = over.strewn
        /\ o.op = over.op /\ o.names = over.names /\ o.val = over.val /\ o.patch = over.patch
        /\ o.by = over.by /\ o.told = over.told /\ o.torn = over.torn /\ o.loose = over.loose
        /\ o.blurred = over.blurred /\ o.reply = over.reply /\ o.undoing = over.undoing
        /\ o.refs = over.refs /\ o.todo = over.todo /\ o.target = over.target
        /\ o.done = over.done /\ o.before = over.before
    BY <1>3, <2>2 DEF Fields
  <2>4. requests' = [requests EXCEPT ![i] = o]
    BY <1>6, <2>2
  <2>5. requests'[i] = o /\ \A j \in DOMAIN requests \ {i} : requests'[j] = requests[j]
    BY <2>4, AloneServed
  <2>6. Served(i) /\ SameLookups(i)
    BY <1>3, <1>4, <2>3, <2>5 DEF Served, SameLookups
  <2>7. ServiceStep(i)
    BY <2>4, <2>6, AloneServed DEF ServiceStep
  <2> QED  BY <1>3, <1>4, <1>6, <2>3, <2>5, <2>6, <2>7
<1>7. \/ /\ conf' = [conf EXCEPT ![r] = Reversed(conf[r], q, r, i)]
         /\ requests' = Marked(i, [over EXCEPT
                           !.left = @ \/ Sticks(q, r, Reversed(conf[r], q, r, i)),
                           !.strewn = @ \/ q.op = "delete"])
      \/ /\ requests' = [requests EXCEPT ![i] = [over EXCEPT !.left = TRUE]]
         /\ conf' = conf
  <2> HIDE <1>1, <1>3
  <2>1. TakeBack(i, r)
    OBVIOUS
  <2> QED  BY <1>2, <2>1, Zenon DEF TakeBack, Sticks
<1> QED  BY <1>5, <1>6, <1>7

\* PostMove.
PostsMove(i, r, q) ==
    /\ ServiceStep(i) /\ requests'[i].reply = q.reply /\ requests'[i].strewn
    /\ requests'[i].refs = q.refs /\ requests'[i].todo = q.todo
    /\ requests'[i].loose = q.loose /\ requests'[i].torn = q.torn /\ SameGroup(i)
    /\ requests'[i].blurred = q.blurred
    /\ requests'[i].target = [q.target EXCEPT ![r] = Nothing]
    /\ q.op = "move" /\ q.target[r] # Nothing
    /\ \A k \in 1..2 : At(conf[r], q.target[r][k]) # {}
    /\ conf' = [conf EXCEPT ![r] = Moved(@, q.target[r][1], q.target[r][2])]
    /\ \A j \in DOMAIN requests \ {i} :
          requests'[j].torn <=> \/ requests[j].torn
                                \/ Amid(requests[j], q) /\ requests[j].op = "move"
LEMMA PostMoveIs ==
    ASSUME RequestsOK, NEW i \in DOMAIN requests, NEW r \in Routers, PostMove(i, r),
           NEW q, q = requests[i]
    PROVE  PostsMove(i, r, q)
<1>1. q = [f \in Fields |-> q[f]]
  BY DEF RequestsOK, IsRequest
<1> DEFINE tears == [j \in DOMAIN requests |-> Amid(requests[j], q) /\ requests[j].op = "move"]
           p == [q EXCEPT !.target = [@ EXCEPT ![r] = Nothing], !.strewn = TRUE]
<1>2. /\ Running(q) /\ q.op = "move" /\ q.target[r] # Nothing
      /\ \A k \in 1..2 : At(conf[r], q.target[r][k]) # {}
      /\ conf' = [conf EXCEPT ![r] = Moved(@, q.target[r][1], q.target[r][2])]
  BY DEF PostMove
<1>3. requests' = [j \in DOMAIN requests |->
                      IF j = i THEN [q EXCEPT !.target[r] = Nothing, !.strewn = TRUE]
                      ELSE [requests[j] EXCEPT !.torn = @ \/ (/\ Amid(requests[j], q)
                                                              /\ requests[j].op = "move")]]
  BY DEF PostMove
<1>4. /\ requests' = [j \in DOMAIN requests |-> requests'[j]]
      /\ requests'[i] = p
      /\ \A j \in DOMAIN requests \ {i} :
            requests'[j] = [requests[j] EXCEPT !.torn = requests[j].torn \/ tears[j]]
  <2>1. p = [q EXCEPT !.target[r] = Nothing, !.strewn = TRUE]
    BY <1>1 DEF Fields
  <2> QED  BY <1>3, <2>1
<1>5. \A j \in DOMAIN requests \ {i} :
         tears[j] <=> Amid(requests[j], q) /\ requests[j].op = "move"
  OBVIOUS
<1>6. /\ p = [f \in Fields |-> p[f]] /\ p.strewn /\ p.reply = q.reply
      /\ p.op = q.op /\ p.names = q.names /\ p.val = q.val /\ p.patch = q.patch
      /\ p.by = q.by /\ p.told = q.told /\ p.torn = q.torn /\ p.loose = q.loose
      /\ p.blurred = q.blurred /\ p.left = q.left /\ p.done = q.done
      /\ p.undoing = q.undoing /\ p.before = q.before
      /\ p.refs = q.refs /\ p.todo = q.todo /\ p.target = [q.target EXCEPT ![r] = Nothing]
  BY <1>1 DEF Fields
<1> HIDE DEF p, tears
<1>7. /\ IsSequence(requests') /\ Len(requests') = Len(requests)
      /\ DOMAIN requests' = DOMAIN requests
      /\ requests'[i] = p
      /\ \A j \in DOMAIN requests \ {i} :
            Bystander(j) /\ (requests'[j].torn <=> requests[j].torn \/ tears[j])
  BY <1>4, OthersTorn
<1>8. Served(i) /\ SameGroup(i)
  BY <1>2, <1>6, <1>7 DEF Served, SameGroup
<1> QED  BY <1>2, <1>5, <1>6, <1>7, <1>8 DEF ServiceStep, PostsMove

LEMMA PostMoveServes ==
    ASSUME RequestsOK, NEW i \in DOMAIN requests, NEW r \in Routers, PostMove(i, r)
    PROVE  /\ ServiceStep(i) /\ requests'[i].strewn /\ requests'[i].reply = requests[i].reply
           /\ SameGroup(i)
           /\ requests[i].op = "move"
           /\ \A k \in 1..2 : At(conf[r], requests[i].target[r][k]) # {}
<1>1. PICK q : q = requests[i]
  OBVIOUS
<1>2. /\ ServiceStep(i) /\ requests'[i].strewn /\ requests'[i].reply = q.reply /\ SameGroup(i)
      /\ q.op = "move"
      /\ \A k \in 1..2 : At(conf[r], q.target[r][k]) # {}
  <2>1. PostsMove(i, r, q)
    BY <1>1, PostMoveIs
  <2> QED  BY <2>1 DEF PostsMove
<1> QED  BY <1>1, <1>2

\* MoveEnds.
LEMMA MoveEndsIs ==
    ASSUME RequestsOK, NEW i \in DOMAIN requests, MoveEnds(i), NEW q, q = requests[i]
    PROVE  /\ ServiceStep(i) /\ SameLookups(i) /\ SameGroup(i) /\ conf' = conf
           /\ requests'[i].reply \in {"ok", "unsaid"} /\ ~requests'[i].strewn
           /\ q.op = "move" /\ q.todo = {} /\ Posted(q)
<1>1. q = [f \in Fields |-> q[f]]
  BY DEF RequestsOK, IsRequest
<1>2. /\ Running(q) /\ q.op = "move" /\ q.todo = {} /\ Posted(q)
      /\ conf' = conf
  BY DEF MoveEnds
<1>3. PICK reply \in {"ok", "unsaid"} :
         requests' = [requests EXCEPT ![i].reply = reply, ![i].strewn = FALSE]
  BY DEF MoveEnds
<1> DEFINE p == [q EXCEPT !.reply = reply, !.strewn = FALSE]
<1>4. requests' = [requests EXCEPT ![i] = p]
  BY <1>1, <1>3 DEF Fields
<1>5. requests'[i] = p
  BY <1>4, AloneServed
<1>6. /\ p = [f \in Fields |-> p[f]] /\ p.reply = reply /\ ~p.strewn
      /\ p.op = q.op /\ p.names = q.names /\ p.val = q.val /\ p.patch = q.patch
      /\ p.by = q.by /\ p.told = q.told /\ p.torn = q.torn /\ p.loose = q.loose
      /\ p.refs = q.refs /\ p.todo = q.todo /\ p.target = q.target
      /\ p.blurred = q.blurred /\ p.left = q.left /\ p.done = q.done
      /\ p.undoing = q.undoing /\ p.before = q.before
  BY <1>1 DEF Fields
<1> HIDE DEF p
<1>7. Served(i) /\ SameLookups(i) /\ SameGroup(i)
  BY <1>2, <1>5, <1>6 DEF Served, SameLookups, SameGroup
<1> QED  BY <1>2, <1>4, <1>5, <1>6, <1>7, AloneServed DEF ServiceStep

\* Every step of the service is a step of one request.
LEMMA ServiceIs ==
    ASSUME RequestsOK, NEW i \in DOMAIN requests, ServeStep(i)
    PROVE  ServiceStep(i) /\ IsRequest(requests'[i])
<1>1. /\ requests[i].told = "no" /\ Running(requests[i])
      /\ requests[i].strewn => requests[i].op = "move" \/ requests[i].undoing
  <2>1. Running(requests[i])
    BY DEF ServeStep, LookupMaster, LookupBackup, CallFails, Apply, Finish, ApplyFails, Takes,
           TakeBack, PostMove, MoveEnds, Turn, Ready
  <2> QED  BY <2>1 DEF RequestsOK, IsRequest
<1>2. ASSUME ServiceStep(i), RefusedNow(i) \/ requests'[i].reply \in {"ok", "unsaid", "error"}
      PROVE  IsRequest(requests'[i])
  BY <1>1, <1>2 DEF RefusedNow, ServiceStep, Served, Running, IsRequest
<1>3. ASSUME ServiceStep(i),
             requests'[i].strewn => requests[i].strewn \/ requests'[i].undoing \/ requests[i].op = "move",
             requests[i].undoing => requests'[i].undoing
      PROVE  IsRequest(requests'[i])
  BY <1>1, <1>3 DEF ServiceStep, Served, Running, IsRequest
<1>5. CASE LookupMaster(i)
  BY <1>2, <1>3, <1>5, LookupMasterIs DEF StillRuns, SameGroup
<1>6. ASSUME NEW r \in Routers, LookupBackup(i, r)
      PROVE  ServiceStep(i) /\ IsRequest(requests'[i])
  BY <1>3, <1>6, LookupBackupIs DEF StillRuns, SameGroup
<1>7. CASE CallFails(i)
  BY <1>2, <1>7, CallFailsIs
<1>8. CASE Finish(i)
  BY <1>2, <1>8, FinishIs
<1>9. ASSUME NEW r \in Routers, Apply(i, r)
      PROVE  ServiceStep(i) /\ IsRequest(requests'[i])
  BY <1>3, <1>9, ApplyIs DEF StillRuns
<1>10. ASSUME NEW r \in Routers, ApplyFails(i, r)
       PROVE  ServiceStep(i) /\ IsRequest(requests'[i])
  <2>1. /\ ServiceStep(i) /\ requests'[i].strewn = requests[i].strewn
        /\ requests[i].done = {} => requests'[i].reply = "error"
        /\ requests[i].done # {} => requests'[i].undoing
    BY <1>10, ApplyFailsIs
  <2> QED  BY <1>2, <1>3, <2>1
<1>11. ASSUME NEW r \in Routers, TakeBack(i, r)
       PROVE  ServiceStep(i) /\ IsRequest(requests'[i])
  <2>1. ServiceStep(i) /\ requests[i].undoing /\ requests'[i].undoing = requests[i].undoing
    BY <1>11, TakeBackIs
  <2> QED  BY <1>3, <2>1
<1>12. ASSUME NEW r \in Routers, PostMove(i, r)
       PROVE  ServiceStep(i) /\ IsRequest(requests'[i])
  <2>1. ServiceStep(i) /\ requests[i].op = "move" /\ SameGroup(i)
    BY <1>12, PostMoveServes
  <2> QED  BY <1>3, <2>1 DEF SameGroup
<1>13. CASE MoveEnds(i)
  BY <1>2, <1>13, MoveEndsIs
<1> QED  BY <1>5, <1>6, <1>7, <1>8, <1>9, <1>10, <1>11, <1>12, <1>13 DEF ServeStep

\* The requests keep their shape.
LEMMA InitRequests == PagesInit => RequestsOK
<1>1. IsSequence(<<>>) /\ Len(<<>>) = 0 /\ DOMAIN <<>> = {}
  BY DEF IsSequence
<1> QED  BY <1>1, MasterAssumption DEF PagesInit, InitContent, RequestsOK
LEMMA ServiceKeeps ==
    ASSUME RequestsOK, NEW i \in DOMAIN requests, ServiceStep(i), IsRequest(requests'[i])
    PROVE  RequestsOK'
<1>1. ASSUME NEW j \in DOMAIN requests \ {i} PROVE IsRequest(requests'[j])
  <2>1. requests[j] = [f \in Fields |-> requests[j][f]] /\ IsRequest(requests[j])
    BY DEF RequestsOK, IsRequest
  <2>2. requests'[j] = [requests[j] EXCEPT !.torn = requests'[j].torn]
    BY DEF ServiceStep, Bystander
  <2> HIDE DEF Bystander
  <2>3. /\ requests'[j] = [f \in Fields |-> requests'[j][f]]
        /\ requests'[j].reply = requests[j].reply /\ requests'[j].told = requests[j].told
        /\ requests'[j].strewn = requests[j].strewn /\ requests'[j].op = requests[j].op
        /\ requests'[j].undoing = requests[j].undoing
    BY <2>1, <2>2 DEF Fields
  <2> QED  BY <2>1, <2>3 DEF IsRequest, Running
<1> QED  BY <1>1 DEF RequestsOK, ServiceStep
LEMMA PageKeeps ==
    ASSUME RequestsOK, PageStep
    PROVE  RequestsOK'
<1>1. CASE requests' = requests
  BY <1>1 DEF RequestsOK
<1>2. CASE RequestsGoOn
  <2>1. ASSUME NEW j \in DOMAIN requests' \ DOMAIN requests PROVE IsRequest(requests'[j])
    BY <1>2, <2>1, ArrivalIs DEF RequestsGoOn
  <2>2. ASSUME NEW j \in DOMAIN requests PROVE IsRequest(requests'[j])
    <3>1. requests[j] = [f \in Fields |-> requests[j][f]] /\ IsRequest(requests[j])
      BY DEF RequestsOK, IsRequest
    <3>2. /\ requests'[j] = [requests[j] EXCEPT !.told = requests'[j].told]
          /\ Running(requests[j]) => requests'[j].told = requests[j].told
      BY <1>2 DEF RequestsGoOn
    <3>3. /\ requests'[j] = [f \in Fields |-> requests'[j][f]]
          /\ requests'[j].reply = requests[j].reply
          /\ requests'[j].strewn = requests[j].strewn /\ requests'[j].op = requests[j].op
          /\ requests'[j].undoing = requests[j].undoing
      BY <3>1, <3>2 DEF Fields
    <3> QED  BY <3>1, <3>2, <3>3 DEF IsRequest, Running
  <2> QED  BY <1>2, <2>1, <2>2 DEF RequestsOK, RequestsGoOn
<1> QED  BY <1>1, <1>2 DEF PageStep
LEMMA NextRequests ==
    ASSUME RequestsOK, [PagesNext]_pagesVars
    PROVE  RequestsOK'
<1>1. CASE PageStep
  BY <1>1, PageKeeps
<1> QED  BY <1>1, PageOrService, ServiceIs, ServiceKeeps DEF ServeContent, Serve
-----------------------------------------------------------------------------
(* The items of a router.                                                  *)

\* Which request made an item, or its place when there was none.
Gen(item) == item.id[2]

\* A sequence of items of router r, no two of them with the same ID.
Own(r, s) ==
    /\ IsSequence(s)
    /\ \A k \in DOMAIN s : s[k] = Item(r, Gen(s[k]), s[k].val) /\ Gen(s[k]) \in Nat
    /\ \A k, l \in DOMAIN s : Gen(s[k]) = Gen(s[l]) => k = l

\* Items with the same history and content, on two routers.
Same(x, y) == Gen(x) = Gen(y) /\ x.val = y.val
Twinned(s, t) == DOMAIN s = DOMAIN t /\ \A k \in DOMAIN s : Same(s[k], t[k])

\* Where the item stood that is at k when the one at a was moved before the
\* one at b.
Origin(a, b, k) ==
    LET at == IF b < a THEN b ELSE b - 1
        j == IF k < at THEN k ELSE k - 1
    IN  IF a = b THEN k ELSE IF k = at THEN a ELSE IF j < a THEN j ELSE j + 1

\* The fields of an item.
LEMMA ItemIs ==
    ASSUME NEW r, NEW g, NEW v
    PROVE  /\ Item(r, g, v).id = <<r, g>> /\ Item(r, g, v).val = v
           /\ Gen(Item(r, g, v)) = g
BY DEF Item, Gen

\* An ID belongs to one place.
LEMMA AtIs ==
    ASSUME NEW r, NEW s, Own(r, s), NEW a \in DOMAIN s, NEW id, id = <<r, Gen(s[a])>>
    PROVE  At(s, id) = {a} /\ ItemAt(s, id) = s[a] /\ s[a].id = id
<1>1. \A k \in DOMAIN s : s[k].id = <<r, Gen(s[k])>>
  BY ItemIs DEF Own
<1>2. \A k \in DOMAIN s : s[k].id = id <=> k = a
  <2> SUFFICES ASSUME NEW k \in DOMAIN s, s[k].id = id PROVE k = a
    BY <1>1
  <2>1. <<r, Gen(s[k])>> = <<r, Gen(s[a])>>
    BY <1>1
  <2>2. Gen(s[k]) = Gen(s[a])
    BY <2>1
  <2> QED  BY <2>2 DEF Own
<1>3. At(s, id) = {a}
  BY <1>2 DEF At
<1>4. (CHOOSE k \in DOMAIN s : s[k].id = id) = a
  BY <1>2
<1> QED  BY <1>1, <1>3, <1>4 DEF ItemAt

\* An item that is removed.
Closed(t, s, a) == t = [k \in 1..(Len(s) - 1) |-> IF k < a THEN s[k] ELSE s[k + 1]]
LEMMA WithoutIs ==
    ASSUME NEW r, NEW s, Own(r, s), NEW a \in DOMAIN s, NEW id, id = <<r, Gen(s[a])>>
    PROVE  /\ Closed(Without(s, id), s, a)
           /\ Own(r, Without(s, id)) /\ Len(Without(s, id)) = Len(s) - 1
           /\ DOMAIN Without(s, id) = 1..(Len(s) - 1)
<1> DEFINE n == Len(s)
           t == [k \in 1..(n - 1) |-> IF k < a THEN s[k] ELSE s[k + 1]]
<1>1. n \in Nat /\ DOMAIN s = 1..n /\ a \in 1..n
  BY SequenceIsFunction DEF Own
<1>2. At(s, id) = {a}
  BY AtIs
<1>3. (CHOOSE k \in At(s, id) : TRUE) = a
  BY <1>2
<1>4. Without(s, id) = t
  <2>1. Without(s, id) = RemoveAt(s, a)
    BY <1>2, <1>3 DEF Without
  <2>2. IsSequence(s) /\ a \in 1..Len(s)
    BY <1>1 DEF Own
  <2> QED  BY <2>1, <2>2, RemoveAtIs
<1> HIDE DEF n
<1>5. n - 1 \in Nat
  BY <1>1
<1>6. IsSequence(t) /\ Len(t) = n - 1 /\ DOMAIN t = 1..(n - 1)
  <2>1. t = [k \in 1..(n - 1) |-> t[k]]
    OBVIOUS
  <2> HIDE DEF t
  <2> QED  BY <1>5, <2>1, FunctionIsSequence
<1> DEFINE o(k) == IF k < a THEN k ELSE k + 1
<1>7. \A k \in 1..(n - 1) : o(k) \in DOMAIN s /\ t[k] = s[o(k)]
  BY <1>1
<1>8. \A k, l \in 1..(n - 1) : o(k) = o(l) => k = l
  BY <1>1
<1> HIDE DEF t, o
<1>9. Own(r, t)
  BY <1>6, <1>7, <1>8 DEF Own
<1>10. t = [k \in 1..(n - 1) |-> IF k < a THEN s[k] ELSE s[k + 1]]
  BY DEF t
<1>11. Closed(Without(s, id), s, a)
  BY <1>4, <1>10 DEF Closed, n
<1> QED  BY <1>4, <1>6, <1>9, <1>11 DEF n

\* The same of a name for the result.
LEMMA WithoutOf ==
    ASSUME NEW r, NEW s, Own(r, s), NEW a \in DOMAIN s, NEW id, id = <<r, Gen(s[a])>>,
           NEW t, t = Without(s, id)
    PROVE  Closed(t, s, a) /\ Own(r, t)
BY WithoutIs

\* The places of the items are permuted by a move.
LEMMA OriginIs ==
    ASSUME NEW n \in Nat, NEW a \in 1..n, NEW b \in 1..n
    PROVE  /\ \A k \in 1..n : Origin(a, b, k) \in 1..n
           /\ \A k, l \in 1..n : Origin(a, b, k) = Origin(a, b, l) => k = l
           /\ \A l \in 1..n : \E k \in 1..n : Origin(a, b, k) = l
<1>1. \A k \in 1..n : Origin(a, b, k) \in 1..n
  BY DEF Origin
<1>2. \A k, l \in 1..n : Origin(a, b, k) = Origin(a, b, l) => k = l
  BY DEF Origin
<1>3. ASSUME NEW l \in 1..n PROVE \E k \in 1..n : Origin(a, b, k) = l
  <2> DEFINE at == IF b < a THEN b ELSE b - 1
             j == IF l < a THEN l ELSE l - 1
             k == IF a = b THEN l ELSE IF l = a THEN at ELSE IF j < at THEN j ELSE j + 1
  <2>1. k \in 1..n
    OBVIOUS
  <2>2. Origin(a, b, k) = l
    BY DEF Origin
  <2> QED  BY <2>1, <2>2
<1> QED  BY <1>1, <1>2, <1>3

\* A sequence that is permuted so is still one.
Permuted(t, s, a, b) ==
    t = [k \in DOMAIN s |-> t[k]] /\ \A k \in DOMAIN s : t[k] = s[Origin(a, b, k)]
LEMMA PermutedIs ==
    ASSUME NEW r, NEW s, Own(r, s), NEW a \in DOMAIN s, NEW b \in DOMAIN s,
           NEW t, Permuted(t, s, a, b)
    PROVE  Own(r, t) /\ DOMAIN t = DOMAIN s /\ Len(t) = Len(s)
<1>1. Len(s) \in Nat /\ DOMAIN s = 1..Len(s)
  BY SequenceIsFunction DEF Own
<1>2. t = [k \in 1..Len(s) |-> t[k]]
  BY <1>1 DEF Permuted
<1>3. IsSequence(t) /\ Len(t) = Len(s) /\ DOMAIN t = DOMAIN s
  BY <1>1, <1>2, FunctionIsSequence
<1>4. \A k \in DOMAIN s : Origin(a, b, k) \in DOMAIN s /\ t[k] = s[Origin(a, b, k)]
  BY <1>1, OriginIs DEF Permuted
<1>5. \A k, l \in DOMAIN s : Origin(a, b, k) = Origin(a, b, l) => k = l
  BY <1>1, OriginIs
<1>6. ASSUME NEW k \in DOMAIN t PROVE t[k] = Item(r, Gen(t[k]), t[k].val) /\ Gen(t[k]) \in Nat
  <2>1. PICK j \in DOMAIN s : t[k] = s[j]
    BY <1>3, <1>4
  <2> QED  BY <2>1 DEF Own
<1>7. ASSUME NEW k \in DOMAIN t, NEW l \in DOMAIN t, Gen(t[k]) = Gen(t[l]) PROVE k = l
  <2>1. Gen(s[Origin(a, b, k)]) = Gen(s[Origin(a, b, l)])
    BY <1>3, <1>4, <1>7
  <2> QED  BY <1>3, <1>4, <1>5, <2>1 DEF Own
<1> QED  BY <1>3, <1>6, <1>7 DEF Own

\* What a move does.
LEMMA MovedIs ==
    ASSUME NEW r, NEW s, Own(r, s), NEW a \in DOMAIN s, NEW b \in DOMAIN s,
           NEW id, id = <<r, Gen(s[a])>>, NEW dest, dest = <<r, Gen(s[b])>>
    PROVE  Moved(s, id, dest) = [k \in DOMAIN s |-> s[Origin(a, b, k)]]
<1> DEFINE n == Len(s)
           rest == Without(s, id)
           at == IF b < a THEN b ELSE b - 1
<1>1. n \in Nat /\ DOMAIN s = 1..n /\ a \in 1..n /\ b \in 1..n /\ s = [k \in 1..n |-> s[k]]
  BY SequenceIsFunction DEF Own
<1>2. id = dest <=> a = b
  <2>1. id = dest => Gen(s[a]) = Gen(s[b])
    OBVIOUS
  <2> QED  BY <2>1 DEF Own
<1>3. CASE a = b
  <2>1. Moved(s, id, dest) = s
    BY <1>2, <1>3 DEF Moved
  <2>2. \A k \in DOMAIN s : Origin(a, b, k) = k
    BY <1>3 DEF Origin
  <2> QED  BY <1>1, <2>1, <2>2
<1>4. CASE a # b
  <2>1. /\ rest = [k \in 1..(n - 1) |-> IF k < a THEN s[k] ELSE s[k + 1]]
        /\ Own(r, rest) /\ Len(rest) = n - 1 /\ DOMAIN rest = 1..(n - 1)
    BY WithoutIs DEF Closed
  <2>2. ItemAt(s, id) = s[a]
    BY AtIs
  <2> HIDE DEF rest, n
  <2>3. at \in 1..(n - 1)
    BY <1>1, <1>4
  <2>4. rest[at] = s[b]
    <3>1. CASE b < a
      BY <1>1, <2>1, <2>3, <3>1
    <3>2. CASE ~(b < a)
      <4>1. at = b - 1 /\ ~(at < a) /\ at + 1 = b
        BY <1>1, <1>4, <3>2
      <4> QED  BY <2>1, <2>3, <4>1
    <3> QED  BY <3>1, <3>2
  <2>5. (CHOOSE k \in DOMAIN rest : rest[k].id = dest) = at
    <3>1. rest[at].id = dest /\ at \in DOMAIN rest
      BY <2>1, <2>3, <2>4, AtIs
    <3>2. ASSUME NEW k \in DOMAIN rest, rest[k].id = dest PROVE k = at
      <4>1. rest[k].id = <<r, Gen(rest[k])>>
        BY <2>1, ItemIs DEF Own
      <4>2. dest = <<r, Gen(rest[at])>>
        BY <2>4
      <4>3. <<r, Gen(rest[k])>> = <<r, Gen(rest[at])>>
        BY <3>2, <4>1, <4>2
      <4>4. Gen(rest[k]) = Gen(rest[at])
        BY <4>3
      <4> QED  BY <2>1, <3>1, <4>4 DEF Own
    <3> QED  BY <3>1, <3>2
  <2>6. Moved(s, id, dest) = InsertAt(rest, at, s[a])
    BY <1>2, <1>4, <2>2, <2>5 DEF Moved, rest
  <2>7. InsertAt(rest, at, s[a]) =
          [k \in 1..n |-> IF k < at THEN rest[k] ELSE IF k = at THEN s[a] ELSE rest[k - 1]]
    <3>1. (n - 1) + 1 = n /\ at \in 1..((n - 1) + 1)
      BY <1>1, <2>3
    <3>2. IsSequence(rest) /\ Len(rest) + 1 = n
      BY <1>1, <2>1 DEF Own
    <3>3. at \in 1..(Len(rest) + 1)
      BY <3>1, <3>2
    <3> HIDE DEF at
    <3>4. InsertAt(rest, at, s[a]) =
            [k \in 1..(Len(rest) + 1) |-> IF k < at THEN rest[k]
                                           ELSE IF k = at THEN s[a] ELSE rest[k - 1]]
      BY <3>2, <3>3, InsertAtIs
    <3> QED  BY <3>2, <3>4
  <2>8. ASSUME NEW k \in 1..n
        PROVE  (IF k < at THEN rest[k] ELSE IF k = at THEN s[a] ELSE rest[k - 1])
                 = s[Origin(a, b, k)]
    <3>1. CASE k < at
      <4>1. k \in 1..(n - 1)
        BY <1>1, <2>3, <3>1
      <4>2. Origin(a, b, k) = IF k < a THEN k ELSE k + 1
        BY <1>1, <1>4, <3>1 DEF Origin
      <4> HIDE DEF at
      <4> QED  BY <2>1, <3>1, <4>1, <4>2
    <3>2. CASE k = at
      <4>1. Origin(a, b, k) = a /\ ~(k < at)
        BY <1>1, <1>4, <3>2 DEF Origin
      <4> HIDE DEF at
      <4> QED  BY <3>2, <4>1
    <3>3. CASE k > at
      <4>1. k - 1 \in 1..(n - 1) /\ ~(k < at) /\ k # at
        BY <1>1, <2>3, <3>3
      <4>2. Origin(a, b, k) = IF k - 1 < a THEN k - 1 ELSE k
        BY <1>1, <1>4, <3>3 DEF Origin
      <4>3. (k - 1) + 1 = k
        OBVIOUS
      <4> HIDE DEF at
      <4> QED  BY <2>1, <4>1, <4>2, <4>3
    <3>4. k < at \/ k = at \/ k > at
      BY <1>1, <2>3
    <3> QED  BY <3>1, <3>2, <3>3, <3>4
  <2> HIDE DEF at
  <2> QED  BY <1>1, <2>6, <2>7, <2>8
<1> QED  BY <1>3, <1>4

\* An ID that is there has a place.
LEMMA PlaceOf ==
    ASSUME NEW r, NEW s, Own(r, s), NEW id, At(s, id) # {}
    PROVE  \E a \in DOMAIN s : id = <<r, Gen(s[a])>>
<1>1. PICK a \in DOMAIN s : s[a].id = id
  BY DEF At
<1>2. s[a].id = <<r, Gen(s[a])>>
  BY ItemIs DEF Own
<1> QED  BY <1>1, <1>2

\* A new item comes last.
LEMMA AppendedIs ==
    ASSUME NEW r, NEW s, Own(r, s), NEW g \in Nat, NEW v, \A k \in DOMAIN s : Gen(s[k]) # g
    PROVE  /\ Own(r, Append(s, Item(r, g, v)))
           /\ DOMAIN Append(s, Item(r, g, v)) = 1..(Len(s) + 1)
           /\ \A k \in DOMAIN s : Append(s, Item(r, g, v))[k] = s[k]
           /\ Append(s, Item(r, g, v))[Len(s) + 1] = Item(r, g, v)
           /\ DOMAIN s = 1..Len(s) /\ Len(s) \in Nat
<1> DEFINE x == Item(r, g, v)
           t == Append(s, x)
<1>1. Len(s) \in Nat /\ DOMAIN s = 1..Len(s) /\ IsSequence(s)
  BY SequenceIsFunction DEF Own
<1>2. x = Item(r, Gen(x), x.val) /\ Gen(x) = g
  BY ItemIs
<1> HIDE DEF x
<1>3. /\ IsSequence(t) /\ DOMAIN t = 1..(Len(s) + 1)
      /\ \A k \in 1..Len(s) : t[k] = s[k]
      /\ t[Len(s) + 1] = x
  BY <1>1, AppendIs
<1> HIDE DEF t
<1>4. \A k \in DOMAIN t : \/ t[k] = x /\ k = Len(s) + 1
                          \/ t[k] = s[k] /\ k \in DOMAIN s
  BY <1>1, <1>3
<1>5. Own(r, t)
  <2>1. ASSUME NEW k \in DOMAIN t
        PROVE  t[k] = Item(r, Gen(t[k]), t[k].val) /\ Gen(t[k]) \in Nat
    BY <1>2, <1>4 DEF Own
  <2>2. ASSUME NEW k \in DOMAIN t, NEW l \in DOMAIN t, Gen(t[k]) = Gen(t[l]) PROVE k = l
    BY <1>2, <1>4, <2>2 DEF Own
  <2> QED  BY <1>3, <2>1, <2>2 DEF Own
<1> QED  BY <1>1, <1>3, <1>5 DEF t, x

\* An item that is patched keeps its ID.
Update(s, id, patch) ==
    [k \in DOMAIN s |-> IF s[k].id = id THEN [s[k] EXCEPT !.val = Patched(@, patch)] ELSE s[k]]
LEMMA UpdatedIs ==
    ASSUME NEW r, NEW s, Own(r, s), NEW a \in DOMAIN s, NEW id, id = <<r, Gen(s[a])>>,
           NEW patch, NEW t, t = Update(s, id, patch)
    PROVE  /\ Own(r, t) /\ DOMAIN t = DOMAIN s
           /\ \A k \in DOMAIN s : Gen(t[k]) = Gen(s[k])
           /\ \A k \in DOMAIN s : t[k].val = IF k = a THEN Patched(s[a].val, patch) ELSE s[k].val
<1>1. Len(s) \in Nat /\ DOMAIN s = 1..Len(s)
  BY SequenceIsFunction DEF Own
<1>2. IsSequence(t) /\ DOMAIN t = DOMAIN s
  <2>1. t = [k \in 1..Len(s) |-> t[k]]
    BY <1>1 DEF Update
  <2> QED  BY <1>1, <2>1, FunctionIsSequence
<1>3. ASSUME NEW k \in DOMAIN s
      PROVE  /\ t[k] = Item(r, Gen(s[k]), t[k].val)
             /\ t[k].val = IF k = a THEN Patched(s[a].val, patch) ELSE s[k].val
  <2>1. s[k] = [id |-> <<r, Gen(s[k])>>, val |-> s[k].val]
    BY DEF Own, Item
  <2>2. s[k].id = id <=> k = a
    <3>1. At(s, id) = {a}
      BY AtIs
    <3> QED  BY <3>1 DEF At
  <2>3. CASE k = a
    <3>1. t[k] = [s[k] EXCEPT !.val = Patched(@, patch)]
      BY <2>2, <2>3 DEF Update
    <3> QED  BY <2>1, <2>3, <3>1 DEF Item
  <2>4. CASE k # a
    <3>1. t[k] = s[k]
      BY <2>2, <2>4 DEF Update
    <3> QED  BY <2>1, <2>4, <3>1 DEF Item
  <2> QED  BY <2>3, <2>4
<1>4. \A k \in DOMAIN s : Gen(t[k]) = Gen(s[k])
  BY <1>3, ItemIs
<1>5. Own(r, t)
  BY <1>2, <1>3, <1>4 DEF Own
<1> QED  BY <1>2, <1>3, <1>4, <1>5

\* The length of a sequence.
LEMMA SameEnd ==
    ASSUME NEW m \in Nat, NEW n \in Nat, 1..m = 1..n
    PROVE  m = n
<1>1. ASSUME NEW i \in Nat, NEW j \in Nat, 1..i = 1..j PROVE i <= j
  <2>1. CASE i = 0
    BY <2>1
  <2>2. CASE i # 0
    <3>1. i \in 1..i
      BY <2>2
    <3> QED  BY <1>1, <3>1
  <2> QED  BY <2>1, <2>2
<1>2. m <= n /\ n <= m
  BY <1>1
<1> QED  BY <1>2

\* Routers that are alike are alike after the same change.
LEMMA AppendTwinned ==
    ASSUME NEW r, NEW s, Own(r, s), NEW p, NEW t, Own(p, t), Twinned(s, t), NEW g \in Nat, NEW v,
           \A k \in DOMAIN s : Gen(s[k]) # g, \A k \in DOMAIN t : Gen(t[k]) # g
    PROVE  Twinned(Append(s, Item(r, g, v)), Append(t, Item(p, g, v)))
<1> DEFINE x == Item(r, g, v)
           y == Item(p, g, v)
<1>1. Same(x, y)
  BY ItemIs DEF Same
<1>2. /\ DOMAIN Append(s, x) = 1..(Len(s) + 1) /\ \A k \in DOMAIN s : Append(s, x)[k] = s[k]
      /\ Append(s, x)[Len(s) + 1] = x /\ DOMAIN s = 1..Len(s) /\ Len(s) \in Nat
  BY AppendedIs
<1>3. /\ DOMAIN Append(t, y) = 1..(Len(t) + 1) /\ \A k \in DOMAIN t : Append(t, y)[k] = t[k]
      /\ Append(t, y)[Len(t) + 1] = y /\ DOMAIN t = 1..Len(t) /\ Len(t) \in Nat
  BY AppendedIs
<1> HIDE DEF x, y
<1>4. Len(s) = Len(t)
  BY <1>2, <1>3, SameEnd DEF Twinned
<1>5. \A k \in 1..(Len(s) + 1) : k \in DOMAIN s \/ k = Len(s) + 1
  BY <1>2
<1> QED  BY <1>1, <1>2, <1>3, <1>4, <1>5 DEF Twinned, x, y
LEMMA WithoutTwinned ==
    ASSUME NEW r, NEW s, Own(r, s), NEW p, NEW t, Own(p, t), Twinned(s, t), NEW a \in DOMAIN s
    PROVE  Twinned(Without(s, <<r, Gen(s[a])>>), Without(t, <<p, Gen(t[a])>>))
<1> DEFINE u == Without(s, <<r, Gen(s[a])>>)
           v == Without(t, <<p, Gen(t[a])>>)
           n == Len(s)
<1>1. n \in Nat /\ DOMAIN s = 1..n /\ Len(t) = n /\ DOMAIN t = 1..n /\ a \in 1..n
  <2>1. n \in Nat /\ DOMAIN s = 1..n /\ Len(t) \in Nat /\ DOMAIN t = 1..Len(t)
    BY SequenceIsFunction DEF Own
  <2> QED  BY <2>1, SameEnd DEF Twinned
<1>2. u = [k \in 1..(n - 1) |-> IF k < a THEN s[k] ELSE s[k + 1]]
  BY WithoutIs DEF Closed
<1>3. /\ DOMAIN v = 1..(n - 1)
      /\ \A k \in 1..(n - 1) : v[k] = IF k < a THEN t[k] ELSE t[k + 1]
  <2>1. a \in DOMAIN t
    BY <1>1
  <2>2. Closed(v, t, a)
    BY <2>1, WithoutOf
  <2>3. 1..(Len(t) - 1) = 1..(n - 1)
    BY <1>1
  <2> HIDE DEF v, n
  <2> QED  BY <2>2, <2>3 DEF Closed
<1> HIDE DEF u, v, n
<1>4. \A k \in 1..(n - 1) : Same(u[k], v[k])
  BY <1>1, <1>2, <1>3 DEF Twinned
<1> QED  BY <1>2, <1>3, <1>4 DEF Twinned, u, v
LEMMA UpdateTwinned ==
    ASSUME NEW r, NEW s, Own(r, s), NEW p, NEW t, Own(p, t), Twinned(s, t), NEW a \in DOMAIN s,
           NEW patch
    PROVE  Twinned(Update(s, <<r, Gen(s[a])>>, patch), Update(t, <<p, Gen(t[a])>>, patch))
<1> DEFINE u == Update(s, <<r, Gen(s[a])>>, patch)
           v == Update(t, <<p, Gen(t[a])>>, patch)
<1>0. a \in DOMAIN t
  BY DEF Twinned
<1>1. /\ DOMAIN u = DOMAIN s
      /\ \A k \in DOMAIN s : Gen(u[k]) = Gen(s[k])
      /\ \A k \in DOMAIN s : u[k].val = IF k = a THEN Patched(s[a].val, patch) ELSE s[k].val
  BY UpdatedIs
<1>2. /\ DOMAIN v = DOMAIN t
      /\ \A k \in DOMAIN t : Gen(v[k]) = Gen(t[k])
      /\ \A k \in DOMAIN t : v[k].val = IF k = a THEN Patched(t[a].val, patch) ELSE t[k].val
  BY <1>0, UpdatedIs
<1> HIDE DEF u, v
<1> QED  BY <1>0, <1>1, <1>2 DEF Twinned, Same, u, v
-----------------------------------------------------------------------------
(* The groups of operations.                                               *)

\* How far a request is.
Width(q) == IF q.op = "move" THEN 2 ELSE 1
LookedUp(q) ==
    /\ Master \notin q.todo /\ q.todo \subseteq Routers
    /\ q.refs = [k \in 1..Width(q) |-> q.refs[k]]
    /\ \A k \in 1..Width(q) : q.names[k] = <<Master, q.names[k][2]>> /\ q.names[k][2] \in Nat
Twins(q, r) == [k \in 1..Width(q) |-> <<r, q.names[k][2]>>]
ProgressOK(q) ==
    Running(q) =>
      /\ q.op \in {"create", "update", "delete", "move"}
      /\ q.target = [r \in Routers |-> q.target[r]]
      /\ q.before = [r \in Routers |-> q.before[r]]
      /\ q.op = "create" => q.todo = {} /\ q.refs = <<>> /\ \A r \in Routers : q.target[r] = <<>>
      /\ q.op # "create" =>
           /\ q.names = [k \in 1..Width(q) |-> q.names[k]]
           /\ q.refs = <<>> => /\ q.todo = Routers /\ ~q.strewn
                               /\ \A r \in Routers : q.target[r] = Nothing
           /\ q.refs # <<>> => LookedUp(q) /\ (q.op # "move" => q.target[Master] = Twins(q, Master))
      /\ q.done # {} => /\ Master \in q.done /\ q.done \subseteq Touched(q)
                        /\ q.todo = {} /\ q.op # "move"
      /\ q.undoing => q.done # {}

\* No item is there twice, and the ones that a request made are there when
\* its operation is in force, or was not taken back.
Made(q, r) ==
    \/ q.op = "create" /\ (r \in q.done \/ q.undoing)
    \/ q.op = "delete" /\ q.undoing /\ r \notin q.done
Given(qs, r, g) == g > MaxRequests \/ (g \in DOMAIN qs /\ (Running(qs[g]) => Made(qs[g], r)))
IdsOK(c, qs) ==
    /\ c = [r \in Routers |-> c[r]]
    /\ \A r \in Routers : Own(r, c[r]) /\ \A k \in DOMAIN c[r] : Given(qs, r, Gen(c[r][k]))

\* The mutex of the master lets one group at a time be in force.
OneGroup(qs) == \A i, j \in DOMAIN qs : InForce(qs[i]) /\ InForce(qs[j]) => i = j

GroupsOK ==
    /\ IdsOK(conf, requests)
    /\ \A i \in DOMAIN requests : ProgressOK(requests[i])
    /\ OneGroup(requests)

\* The twins are items.
LEMMA TwinsAreSomething ==
    ASSUME NEW q, LookedUp(q), NEW r \in Routers
    PROVE  Twins(q, r) # Nothing
<1> DEFINE S == Routers \X Nat
           w == Width(q)
<1>1. w \in Nat
  BY DEF Width
<1>2. \A k \in 1..w : <<r, q.names[k][2]>> \in S
  BY DEF LookedUp
<1> HIDE DEF S, w
<1>3. [k \in 1..w |-> <<r, q.names[k][2]>>] \in Seq(S)
  BY <1>1, <1>2
<1> QED  BY <1>3, NothingAssumption DEF Twins, S, w

\* A request that is ready has its operation on the master.
LEMMA MasterTouched ==
    ASSUME NEW q, ProgressOK(q), Running(q), q.todo = {}, q.op # "move"
    PROVE  /\ Master \in Touched(q) /\ q.op \in {"create", "update", "delete"}
           /\ q.op # "create" => q.refs # <<>> /\ LookedUp(q) /\ IdOn(q, Master) = <<Master, q.names[1][2]>>
<1>1. CASE q.op = "create"
  <2>1. q.target[Master] = <<>>
    BY <1>1, MasterAssumption DEF ProgressOK
  <2>2. <<>> # Nothing
    <3> DEFINE S == Routers \X Nat
    <3> HIDE DEF S
    <3>1. <<>> \in Seq(S)
      OBVIOUS
    <3> QED  BY <3>1, NothingAssumption DEF S
  <2> QED  BY <1>1, <2>1, <2>2, MasterAssumption DEF Touched
<1>2. CASE q.op # "create"
  <2>1. q.refs # <<>> /\ LookedUp(q) /\ q.op \in {"update", "delete"}
    BY <1>2, MasterAssumption DEF ProgressOK
  <2>2. q.target[Master] = Twins(q, Master)
    BY <1>2, <2>1 DEF ProgressOK
  <2>3. Twins(q, Master)[1] = <<Master, q.names[1][2]>>
    BY <2>1 DEF Twins, Width
  <2>4. Twins(q, Master) # Nothing
    BY <2>1, MasterAssumption, TwinsAreSomething
  <2> QED  BY <1>2, <2>1, <2>2, <2>3, <2>4, MasterAssumption DEF Touched, IdOn
<1> QED  BY <1>1, <1>2

\* When a group may take its next step, no other group is in force.
LEMMA NoOther ==
    ASSUME GroupsOK, NEW i \in DOMAIN requests, Free(i), Ready(requests[i]),
           NEW j \in DOMAIN requests \ {i}
    PROVE  ~InForce(requests[j])
<1> SUFFICES ASSUME InForce(requests[j]) PROVE FALSE
  OBVIOUS
<1>1. Master \in Touched(requests[i])
  BY MasterTouched DEF GroupsOK, Ready
<1>2. Master \in Touched(requests[j])
  BY DEF GroupsOK, ProgressOK, InForce
<1> QED  BY <1>1, <1>2 DEF Free

\* What a page and a step of another request leave of a request.
Keeps(p, q) ==
    /\ p.op = q.op /\ p.names = q.names /\ p.refs = q.refs /\ p.todo = q.todo
    /\ p.target = q.target /\ p.reply = q.reply /\ p.loose = q.loose /\ p.strewn = q.strewn
    /\ p.done = q.done /\ p.undoing = q.undoing /\ p.before = q.before /\ p.left = q.left
    /\ p.val = q.val /\ p.patch = q.patch /\ p.blurred = q.blurred
    /\ q.torn => p.torn
LEMMA KeepsIs ==
    ASSUME NEW q, q = [f \in Fields |-> q[f]], NEW p
    PROVE  /\ p = [q EXCEPT !.told = p.told] => Keeps(p, q)
           /\ p = [q EXCEPT !.torn = p.torn] /\ (q.torn => p.torn) => Keeps(p, q)
<1>1. ASSUME p = [q EXCEPT !.told = p.told] PROVE Keeps(p, q)
  BY <1>1 DEF Keeps, Fields
<1>2. ASSUME p = [q EXCEPT !.torn = p.torn], q.torn => p.torn PROVE Keeps(p, q)
  BY <1>2 DEF Keeps, Fields
<1> QED  BY <1>1, <1>2

\* What is known of a request stays known of it.
LEMMA KeptIs ==
    ASSUME NEW q, NEW p, Keeps(p, q)
    PROVE  /\ Running(p) <=> Running(q)
           /\ InForce(p) <=> InForce(q)
           /\ \A r : Made(p, r) <=> Made(q, r)
           /\ ProgressOK(q) => ProgressOK(p)
           /\ \A c : Amid(q, c) => Amid(p, c)
           /\ \A r : Twins(p, r) = Twins(q, r)
           /\ Width(p) = Width(q) /\ Touched(p) = Touched(q)
<1>1. (Running(p) <=> Running(q)) /\ (InForce(p) <=> InForce(q))
  BY DEF Keeps, Running, InForce
<1>2. Width(p) = Width(q) /\ Touched(p) = Touched(q)
  BY DEF Keeps, Width, Touched
<1>3. LookedUp(q) => LookedUp(p)
  BY <1>2 DEF Keeps, LookedUp
<1>4. \A r : Twins(p, r) = Twins(q, r)
  BY <1>2 DEF Keeps, Twins
<1>5. ProgressOK(q) => ProgressOK(p)
  BY <1>1, <1>2, <1>3, <1>4 DEF Keeps, ProgressOK
<1>6. \A c : Amid(q, c) => Amid(p, c)
  BY <1>1 DEF Keeps, Amid
<1>7. \A r : Made(p, r) <=> Made(q, r)
  BY DEF Keeps, Made
<1> QED  BY <1>1, <1>2, <1>4, <1>5, <1>6, <1>7

\* At first.
LEMMA InitGroups ==
    PagesInit => /\ GroupsOK /\ requests = <<>> /\ DOMAIN requests = {}
                 /\ \A r, s \in Routers : Twinned(conf[r], conf[s])
<1> SUFFICES ASSUME PagesInit
             PROVE  /\ GroupsOK /\ requests = <<>> /\ DOMAIN requests = {}
                    /\ \A r, s \in Routers : Twinned(conf[r], conf[s])
  OBVIOUS
<1>1. PICK n \in Nat : \E vals : DOMAIN vals = 1..n /\ InitContent(vals)
  BY DEF PagesInit
<1>2. PICK vals : DOMAIN vals = 1..n /\ InitContent(vals)
  BY <1>1
<1>3. requests = <<>> /\ DOMAIN requests = {}
  BY <1>2 DEF InitContent
<1> DEFINE items(r) == [k \in 1..n |-> Item(r, MaxRequests + k, vals[k])]
<1>4. conf = [r \in Routers |-> items(r)]
  BY <1>2 DEF InitContent, Deployed
<1>5. ASSUME NEW r \in Routers
      PROVE  /\ IsSequence(items(r)) /\ DOMAIN items(r) = 1..n
             /\ \A k \in 1..n : /\ items(r)[k] = Item(r, MaxRequests + k, vals[k])
                                /\ Gen(items(r)[k]) = MaxRequests + k /\ items(r)[k].val = vals[k]
  <2> DEFINE s == items(r)
  <2>1. \A k \in 1..n : s[k] = Item(r, MaxRequests + k, vals[k])
    OBVIOUS
  <2>2. s = [k \in 1..n |-> s[k]]
    OBVIOUS
  <2> HIDE DEF s
  <2>3. IsSequence(s) /\ DOMAIN s = 1..n
    BY <2>2, FunctionIsSequence
  <2>4. \A k \in 1..n : Gen(s[k]) = MaxRequests + k /\ s[k].val = vals[k]
    BY <2>1, ItemIs
  <2> QED  BY <2>1, <2>3, <2>4 DEF s
<1>6. \A k, l \in 1..n : /\ MaxRequests + k \in Nat /\ MaxRequests + k > MaxRequests
                         /\ MaxRequests + k = MaxRequests + l => k = l
  BY MasterAssumption
<1> HIDE DEF items
<1>7. ASSUME NEW r \in Routers
      PROVE  Own(r, conf[r]) /\ \A k \in DOMAIN conf[r] : Given(requests, r, Gen(conf[r][k]))
  <2>1. conf[r] = items(r)
    BY <1>4
  <2> QED  BY <1>5, <1>6, <2>1 DEF Own, Given
<1>8. IdsOK(conf, requests)
  BY <1>4, <1>7 DEF IdsOK
<1>9. \A r, s \in Routers : Twinned(conf[r], conf[s])
  BY <1>4, <1>5 DEF Twinned, Same
<1> QED  BY <1>3, <1>8, <1>9 DEF GroupsOK, OneGroup

\* A request that has just arrived.
LEMMA ArrivalProgress ==
    ASSUME NEW q, Arrival(q)
    PROVE  ProgressOK(q) /\ (Running(q) => q.refs = <<>>) /\ q.done = {} /\ ~InForce(q)
<1>1. PICK op \in {"create", "update", "delete", "move", "refused"} :
         \E names, val, patch, by :
            /\ q = Request(op, names, val, patch, by)
            /\ op \in {"create", "refused"} => names = <<>>
            /\ op \in {"update", "delete"} => \E x : names = <<x>>
            /\ op = "move" => \E x, y : names = <<x, y>>
  BY DEF Arrival
<1>2. PICK names, val, patch, by :
            /\ q = Request(op, names, val, patch, by)
            /\ op \in {"create", "refused"} => names = <<>>
            /\ op \in {"update", "delete"} => \E x : names = <<x>>
            /\ op = "move" => \E x, y : names = <<x, y>>
  BY <1>1
<1>3. /\ q.op = op /\ q.names = names /\ q.refs = <<>> /\ ~q.strewn
      /\ q.todo = (IF op = "create" THEN {} ELSE Routers)
      /\ q.target = [r \in Routers |-> IF op = "create" THEN names ELSE Nothing]
      /\ q.reply = IF op = "refused" THEN "error" ELSE "none"
      /\ q.done = {} /\ ~q.undoing /\ q.before = [r \in Routers |-> Nothing]
  BY <1>2 DEF Request
<1>4. op \in {"update", "delete"} => names = [k \in 1..1 |-> names[k]]
  BY <1>2
<1>5. op = "move" => names = [k \in 1..2 |-> names[k]]
  BY <1>2
<1>7. ProgressOK(q)
  <2> SUFFICES ASSUME Running(q) PROVE ProgressOK(q)
    BY DEF ProgressOK
  <2>0. q.before = [r \in Routers |-> q.before[r]]
    BY <1>3
  <2>1. op # "refused"
    BY <1>3 DEF Running
  <2>2. CASE op = "create"
    BY <1>2, <1>3, <2>0, <2>2 DEF ProgressOK
  <2>3. CASE op \in {"update", "delete"}
    BY <1>3, <1>4, <2>0, <2>3 DEF ProgressOK, Width
  <2>4. CASE op = "move"
    BY <1>3, <1>5, <2>0, <2>4 DEF ProgressOK, Width
  <2> QED  BY <2>1, <2>2, <2>3, <2>4
<1> QED  BY <1>3, <1>7 DEF InForce

\* What a step of a page leaves of the requests.
LEMMA PageKeepsAll ==
    ASSUME RequestsOK, PageStep
    PROVE  /\ DOMAIN requests \subseteq DOMAIN requests'
           /\ \A i \in DOMAIN requests : Keeps(requests'[i], requests[i]) /\ requests'[i].torn = requests[i].torn
           /\ \A i \in DOMAIN requests' \ DOMAIN requests : Arrival(requests'[i])
<1>1. CASE requests' = requests
  BY <1>1 DEF Keeps
<1>2. CASE RequestsGoOn
  <2>1. /\ DOMAIN requests \subseteq DOMAIN requests'
        /\ \A i \in DOMAIN requests' \ DOMAIN requests : Arrival(requests'[i])
    <3>1. /\ DOMAIN requests = 1..Len(requests) /\ DOMAIN requests' = 1..Len(requests')
          /\ Len(requests) \in Nat /\ Len(requests') \in Nat
      BY <1>2, SequenceIsFunction DEF RequestsOK, RequestsGoOn
    <3> QED  BY <1>2, <3>1 DEF RequestsGoOn
  <2>2. ASSUME NEW i \in DOMAIN requests
        PROVE  Keeps(requests'[i], requests[i]) /\ requests'[i].torn = requests[i].torn
    <3>1. requests[i] = [f \in Fields |-> requests[i][f]]
      BY DEF RequestsOK, IsRequest
    <3>2. requests'[i] = [requests[i] EXCEPT !.told = requests'[i].told]
      BY <1>2 DEF RequestsGoOn
    <3>3. requests'[i].torn = requests[i].torn
      BY <3>1, <3>2 DEF Fields
    <3> QED  BY <3>1, <3>2, <3>3, KeepsIs
  <2> QED  BY <2>1, <2>2
<1> QED  BY <1>1, <1>2 DEF PageStep
LEMMA PageGroups ==
    ASSUME RequestsOK, GroupsOK, PageStep
    PROVE  GroupsOK'
<1>1. /\ DOMAIN requests \subseteq DOMAIN requests'
      /\ \A i \in DOMAIN requests : Keeps(requests'[i], requests[i])
      /\ \A i \in DOMAIN requests' \ DOMAIN requests : Arrival(requests'[i])
      /\ conf' = conf
  BY PageKeepsAll DEF PageStep
<1>2. \A r, g : Given(requests, r, g) => Given(requests', r, g)
  BY <1>1, KeptIs DEF Given
<1>3. IdsOK(conf', requests')
  BY <1>1, <1>2 DEF GroupsOK, IdsOK
<1>4. \A i \in DOMAIN requests' : ProgressOK(requests'[i])
  BY <1>1, KeptIs, ArrivalProgress DEF GroupsOK
<1>5. \A i \in DOMAIN requests' : InForce(requests'[i]) => i \in DOMAIN requests /\ InForce(requests[i])
  BY <1>1, KeptIs, ArrivalProgress
<1> QED  BY <1>3, <1>4, <1>5 DEF GroupsOK, OneGroup

\* The requests that are not served.
LEMMA OthersKeep ==
    ASSUME RequestsOK, NEW i \in DOMAIN requests, ServiceStep(i)
    PROVE  /\ \A j \in DOMAIN requests \ {i} : Keeps(requests'[j], requests[j])
           /\ \A j \in DOMAIN requests \ {i} : Running(requests'[j]) <=> Running(requests[j])
           /\ Running(requests[i])
           /\ DOMAIN requests' = DOMAIN requests
<1>1. Running(requests[i]) /\ DOMAIN requests' = DOMAIN requests
  BY DEF ServiceStep, Served
<1>2. ASSUME NEW j \in DOMAIN requests \ {i}
      PROVE  Keeps(requests'[j], requests[j]) /\ (Running(requests'[j]) <=> Running(requests[j]))
  <2>1. requests[j] = [f \in Fields |-> requests[j][f]]
    BY DEF RequestsOK, IsRequest
  <2>2. /\ requests'[j] = [requests[j] EXCEPT !.torn = requests'[j].torn]
        /\ requests[j].torn => requests'[j].torn
    BY DEF ServiceStep, Bystander
  <2>3. Keeps(requests'[j], requests[j])
    BY <2>1, <2>2, KeepsIs
  <2> QED  BY <2>3, KeptIs
<1> QED  BY <1>1, <1>2

\* A request that runs and has not made its item yet.
LEMMA NoneYet ==
    ASSUME RequestsOK, IdsOK(conf, requests), NEW i \in DOMAIN requests, Running(requests[i]),
           NEW r \in Routers, ~Made(requests[i], r)
    PROVE  i \in Nat /\ \A k \in DOMAIN conf[r] : Gen(conf[r][k]) # i
<1>1. i \in Nat /\ i <= MaxRequests
  <2>1. DOMAIN requests = 1..Len(requests) /\ Len(requests) \in Nat /\ Len(requests) <= MaxRequests
    BY SequenceIsFunction DEF RequestsOK
  <2> QED  BY <2>1, MasterAssumption
<1>2. ~Given(requests, r, i)
  BY <1>1, MasterAssumption DEF Given
<1> QED  BY <1>1, <1>2 DEF IdsOK

\* A request that is answered has made its progress.
LEMMA AnsweredProgress ==
    ASSUME NEW q, q.reply # "none"
    PROVE  ProgressOK(q) /\ ~InForce(q)
BY DEF ProgressOK, InForce, Running

\* The items of t are those of s and the one of request g.
Stems(t, s, g) ==
    \A k \in DOMAIN t : Gen(t[k]) = g \/ \E l \in DOMAIN s : Gen(t[k]) = Gen(s[l])

\* A step of the service.
LEMMA ServedGroups ==
    ASSUME RequestsOK, GroupsOK, NEW i \in DOMAIN requests, ServiceStep(i),
           ProgressOK(requests'[i]),
           conf' = [r \in Routers |-> conf'[r]],
           \A r \in Routers :
              /\ Own(r, conf'[r])
              /\ Stems(conf'[r], conf[r], i)
              /\ Made(requests[i], r) => requests'[i].reply # "none" \/ Made(requests'[i], r)
              /\ \/ \A k \in DOMAIN conf'[r] : Gen(conf'[r][k]) = i => Made(requests[i], r)
                 \/ requests'[i].reply # "none" \/ Made(requests'[i], r),
           InForce(requests'[i]) => InForce(requests[i]) \/ (Free(i) /\ Ready(requests[i]))
    PROVE  GroupsOK'
<1>1. /\ \A j \in DOMAIN requests \ {i} : Keeps(requests'[j], requests[j])
      /\ DOMAIN requests' = DOMAIN requests
  BY OthersKeep
<1>2. ASSUME NEW r \in Routers, NEW g, g # i, Given(requests, r, g) PROVE Given(requests', r, g)
  BY <1>1, <1>2, KeptIs DEF Given
<1>3. ASSUME NEW r \in Routers, NEW k \in DOMAIN conf'[r]
      PROVE  Given(requests', r, Gen(conf'[r][k]))
  <2>1. CASE Gen(conf'[r][k]) # i
    BY <1>2, <2>1 DEF Stems, GroupsOK, IdsOK
  <2>2. CASE Gen(conf'[r][k]) = i
    <3>1. requests'[i].reply # "none" \/ Made(requests'[i], r)
      BY <2>2
    <3> QED  BY <1>1, <2>2, <3>1 DEF Given, Running
  <2> QED  BY <2>1, <2>2
<1>4. IdsOK(conf', requests')
  BY <1>3 DEF IdsOK
<1>5. \A j \in DOMAIN requests' : ProgressOK(requests'[j])
  BY <1>1, KeptIs DEF GroupsOK
<1>6. OneGroup(requests')
  <2> SUFFICES ASSUME NEW j \in DOMAIN requests', NEW k \in DOMAIN requests',
                      InForce(requests'[j]), InForce(requests'[k]), j # k
               PROVE  FALSE
    BY DEF OneGroup
  <2>1. \A l \in DOMAIN requests \ {i} : InForce(requests'[l]) => InForce(requests[l])
    BY <1>1, KeptIs
  <2>2. OneGroup(requests)
    BY DEF GroupsOK
  <2>3. CASE j # i /\ k # i
    BY <1>1, <2>1, <2>2, <2>3 DEF OneGroup
  <2>4. ASSUME NEW l \in DOMAIN requests \ {i}, InForce(requests'[l]), InForce(requests'[i])
        PROVE  FALSE
    <3>1. InForce(requests[l])
      BY <2>1, <2>4
    <3>2. ~InForce(requests[i])
      BY <2>2, <3>1 DEF OneGroup
    <3> QED  BY <2>4, <3>1, <3>2, NoOther
  <2> QED  BY <1>1, <2>3, <2>4
<1> QED  BY <1>4, <1>5, <1>6 DEF GroupsOK

\* A step that changes no router.
LEMMA StillGroups ==
    ASSUME RequestsOK, GroupsOK, NEW i \in DOMAIN requests, ServiceStep(i), conf' = conf,
           ProgressOK(requests'[i]),
           InForce(requests'[i]) => InForce(requests[i]),
           \A r \in Routers : Made(requests[i], r) => requests'[i].reply # "none" \/ Made(requests'[i], r)
    PROVE  GroupsOK'
<1>1. /\ conf' = [r \in Routers |-> conf'[r]]
      /\ \A r \in Routers : Own(r, conf'[r]) /\ Stems(conf'[r], conf[r], i)
  BY DEF GroupsOK, IdsOK, Stems
<1>2. ASSUME NEW r \in Routers, NEW k \in DOMAIN conf'[r], Gen(conf'[r][k]) = i
      PROVE  Made(requests[i], r)
  BY <1>2, NoneYet DEF GroupsOK, ServiceStep, Served
<1> QED  BY <1>1, <1>2, ServedGroups

\* The items of a router after a request.
LEMMA AfterIs ==
    ASSUME NEW r, NEW s, Own(r, s), NEW q, q.op \in {"create", "update", "delete"}, NEW id,
           Accepts(s, q, id), NEW g \in Nat, \A k \in DOMAIN s : Gen(s[k]) # g,
           NEW t, t = After(s, q, id, r, g)
    PROVE  /\ Own(r, t) /\ Stems(t, s, g)
           /\ q.op # "create" => \A k \in DOMAIN t : \E l \in DOMAIN s : Gen(t[k]) = Gen(s[l])
<1>1. CASE q.op = "create"
  <2>1. t = Append(s, Item(r, g, q.val))
    BY <1>1 DEF After
  <2>2. /\ Own(r, Append(s, Item(r, g, q.val)))
        /\ DOMAIN Append(s, Item(r, g, q.val)) = 1..(Len(s) + 1)
        /\ \A k \in DOMAIN s : Append(s, Item(r, g, q.val))[k] = s[k]
        /\ Append(s, Item(r, g, q.val))[Len(s) + 1] = Item(r, g, q.val)
        /\ DOMAIN s = 1..Len(s) /\ Len(s) \in Nat
    BY AppendedIs
  <2>3. ASSUME NEW k \in DOMAIN t PROVE Gen(t[k]) = g \/ \E l \in DOMAIN s : Gen(t[k]) = Gen(s[l])
    <3>1. k \in DOMAIN s \/ k = Len(s) + 1
      BY <2>1, <2>2
    <3> QED  BY <2>1, <2>2, <3>1, ItemIs
  <2> QED  BY <1>1, <2>1, <2>2, <2>3 DEF Stems
<1>2. CASE q.op = "delete"
  <2>1. t = Without(s, id) /\ At(s, id) # {}
    BY <1>2 DEF After, Accepts
  <2>2. PICK a \in DOMAIN s : id = <<r, Gen(s[a])>>
    BY <2>1, PlaceOf
  <2>3. /\ t = [k \in 1..(Len(s) - 1) |-> IF k < a THEN s[k] ELSE s[k + 1]]
        /\ Own(r, t)
    BY <2>1, <2>2, WithoutOf DEF Closed
  <2>4. DOMAIN s = 1..Len(s) /\ Len(s) \in Nat
    BY SequenceIsFunction DEF Own
  <2>5. ASSUME NEW k \in DOMAIN t PROVE \E l \in DOMAIN s : Gen(t[k]) = Gen(s[l])
    <3>1. k \in 1..(Len(s) - 1) /\ k \in DOMAIN s /\ k + 1 \in DOMAIN s
      BY <2>3, <2>4
    <3> QED  BY <2>3, <3>1
  <2> QED  BY <2>3, <2>5 DEF Stems
<1>3. CASE q.op = "update"
  <2>1. t = Update(s, id, q.patch) /\ At(s, id) # {}
    BY <1>3 DEF After, Accepts, Update
  <2>2. PICK a \in DOMAIN s : id = <<r, Gen(s[a])>>
    BY <2>1, PlaceOf
  <2>3. Own(r, t) /\ DOMAIN t = DOMAIN s /\ \A k \in DOMAIN s : Gen(t[k]) = Gen(s[k])
    BY <2>1, <2>2, UpdatedIs
  <2> QED  BY <2>3 DEF Stems
<1> QED  BY <1>1, <1>2, <1>3

\* Routers that are alike are alike after a request.
LEMMA AfterTwinned ==
    ASSUME NEW r, NEW s, Own(r, s), NEW p, NEW t, Own(p, t), Twinned(s, t),
           NEW q, q.op \in {"create", "update", "delete"}, NEW id, NEW jd,
           Accepts(s, q, id), NEW g \in Nat,
           \A k \in DOMAIN s : Gen(s[k]) # g, \A k \in DOMAIN t : Gen(t[k]) # g,
           q.op # "create" => \E n : id = <<r, n>> /\ jd = <<p, n>>
    PROVE  Twinned(After(s, q, id, r, g), After(t, q, jd, p, g))
<1>1. CASE q.op = "create"
  <2>1. /\ After(s, q, id, r, g) = Append(s, Item(r, g, q.val))
        /\ After(t, q, jd, p, g) = Append(t, Item(p, g, q.val))
    BY <1>1 DEF After
  <2>2. Twinned(Append(s, Item(r, g, q.val)), Append(t, Item(p, g, q.val)))
    BY AppendTwinned
  <2> QED  BY <2>1, <2>2
<1>2. ASSUME q.op \in {"update", "delete"}
      PROVE  \E a \in DOMAIN s : id = <<r, Gen(s[a])>> /\ jd = <<p, Gen(t[a])>>
  <2>1. At(s, id) # {}
    BY <1>2 DEF Accepts
  <2>2. PICK a \in DOMAIN s : id = <<r, Gen(s[a])>>
    BY <2>1, PlaceOf
  <2>3. PICK n : id = <<r, n>> /\ jd = <<p, n>>
    BY <1>2
  <2>4. Gen(s[a]) = n /\ Gen(t[a]) = n
    BY <2>2, <2>3 DEF Twinned, Same
  <2> QED  BY <2>2, <2>3, <2>4
<1>3. CASE q.op = "delete"
  <2>1. PICK a \in DOMAIN s : id = <<r, Gen(s[a])>> /\ jd = <<p, Gen(t[a])>>
    BY <1>2, <1>3
  <2>2. After(s, q, id, r, g) = Without(s, id) /\ After(t, q, jd, p, g) = Without(t, jd)
    BY <1>3 DEF After
  <2> QED  BY <2>1, <2>2, WithoutTwinned
<1>4. CASE q.op = "update"
  <2>1. PICK a \in DOMAIN s : id = <<r, Gen(s[a])>> /\ jd = <<p, Gen(t[a])>>
    BY <1>2, <1>4
  <2>2. /\ After(s, q, id, r, g) = Update(s, id, q.patch)
        /\ After(t, q, jd, p, g) = Update(t, jd, q.patch)
    BY <1>4 DEF After, Update
  <2> QED  BY <2>1, <2>2, UpdateTwinned
<1> QED  BY <1>1, <1>3, <1>4

\* An item that is deleted and put back.
LEMMA PutBackIs ==
    ASSUME NEW r, NEW s, Own(r, s), NEW a \in DOMAIN s, NEW id, id = <<r, Gen(s[a])>>,
           NEW g \in Nat, \A k \in DOMAIN s : Gen(s[k]) # g, NEW v,
           NEW t, t = Append(Without(s, id), Item(r, g, v))
    PROVE  Own(r, t) /\ Stems(t, s, g)
<1>1. PICK w : w = Without(s, id)
  OBVIOUS
<1>2. w = [k \in 1..(Len(s) - 1) |-> IF k < a THEN s[k] ELSE s[k + 1]] /\ Own(r, w)
  <2>1. Closed(w, s, a) /\ Own(r, w)
    BY <1>1, WithoutOf
  <2> QED  BY <2>1 DEF Closed
<1>3. DOMAIN s = 1..Len(s) /\ Len(s) \in Nat
  BY SequenceIsFunction DEF Own
<1>4. ASSUME NEW k \in DOMAIN w PROVE \E l \in DOMAIN s : w[k] = s[l]
  <2>1. k \in 1..(Len(s) - 1) /\ k \in DOMAIN s /\ k + 1 \in DOMAIN s
    BY <1>2, <1>3
  <2> QED  BY <1>2, <2>1
<1>5. \A k \in DOMAIN w : Gen(w[k]) # g
  BY <1>4
<1>6. /\ Own(r, t) /\ DOMAIN t = 1..(Len(w) + 1)
      /\ \A k \in DOMAIN w : t[k] = w[k]
      /\ t[Len(w) + 1] = Item(r, g, v)
      /\ DOMAIN w = 1..Len(w) /\ Len(w) \in Nat
  <2>1. t = Append(w, Item(r, g, v)) /\ Own(r, w)
    BY <1>1, <1>2
  <2>2. /\ Own(r, Append(w, Item(r, g, v))) /\ DOMAIN Append(w, Item(r, g, v)) = 1..(Len(w) + 1)
        /\ \A k \in DOMAIN w : Append(w, Item(r, g, v))[k] = w[k]
        /\ Append(w, Item(r, g, v))[Len(w) + 1] = Item(r, g, v)
        /\ DOMAIN w = 1..Len(w) /\ Len(w) \in Nat
    BY <1>5, <2>1, AppendedIs
  <2> QED  BY <2>1, <2>2
<1>7. ASSUME NEW k \in DOMAIN t
      PROVE  Gen(t[k]) = g \/ \E l \in DOMAIN s : Gen(t[k]) = Gen(s[l])
  <2>1. k \in DOMAIN w \/ k = Len(w) + 1
    BY <1>6
  <2>2. CASE k \in DOMAIN w
    <3>1. PICK l \in DOMAIN s : w[k] = s[l]
      BY <1>4, <2>2
    <3>2. t[k] = s[l]
      BY <1>6, <2>2, <3>1
    <3> QED  BY <3>2
  <2>3. CASE k = Len(w) + 1
    <3>1. t[k] = Item(r, g, v)
      BY <1>6, <2>3
    <3> QED  BY <3>1, ItemIs
  <2> QED  BY <2>1, <2>2, <2>3
<1> QED  BY <1>6, <1>7 DEF Stems


\* Lookups find items of the master.
LEMMA LookupMasterGroups ==
    ASSUME RequestsOK, GroupsOK, NEW i \in DOMAIN requests, LookupMaster(i),
           ServiceStep(i), ~RefusedNow(i), NEW q, q = requests[i], NEW p, p = requests'[i]
    PROVE  ProgressOK(p)
<1>1. /\ Running(q) /\ Master \in q.todo /\ SameGroup(i) /\ StillRuns(i)
      /\ \A k \in DOMAIN q.names : At(conf[Master], q.names[k]) # {}
      /\ p.refs = [k \in DOMAIN q.names |-> ItemAt(conf[Master], q.names[k]).val]
      /\ p.todo = q.todo \ {Master}
      /\ p.target = [q.target EXCEPT ![Master] = q.names]
      /\ p.op = q.op /\ p.names = q.names
  BY LookupMasterIs DEF ServiceStep, Served
<1>2. ProgressOK(q) /\ Own(Master, conf[Master])
  BY MasterAssumption DEF GroupsOK, IdsOK
<1>3. /\ q.op \in {"update", "delete", "move"} /\ q.refs = <<>> /\ q.todo = Routers
      /\ q.names = [k \in 1..Width(q) |-> q.names[k]]
      /\ q.target = [r \in Routers |-> q.target[r]]
      /\ q.before = [r \in Routers |-> q.before[r]]
      /\ q.done = {} /\ ~q.undoing
  BY <1>1, <1>2 DEF ProgressOK, LookedUp
<1>4. Width(p) = Width(q) /\ 1 \in 1..Width(q)
  BY <1>1 DEF Width
<1>5. \A k \in 1..Width(q) : \E n \in Nat : q.names[k] = <<Master, n>>
  <2> SUFFICES ASSUME NEW k \in 1..Width(q) PROVE \E n \in Nat : q.names[k] = <<Master, n>>
    OBVIOUS
  <2>1. k \in DOMAIN q.names
    BY <1>3
  <2>2. PICK a \in DOMAIN conf[Master] : q.names[k] = <<Master, Gen(conf[Master][a])>>
    BY <1>1, <1>2, <2>1, PlaceOf
  <2> QED  BY <1>2, <2>2 DEF Own
<1>6. \A k \in 1..Width(q) : q.names[k] = <<Master, q.names[k][2]>> /\ q.names[k][2] \in Nat
  BY <1>5
<1>7. LookedUp(p)
  <2>1. DOMAIN q.names = 1..Width(p)
    BY <1>3, <1>4
  <2>2. p.refs = [k \in 1..Width(p) |-> p.refs[k]]
    BY <1>1, <2>1
  <2> QED  BY <1>1, <1>3, <1>4, <1>6, <2>2 DEF LookedUp
<1>8. p.refs # <<>>
  <2>1. 1 \in DOMAIN p.refs
    BY <1>1, <1>3, <1>4
  <2>2. 1 \notin DOMAIN <<>>
    OBVIOUS
  <2> QED  BY <2>1, <2>2
<1>9. p.target[Master] = Twins(p, Master)
  <2>1. q.names = [k \in 1..Width(q) |-> <<Master, q.names[k][2]>>]
    BY <1>3, <1>6
  <2> QED  BY <1>1, <1>3, <1>4, <2>1, MasterAssumption DEF Twins
<1>10. p.target = [r \in Routers |-> p.target[r]]
  BY <1>1, <1>3
<1>11. p.before = [r \in Routers |-> p.before[r]] /\ p.done = {} /\ ~p.undoing
  BY <1>1, <1>3 DEF SameGroup
<1>12. p.names = [k \in 1..Width(p) |-> p.names[k]]
  BY <1>1, <1>3, <1>4
<1> QED  BY <1>1, <1>3, <1>7, <1>8, <1>9, <1>10, <1>11, <1>12 DEF ProgressOK
LEMMA LookupBackupGroups ==
    ASSUME RequestsOK, GroupsOK, NEW i \in DOMAIN requests, NEW r \in Routers \ {Master},
           LookupBackup(i, r), NEW q, q = requests[i], NEW p, p = requests'[i]
    PROVE  ProgressOK(p)
<1> DEFINE x == Found(conf[r], requests[i].refs)
<1>0. /\ ServiceStep(i) /\ requests[i].refs # <<>> /\ r \in requests[i].todo
      /\ SameGroup(i) /\ StillRuns(i)
      /\ requests'[i].refs = requests[i].refs /\ requests'[i].todo = requests[i].todo \ {r}
      /\ requests'[i].target = [requests[i].target EXCEPT ![r] = x]
  BY LookupBackupIs
<1> HIDE DEF x
<1>1. /\ Running(q) /\ q.refs # <<>> /\ r \in q.todo /\ SameGroup(i) /\ StillRuns(i)
      /\ p.refs = q.refs /\ p.todo = q.todo \ {r}
      /\ p.target = [q.target EXCEPT ![r] = x]
      /\ p.op = q.op /\ p.names = q.names
  BY <1>0 DEF ServiceStep, Served
<1>2. ProgressOK(q)
  BY DEF GroupsOK
<1>3. /\ q.op \in {"update", "delete", "move"} /\ LookedUp(q)
      /\ q.names = [k \in 1..Width(q) |-> q.names[k]]
      /\ q.op # "move" => q.target[Master] = Twins(q, Master)
      /\ q.target = [s \in Routers |-> q.target[s]]
      /\ q.before = [s \in Routers |-> q.before[s]]
      /\ q.done = {} /\ ~q.undoing
  BY <1>1, <1>2 DEF ProgressOK
<1>4. Width(p) = Width(q) /\ Twins(p, Master) = Twins(q, Master)
  BY <1>1 DEF Width, Twins
<1>5. LookedUp(p)
  BY <1>1, <1>3, <1>4 DEF LookedUp
<1>6. p.target = [s \in Routers |-> p.target[s]] /\ p.target[Master] = q.target[Master]
  BY <1>1, <1>3, MasterAssumption
<1>7. p.before = [s \in Routers |-> p.before[s]] /\ p.done = {} /\ ~p.undoing
  BY <1>1, <1>3 DEF SameGroup
<1>8. p.names = [k \in 1..Width(p) |-> p.names[k]]
  BY <1>1, <1>3, <1>4
<1>9. p.op # "move" => p.target[Master] = Twins(p, Master)
  BY <1>1, <1>3, <1>4, <1>6
<1> QED  BY <1>1, <1>3, <1>5, <1>6, <1>7, <1>8, <1>9 DEF ProgressOK

\* A step that is not about the group.
LEMMA QuietGroups ==
    ASSUME RequestsOK, GroupsOK, NEW i \in DOMAIN requests, ServiceStep(i), conf' = conf,
           SameGroup(i), ProgressOK(requests'[i])
    PROVE  GroupsOK'
<1>1. requests'[i].op = requests[i].op /\ Running(requests[i])
  BY DEF ServiceStep, Served
<1>2. InForce(requests'[i]) => InForce(requests[i])
  BY <1>1 DEF SameGroup, InForce
<1>3. \A r \in Routers : Made(requests[i], r) => Made(requests'[i], r)
  BY <1>1 DEF SameGroup, Made
<1> QED  BY <1>2, <1>3, StillGroups
LEMMA LookupGroups ==
    ASSUME RequestsOK, GroupsOK, NEW i \in DOMAIN requests,
           LookupMaster(i) \/ (\E r \in Routers \ {Master} : LookupBackup(i, r)) \/ CallFails(i)
    PROVE  GroupsOK'
<1>1. CASE LookupMaster(i)
  <2>1. ServiceStep(i) /\ conf' = conf /\ SameGroup(i)
    BY <1>1, LookupMasterIs
  <2>2. CASE RefusedNow(i)
    BY <2>1, <2>2, AnsweredProgress, QuietGroups DEF RefusedNow
  <2>3. CASE ~RefusedNow(i)
    BY <1>1, <2>1, <2>3, LookupMasterGroups, QuietGroups
  <2> QED  BY <2>2, <2>3
<1>2. ASSUME NEW r \in Routers \ {Master}, LookupBackup(i, r) PROVE GroupsOK'
  <2>1. ServiceStep(i) /\ conf' = conf /\ SameGroup(i)
    BY <1>2, LookupBackupIs
  <2> QED  BY <1>2, <2>1, LookupBackupGroups, QuietGroups
<1>3. CASE CallFails(i)
  BY <1>3, CallFailsIs, AnsweredProgress, QuietGroups DEF RefusedNow
<1> QED  BY <1>1, <1>2, <1>3

\* Finish.
LEMMA FinishGroups ==
    ASSUME RequestsOK, GroupsOK, NEW i \in DOMAIN requests, Finish(i)
    PROVE  GroupsOK'
<1>1. ServiceStep(i) /\ conf' = conf /\ SameGroup(i) /\ requests'[i].reply \in {"ok", "unsaid"}
  BY FinishIs
<1> QED  BY <1>1, AnsweredProgress, QuietGroups

\* MoveEnds and PostMove.
LEMMA MoveEndsGroups ==
    ASSUME RequestsOK, GroupsOK, NEW i \in DOMAIN requests, MoveEnds(i)
    PROVE  GroupsOK'
<1>1. ServiceStep(i) /\ conf' = conf /\ SameGroup(i) /\ requests'[i].reply \in {"ok", "unsaid"}
  BY MoveEndsIs
<1> QED  BY <1>1, AnsweredProgress, QuietGroups
LEMMA PostMoveGroups ==
    ASSUME RequestsOK, GroupsOK, NEW i \in DOMAIN requests, NEW r \in Routers, PostMove(i, r)
    PROVE  GroupsOK'
<1> DEFINE q == requests[i]
           p == requests'[i]
           s == conf[r]
           t == Moved(s, q.target[r][1], q.target[r][2])
<1>1. PostsMove(i, r, q)
  BY PostMoveIs
<1>2. /\ ServiceStep(i) /\ SameGroup(i) /\ p.reply = q.reply /\ q.op = "move"
      /\ p.refs = q.refs /\ p.todo = q.todo /\ p.target = [q.target EXCEPT ![r] = Nothing]
      /\ q.target[r] # Nothing /\ p.strewn
      /\ \A k \in 1..2 : At(s, q.target[r][k]) # {}
      /\ conf' = [conf EXCEPT ![r] = t]
      /\ p.op = q.op /\ p.names = q.names /\ Running(q)
  BY <1>1 DEF PostsMove, ServiceStep, Served
<1>3. ProgressOK(q) /\ Own(r, s) /\ conf = [x \in Routers |-> conf[x]]
  BY DEF GroupsOK, IdsOK
<1>4. ProgressOK(p)
  <2>1. /\ q.refs # <<>> /\ LookedUp(q) /\ q.done = {} /\ ~q.undoing
        /\ q.names = [k \in 1..Width(q) |-> q.names[k]]
        /\ q.target = [x \in Routers |-> q.target[x]]
        /\ q.before = [x \in Routers |-> q.before[x]]
    BY <1>2, <1>3 DEF ProgressOK
  <2>2. Width(p) = Width(q)
    BY <1>2 DEF Width
  <2>3. LookedUp(p)
    BY <1>2, <2>1, <2>2 DEF LookedUp
  <2>4. p.target = [x \in Routers |-> p.target[x]]
    BY <1>2, <2>1
  <2>5. p.before = [x \in Routers |-> p.before[x]] /\ p.done = {} /\ ~p.undoing
    BY <1>2, <2>1 DEF SameGroup
  <2> HIDE DEF p, q
  <2> QED  BY <1>2, <2>1, <2>2, <2>3, <2>4, <2>5 DEF ProgressOK
<1>5. PICK a \in DOMAIN s : q.target[r][1] = <<r, Gen(s[a])>>
  BY <1>2, <1>3, PlaceOf
<1>6. PICK b \in DOMAIN s : q.target[r][2] = <<r, Gen(s[b])>>
  BY <1>2, <1>3, PlaceOf
<1>7. t = [k \in DOMAIN s |-> s[Origin(a, b, k)]]
  BY <1>3, <1>5, <1>6, MovedIs
<1> HIDE DEF t
<1>8. Permuted(t, s, a, b)
  BY <1>7 DEF Permuted
<1>9. Own(r, t) /\ DOMAIN t = DOMAIN s
  BY <1>3, <1>8, PermutedIs
<1>10. \A k \in DOMAIN s : Origin(a, b, k) \in DOMAIN s
  <2>1. Len(s) \in Nat /\ DOMAIN s = 1..Len(s)
    BY <1>3, SequenceIsFunction DEF Own
  <2> QED  BY <2>1, OriginIs
<1>11. \A k \in DOMAIN t : \E l \in DOMAIN s : t[k] = s[l]
  BY <1>7, <1>9, <1>10
<1>12. /\ conf' = [x \in Routers |-> conf'[x]] /\ conf'[r] = t
       /\ \A x \in Routers \ {r} : conf'[x] = conf[x]
  BY <1>2, <1>3
<1>13. \A x \in Routers : Own(x, conf'[x]) /\ \A k \in DOMAIN conf'[x] : \E l \in DOMAIN conf[x] : conf'[x][k] = conf[x][l]
  <2>1. \A x \in Routers \ {r} : Own(x, conf[x])
    BY DEF GroupsOK, IdsOK
  <2> QED  BY <1>9, <1>11, <1>12, <2>1
<1>14. \A x \in Routers : Stems(conf'[x], conf[x], i)
  BY <1>13 DEF Stems
<1>15. \A x \in Routers : ~Made(q, x)
  BY <1>2 DEF Made
<1>16. ASSUME NEW x \in Routers, NEW k \in DOMAIN conf'[x] PROVE Gen(conf'[x][k]) # i
  BY <1>2, <1>13, <1>15, NoneYet DEF GroupsOK
<1>17. InForce(p) => InForce(q)
  BY <1>2 DEF SameGroup, InForce
<1> QED  BY <1>2, <1>4, <1>12, <1>13, <1>14, <1>15, <1>16, <1>17, ServedGroups

\* An operation that comes in force.
LEMMA AppliedItems ==
    ASSUME RequestsOK, GroupsOK, NEW i \in DOMAIN requests, NEW r \in Routers,
           NEW q, q = requests[i], Applies(i, r, q)
    PROVE  /\ conf' = [x \in Routers |-> conf'[x]]
           /\ \A x \in Routers \ {r} : conf'[x] = conf[x]
           /\ conf'[r] = After(conf[r], q, IdOn(q, r), r, i)
           /\ \A x \in Routers : Own(x, conf'[x]) /\ Stems(conf'[x], conf[x], i)
           /\ \A x \in Routers : q.op # "create" \/ x # r =>
                 \A k \in DOMAIN conf'[x] : Gen(conf'[x][k]) = i => Made(q, x)
           /\ i \in Nat /\ \A k \in DOMAIN conf[r] : Gen(conf[r][k]) # i
           /\ q.op \in {"create", "update", "delete"}
<1> DEFINE t == After(conf[r], q, IdOn(q, r), r, i)
<1>1. /\ Turn(q, r) /\ Free(i) /\ Accepts(conf[r], q, IdOn(q, r))
      /\ conf' = [conf EXCEPT ![r] = t]
  BY DEF Applies
<1>2. Running(q) /\ q.todo = {} /\ q.op # "move" /\ ~q.undoing /\ r \notin q.done
  BY <1>1 DEF Turn, Ready
<1>3. IdsOK(conf, requests) /\ ProgressOK(q)
  BY DEF GroupsOK
<1>4. q.op \in {"create", "update", "delete"}
  BY <1>2, <1>3 DEF ProgressOK
<1>5. ~Made(q, r)
  BY <1>2 DEF Made
<1>6. i \in Nat /\ \A k \in DOMAIN conf[r] : Gen(conf[r][k]) # i
  BY <1>2, <1>3, <1>5, NoneYet
<1>7. Own(r, conf[r]) /\ conf = [x \in Routers |-> conf[x]]
  BY <1>3 DEF IdsOK
<1>8. /\ Own(r, t) /\ Stems(t, conf[r], i)
      /\ q.op # "create" => \A k \in DOMAIN t : \E l \in DOMAIN conf[r] : Gen(t[k]) = Gen(conf[r][l])
  BY <1>1, <1>4, <1>6, <1>7, AfterIs
<1> HIDE DEF t
<1>9. /\ conf' = [x \in Routers |-> conf'[x]] /\ conf'[r] = t
      /\ \A x \in Routers \ {r} : conf'[x] = conf[x]
  BY <1>1, <1>7
<1>10. \A x \in Routers \ {r} : Own(x, conf[x])
  BY <1>3 DEF IdsOK
<1>11. \A x \in Routers \ {r} : \A k \in DOMAIN conf[x] : Gen(conf[x][k]) = i => Made(q, x)
  BY <1>2, <1>3, NoneYet
<1>12. \A x \in Routers : Own(x, conf'[x]) /\ Stems(conf'[x], conf[x], i)
  BY <1>8, <1>9, <1>10 DEF Stems
<1>13. ASSUME NEW x \in Routers, q.op # "create" \/ x # r,
              NEW k \in DOMAIN conf'[x], Gen(conf'[x][k]) = i
       PROVE  Made(q, x)
  BY <1>6, <1>8, <1>9, <1>11, <1>13
<1> QED  BY <1>4, <1>6, <1>9, <1>12, <1>13 DEF t
LEMMA ApplyGroups ==
    ASSUME RequestsOK, GroupsOK, NEW i \in DOMAIN requests, NEW r \in Routers, Apply(i, r)
    PROVE  GroupsOK'
<1>1. PICK q : q = requests[i]
  OBVIOUS
<1>2. PICK p : p = requests'[i]
  OBVIOUS
<1> DEFINE x == IF q.op = "create" THEN Nothing ELSE ItemAt(conf[r], IdOn(q, r)).val
<1>3. /\ ServiceStep(i) /\ StillRuns(i) /\ SameLookups(i) /\ Applies(i, r, q)
      /\ p.undoing = q.undoing /\ p.done = q.done \cup {r}
      /\ p.before = [q.before EXCEPT ![r] = x]
  BY <1>1, <1>2, ApplyIs
<1> HIDE DEF x
<1>4. /\ p.op = q.op /\ p.names = q.names /\ p.refs = q.refs /\ p.todo = q.todo
      /\ p.target = q.target /\ p.reply = q.reply /\ p.strewn = q.strewn /\ Running(q)
  BY <1>1, <1>2, <1>3 DEF ServiceStep, Served, SameLookups, StillRuns
<1>5. ProgressOK(q)
  BY <1>1 DEF GroupsOK
<1>6. /\ Turn(q, r) /\ Free(i) /\ q.todo = {} /\ q.op # "move" /\ ~q.undoing
      /\ r \in Touched(q) /\ (Master \in Touched(q) \ q.done => r = Master)
  BY <1>3 DEF Applies, Turn, Ready
<1>7. Master \in Touched(q)
  BY <1>4, <1>5, <1>6, MasterTouched
<1>8. Master \in p.done /\ p.done \subseteq Touched(p)
  <2>1. Touched(p) = Touched(q)
    BY <1>4 DEF Touched
  <2>2. q.done \subseteq Touched(q)
    BY <1>4, <1>5 DEF ProgressOK
  <2> QED  BY <1>3, <1>6, <1>7, <2>1, <2>2
<1>9. ProgressOK(p)
  <2>1. Width(p) = Width(q) /\ Twins(p, Master) = Twins(q, Master) /\ (LookedUp(q) => LookedUp(p))
    BY <1>4 DEF Width, Twins, LookedUp
  <2>2. q.before = [y \in Routers |-> q.before[y]]
    BY <1>4, <1>5 DEF ProgressOK
  <2>3. p.before = [y \in Routers |-> p.before[y]]
    BY <1>3, <2>2
  <2> QED  BY <1>3, <1>4, <1>5, <1>6, <1>8, <2>1, <2>3 DEF ProgressOK
<1>10. \A y \in Routers : Made(q, y) => Made(p, y)
  BY <1>3, <1>4, <1>6 DEF Made
<1>11. q.op = "create" => Made(p, r)
  BY <1>3, <1>4 DEF Made
<1>12. Free(i) /\ Ready(requests[i])
  BY <1>1, <1>6 DEF Turn
<1> QED  BY <1>1, <1>2, <1>3, <1>9, <1>10, <1>11, <1>12, AppliedItems, ServedGroups
LEMMA ApplyFailsGroups ==
    ASSUME RequestsOK, GroupsOK, NEW i \in DOMAIN requests, NEW r \in Routers, ApplyFails(i, r)
    PROVE  GroupsOK'
<1>1. PICK q : q = requests[i]
  OBVIOUS
<1>2. PICK p : p = requests'[i]
  OBVIOUS
<1>3. /\ ServiceStep(i) /\ SameLookups(i) /\ Turn(q, r)
      /\ p.done = q.done /\ p.before = q.before
      /\ q.done = {} => p.reply = "error" /\ p.undoing = q.undoing
      /\ q.done # {} => p.reply = q.reply /\ p.undoing
      /\ conf' = conf \/ Applies(i, r, q)
  BY <1>1, <1>2, ApplyFailsIs
<1>4. /\ p.op = q.op /\ p.names = q.names /\ p.refs = q.refs /\ p.todo = q.todo
      /\ p.target = q.target /\ Running(q)
      /\ q.todo = {} /\ q.op # "move" /\ ~q.undoing /\ r \notin q.done
  BY <1>1, <1>2, <1>3 DEF ServiceStep, Served, SameLookups, Turn, Ready
<1>5. ProgressOK(q)
  BY <1>1 DEF GroupsOK
<1>6. ProgressOK(p)
  <2>1. CASE q.done = {}
    BY <1>3, <2>1, AnsweredProgress
  <2>2. CASE q.done # {}
    <3>1. /\ Width(p) = Width(q) /\ Twins(p, Master) = Twins(q, Master)
          /\ (LookedUp(q) => LookedUp(p)) /\ Touched(p) = Touched(q)
      BY <1>4 DEF Width, Twins, LookedUp, Touched
    <3>2. q.refs = <<>> => q.op = "create"
      BY <1>4, <1>5, MasterAssumption DEF ProgressOK
    <3> QED  BY <1>3, <1>4, <1>5, <2>2, <3>1, <3>2 DEF ProgressOK
  <2> QED  BY <2>1, <2>2
<1>7. InForce(p) => InForce(q)
  BY <1>3, <1>4 DEF InForce
<1>8. \A y \in Routers : Made(q, y) => Made(p, y)
  BY <1>3, <1>4 DEF Made
<1>9. CASE conf' = conf
  BY <1>1, <1>2, <1>3, <1>6, <1>7, <1>8, <1>9, StillGroups
<1>10. CASE Applies(i, r, q)
  <2>1. q.op = "create" => p.reply # "none" \/ Made(p, r)
    BY <1>3, <1>4 DEF Made
  <2> QED  BY <1>1, <1>2, <1>3, <1>6, <1>7, <1>8, <1>10, <2>1, AppliedItems, ServedGroups
<1> QED  BY <1>3, <1>9, <1>10

\* What is taken back.
LEMMA ReversedItems ==
    ASSUME NEW r, NEW s, Own(r, s), NEW q, q.op \in {"create", "update", "delete"},
           NEW g \in Nat, q.op = "delete" => \A k \in DOMAIN s : Gen(s[k]) # g,
           NEW t, t = Reversed(s, q, r, g)
    PROVE  /\ Own(r, t) /\ Stems(t, s, g)
           /\ q.op # "delete" => \A k \in DOMAIN t : \E l \in DOMAIN s : Gen(t[k]) = Gen(s[l])
<1>1. Len(s) \in Nat /\ DOMAIN s = 1..Len(s)
  BY SequenceIsFunction DEF Own
<1>2. CASE q.op = "create"
  <2> DEFINE id == <<r, g>>
  <2>1. t = Without(s, id)
    BY <1>2 DEF Reversed
  <2>2. CASE At(s, id) = {}
    <3>1. t = s
      BY <2>1, <2>2 DEF Without
    <3> QED  BY <3>1 DEF Stems
  <2>3. CASE At(s, id) # {}
    <3>1. PICK a \in DOMAIN s : id = <<r, Gen(s[a])>>
      BY <2>3, PlaceOf
    <3>2. t = [k \in 1..(Len(s) - 1) |-> IF k < a THEN s[k] ELSE s[k + 1]] /\ Own(r, t)
      BY <2>1, <3>1, WithoutOf DEF Closed
    <3>3. ASSUME NEW k \in DOMAIN t PROVE \E l \in DOMAIN s : Gen(t[k]) = Gen(s[l])
      <4>1. k \in 1..(Len(s) - 1) /\ k \in DOMAIN s /\ k + 1 \in DOMAIN s
        BY <1>1, <3>2
      <4> QED  BY <3>2, <4>1
    <3> QED  BY <3>2, <3>3 DEF Stems
  <2> QED  BY <2>2, <2>3
<1>3. CASE q.op = "delete"
  <2> DEFINE x == Item(r, g, q.before[r])
  <2>1. t = Append(s, x) /\ \A k \in DOMAIN s : Gen(s[k]) # g
    BY <1>3 DEF Reversed
  <2>2. /\ Own(r, Append(s, x)) /\ DOMAIN Append(s, x) = 1..(Len(s) + 1)
        /\ \A k \in DOMAIN s : Append(s, x)[k] = s[k]
        /\ Append(s, x)[Len(s) + 1] = x
    BY <2>1, AppendedIs
  <2>3. Gen(x) = g
    BY ItemIs
  <2> HIDE DEF x
  <2>4. ASSUME NEW k \in DOMAIN t PROVE Gen(t[k]) = g \/ \E l \in DOMAIN s : Gen(t[k]) = Gen(s[l])
    <3>1. k \in DOMAIN s \/ k = Len(s) + 1
      BY <1>1, <2>1, <2>2
    <3> QED  BY <2>1, <2>2, <2>3, <3>1
  <2> QED  BY <1>3, <2>1, <2>2, <2>4 DEF Stems
<1>4. CASE q.op = "update"
  <2> DEFINE id == q.target[r][1]
             back(v) == PatchedBack(v, q.before[r])
  <2>1. t = [k \in DOMAIN s |-> IF s[k].id = id THEN [s[k] EXCEPT !.val = back(@)] ELSE s[k]]
    BY <1>4 DEF Reversed
  <2> HIDE DEF id, back
  <2>2. IsSequence(t) /\ DOMAIN t = DOMAIN s
    <3>1. t = [k \in 1..Len(s) |-> t[k]]
      BY <1>1, <2>1
    <3> QED  BY <1>1, <3>1, FunctionIsSequence
  <2>3. ASSUME NEW k \in DOMAIN s PROVE t[k] = Item(r, Gen(s[k]), t[k].val)
    <3>1. s[k] = [id |-> <<r, Gen(s[k])>>, val |-> s[k].val]
      BY DEF Own, Item
    <3>2. t[k] = s[k] \/ t[k] = [s[k] EXCEPT !.val = back(s[k].val)]
      BY <2>1
    <3> QED  BY <3>1, <3>2 DEF Item
  <2>4. \A k \in DOMAIN s : Gen(t[k]) = Gen(s[k])
    BY <2>3, ItemIs
  <2>5. Own(r, t)
    BY <2>2, <2>3, <2>4 DEF Own
  <2> QED  BY <2>2, <2>4, <2>5 DEF Stems
<1> QED  BY <1>2, <1>3, <1>4
LEMMA TakeBackGroups ==
    ASSUME RequestsOK, GroupsOK, NEW i \in DOMAIN requests, NEW r \in Routers, TakeBack(i, r)
    PROVE  GroupsOK'
<1>1. PICK q : q = requests[i]
  OBVIOUS
<1>2. PICK p : p = requests'[i]
  OBVIOUS
<1> DEFINE t == Reversed(conf[r], q, r, i)
<1>3. /\ ServiceStep(i) /\ SameLookups(i) /\ Running(q) /\ q.undoing /\ r \in q.done
      /\ (r = Master => q.done = {Master})
      /\ p.done = q.done \ {r} /\ p.before = q.before /\ p.undoing = q.undoing
      /\ q.done = {r} => p.reply = "error"
      /\ q.done # {r} => p.reply = q.reply
      /\ conf' = conf \/ conf' = [conf EXCEPT ![r] = t]
  BY <1>1, <1>2, TakeBackIs
<1>4. /\ p.op = q.op /\ p.names = q.names /\ p.refs = q.refs /\ p.todo = q.todo
      /\ p.target = q.target
  BY <1>1, <1>2, <1>3 DEF ServiceStep, Served, SameLookups
<1>5. ProgressOK(q) /\ IdsOK(conf, requests)
  BY <1>1 DEF GroupsOK
<1>6. /\ Master \in q.done /\ q.done \subseteq Touched(q) /\ q.todo = {}
      /\ q.op \in {"create", "update", "delete"}
  BY <1>3, <1>5 DEF ProgressOK
<1>7. ProgressOK(p)
  <2>1. CASE q.done = {r}
    BY <1>3, <2>1, AnsweredProgress
  <2>2. CASE q.done # {r}
    <3>1. /\ Width(p) = Width(q) /\ Twins(p, Master) = Twins(q, Master)
          /\ (LookedUp(q) => LookedUp(p)) /\ Touched(p) = Touched(q)
      BY <1>4 DEF Width, Twins, LookedUp, Touched
    <3>2. q.refs = <<>> => q.op = "create"
      BY <1>3, <1>5, <1>6, MasterAssumption DEF ProgressOK
    <3>3. Master \in p.done /\ p.done \subseteq Touched(p) /\ p.done # {}
      BY <1>3, <1>6, <2>2, <3>1
    <3> QED  BY <1>3, <1>4, <1>5, <1>6, <3>1, <3>2, <3>3 DEF ProgressOK
  <2> QED  BY <2>1, <2>2
<1>8. InForce(p) => InForce(q)
  BY <1>3, <1>6 DEF InForce
<1>9. \A y \in Routers : Made(q, y) => Made(p, y)
  BY <1>3, <1>4 DEF Made
<1>10. CASE conf' = conf
  BY <1>1, <1>2, <1>3, <1>7, <1>8, <1>9, <1>10, StillGroups
<1>11. CASE conf' = [conf EXCEPT ![r] = t]
  <2>1. Own(r, conf[r]) /\ conf = [x \in Routers |-> conf[x]] /\ \A x \in Routers : Own(x, conf[x])
    BY <1>5 DEF IdsOK
  <2>2. q.op = "delete" => ~Made(q, r)
    BY <1>3 DEF Made
  <2>3. \A x \in Routers : \A k \in DOMAIN conf[x] : Gen(conf[x][k]) = i => Made(q, x)
    BY <1>1, <1>3, <1>5, NoneYet
  <2>4. i \in Nat
    BY SequenceIsFunction DEF RequestsOK
  <2>5. /\ Own(r, t) /\ Stems(t, conf[r], i)
        /\ q.op # "delete" => \A k \in DOMAIN t : \E l \in DOMAIN conf[r] : Gen(t[k]) = Gen(conf[r][l])
    BY <1>6, <2>1, <2>2, <2>3, <2>4, ReversedItems
  <2> HIDE DEF t
  <2>6. /\ conf' = [x \in Routers |-> conf'[x]] /\ conf'[r] = t
        /\ \A x \in Routers \ {r} : conf'[x] = conf[x]
    BY <1>11, <2>1
  <2>7. \A x \in Routers : Own(x, conf'[x]) /\ Stems(conf'[x], conf[x], i)
    BY <2>1, <2>5, <2>6 DEF Stems
  <2>8. q.op = "delete" => Made(p, r)
    BY <1>3, <1>4 DEF Made
  <2>9. ASSUME NEW x \in Routers, NEW k \in DOMAIN conf'[x], Gen(conf'[x][k]) = i
        PROVE  Made(q, x) \/ Made(p, x)
    BY <2>3, <2>5, <2>6, <2>8, <2>9
  <2>10. \A x \in Routers : Made(q, x) \/ Made(p, x) => Made(p, x)
    BY <1>9
  <2> QED  BY <1>1, <1>2, <1>3, <1>7, <1>8, <1>9, <2>6, <2>7, <2>9, <2>10, ServedGroups
<1> QED  BY <1>3, <1>10, <1>11

\* Every step.
LEMMA ServeGroups ==
    ASSUME RequestsOK, GroupsOK, NEW i \in DOMAIN requests, ServeStep(i)
    PROVE  GroupsOK'
BY LookupGroups, FinishGroups, MoveEndsGroups, PostMoveGroups, ApplyGroups, ApplyFailsGroups,
   TakeBackGroups DEF ServeStep
LEMMA NextGroups ==
    ASSUME RequestsOK, GroupsOK, [PagesNext]_pagesVars
    PROVE  GroupsOK'
<1>1. CASE PageStep
  BY <1>1, PageGroups
<1>2. CASE ServeContent
  BY <1>2, ServeGroups DEF ServeContent, Serve
<1> QED  BY <1>1, <1>2, PageOrService

-----------------------------------------------------------------------------
(* The list is current.                                                    *)

\* The operation of a request is in force on the master, not finished, and
\* nothing of it will stay there when it is taken back.
Behind(i) ==
    /\ Running(requests[i]) /\ Master \in requests[i].done
    /\ requests[i].op \in {"create", "update"}
    /\ ~requests[i].left /\ i \notin early
OthersTold(i) == \A j \in DOMAIN requests \ {i} : Told(j)

\* The list is what the master has, or will have again when the request that
\* is in force there is taken back, or there is a request whose outcome the
\* page does not know.
Recovers(q, g, s, items) ==
    \/ Sticks(q, Master, Reversed(s, q, Master, g))
    \/ Reversed(s, q, Master, g) = items
ListInv ==
    Loaded /\ ~stale =>
      /\ (\A i \in DOMAIN requests : Told(i)) => shown = conf[Master]
      /\ \A i \in DOMAIN requests :
            Behind(i) /\ OthersTold(i) => Recovers(requests[i], i, conf[Master], shown)

\* What is created or changed and taken back leaves the items as they were,
\* or the change has left a field the item had not.
LEMMA BackAgain ==
    ASSUME NEW s, Own(Master, s), NEW q, q.op \in {"create", "update"},
           NEW id, id = IdOn(q, Master), Accepts(s, q, id),
           NEW g \in Nat, \A k \in DOMAIN s : Gen(s[k]) # g,
           NEW t, t = After(s, q, id, Master, g),
           NEW p, p.op = q.op, p.target = q.target,
           p.before[Master] = IF q.op = "create" THEN Nothing ELSE ItemAt(s, id).val
    PROVE  Recovers(p, g, t, s)
<1>1. /\ Len(s) \in Nat /\ DOMAIN s = 1..Len(s) /\ IsSequence(s)
      /\ s = [k \in 1..Len(s) |-> s[k]]
  BY SequenceIsFunction DEF Own
<1>2. Own(Master, t)
  BY AfterIs
<1> DEFINE b == Reversed(t, p, Master, g)
<1>3. CASE q.op = "create"
  <2> DEFINE x == Item(Master, g, q.val)
  <2>1. t = Append(s, x)
    BY <1>3 DEF After
  <2>2. /\ DOMAIN Append(s, x) = 1..(Len(s) + 1) /\ \A k \in DOMAIN s : Append(s, x)[k] = s[k]
        /\ Append(s, x)[Len(s) + 1] = x
    BY AppendedIs
  <2>3. Gen(x) = g
    BY ItemIs
  <2> HIDE DEF x
  <2>4. Len(t) = Len(s) + 1
    <3>1. DOMAIN t = 1..Len(t) /\ Len(t) \in Nat
      BY <1>2, SequenceIsFunction DEF Own
    <3> QED  BY <1>1, <2>1, <2>2, <3>1, SameEnd
  <2>5. /\ (Len(s) + 1) \in DOMAIN t /\ <<Master, g>> = <<Master, Gen(t[Len(s) + 1])>>
        /\ Len(t) - 1 = Len(s)
    BY <1>1, <2>1, <2>2, <2>3, <2>4
  <2>6. b = Without(t, <<Master, g>>)
    BY <1>3 DEF Reversed
  <2>7. Closed(b, t, Len(s) + 1)
    <3>1. PICK n : n = Len(s) + 1
      OBVIOUS
    <3>2. n \in DOMAIN t /\ <<Master, g>> = <<Master, Gen(t[n])>>
      BY <2>5, <3>1
    <3>3. PICK c : c = b
      OBVIOUS
    <3> HIDE DEF b
    <3>4. Closed(c, t, n)
      BY <1>2, <2>6, <3>2, <3>3, WithoutOf
    <3> QED  BY <3>1, <3>3, <3>4
  <2> HIDE DEF b
  <2>8. b = [k \in 1..Len(s) |-> t[k]]
    <3>1. b = [k \in 1..(Len(t) - 1) |-> IF k < Len(s) + 1 THEN t[k] ELSE t[k + 1]]
      BY <2>7 DEF Closed
    <3>2. b = [k \in 1..Len(s) |-> IF k < Len(s) + 1 THEN t[k] ELSE t[k + 1]]
      BY <2>5, <3>1
    <3>3. \A k \in 1..Len(s) : k < Len(s) + 1
      BY <1>1
    <3> QED  BY <3>2, <3>3
  <2>9. b = s
    BY <1>1, <2>1, <2>2, <2>8
  <2> QED  BY <2>9 DEF Recovers, b
<1>4. CASE q.op = "update"
  <2>1. t = Update(s, id, q.patch) /\ At(s, id) # {} /\ id = q.target[Master][1]
    BY <1>4 DEF After, Accepts, Update, IdOn
  <2>2. PICK a \in DOMAIN s : id = <<Master, Gen(s[a])>>
    BY <2>1, PlaceOf
  <2>3. /\ DOMAIN t = DOMAIN s /\ \A k \in DOMAIN s : Gen(t[k]) = Gen(s[k])
        /\ \A k \in DOMAIN s : t[k].val = IF k = a THEN Patched(s[a].val, q.patch) ELSE s[k].val
    BY <2>1, <2>2, UpdatedIs
  <2>4. ItemAt(s, id) = s[a]
    BY <2>2, AtIs
  <2>5. p.before[Master] = s[a].val
    BY <1>4, <2>4
  <2> DEFINE back(v) == PatchedBack(v, p.before[Master])
  <2>6. b = [k \in DOMAIN t |-> IF t[k].id = id THEN [t[k] EXCEPT !.val = back(@)] ELSE t[k]]
    BY <1>4, <2>1 DEF Reversed
  <2>7. /\ Own(Master, b)
        /\ \A k \in DOMAIN b : \E l \in DOMAIN t : Gen(b[k]) = Gen(t[l])
    <3>1. p.op = "update"
      BY <1>4
    <3>2. p.op \in {"create", "update", "delete"} /\ p.op # "delete"
      BY <3>1
    <3>3. b = Reversed(t, p, Master, g)
      OBVIOUS
    <3> HIDE DEF b
    <3> QED  BY <1>2, <3>2, <3>3, ReversedItems
  <2> HIDE DEF b, back
  <2>8. DOMAIN b = DOMAIN s
    BY <2>3, <2>6
  <2>9. ASSUME NEW k \in DOMAIN s
        PROVE  /\ Gen(b[k]) = Gen(s[k])
               /\ k # a => b[k].val = s[k].val
    <3>1. t[k] = [id |-> <<Master, Gen(s[k])>>, val |-> t[k].val]
      BY <1>2, <2>3 DEF Own, Item
    <3>2. b[k] = t[k] \/ b[k] = [t[k] EXCEPT !.val = back(t[k].val)]
      BY <2>3, <2>6
    <3>3. b[k].id = <<Master, Gen(s[k])>>
      BY <3>1, <3>2
    <3>4. ASSUME k # a PROVE b[k].val = s[k].val
      <4>1. t[k].id # id
        <5>1. Gen(s[k]) # Gen(s[a])
          BY <3>4 DEF Own
        <5>2. <<Master, Gen(s[k])>> # <<Master, Gen(s[a])>>
          BY <5>1
        <5> QED  BY <2>2, <3>1, <5>2
      <4>2. b[k] = t[k]
        BY <2>3, <2>6, <4>1
      <4> QED  BY <2>3, <3>4, <4>2
    <3> QED  BY <3>3, <3>4 DEF Gen
  <2>10. ItemAt(b, id) = b[a]
    BY <2>2, <2>7, <2>8, <2>9, AtIs
  <2>11. CASE b[a].val = s[a].val
    <3>1. \A k \in DOMAIN s : b[k] = Item(Master, Gen(s[k]), s[k].val)
      BY <2>7, <2>8, <2>9, <2>11 DEF Own
    <3>2. \A k \in DOMAIN s : b[k] = s[k]
      BY <3>1 DEF Own
    <3>3. b = [k \in DOMAIN s |-> b[k]] /\ s = [k \in DOMAIN s |-> s[k]]
      BY <1>1, <2>3, <2>6
    <3>4. b = s
      BY <3>2, <3>3
    <3> QED  BY <3>4 DEF Recovers, b
  <2>12. CASE b[a].val # s[a].val
    <3>1. Sticks(p, Master, b)
      BY <1>4, <2>1, <2>5, <2>10, <2>12 DEF Sticks
    <3> QED  BY <3>1 DEF Recovers, b
  <2> QED  BY <2>11, <2>12
<1> QED  BY <1>3, <1>4

\* A step of a page keeps the list or marks it as stale before it forgets
\* that it missed something.
LEMMA KeptRecovers ==
    ASSUME NEW q, NEW p, Keeps(p, q), NEW g, NEW s, NEW items, Recovers(q, g, s, items)
    PROVE  Recovers(p, g, s, items)
<1>1. Reversed(s, p, Master, g) = Reversed(s, q, Master, g)
  BY DEF Keeps, Reversed
<1>2. \A t : Sticks(p, Master, t) <=> Sticks(q, Master, t)
  BY DEF Keeps, Sticks
<1> QED  BY <1>1, <1>2 DEF Recovers
LEMMA PageIsCurrent ==
    ASSUME RequestsOK, ListInv, PageStep
    PROVE  ListInv'
<1>0. /\ DOMAIN requests \subseteq DOMAIN requests' /\ conf' = conf
      /\ \A i \in DOMAIN requests : Keeps(requests'[i], requests[i])
      /\ \A i \in DOMAIN requests' \ DOMAIN requests : Arrival(requests'[i])
  BY PageKeepsAll DEF PageStep
<1>1. CASE /\ requests' = requests /\ shown' = conf[Master]
           /\ early' = {i \in DOMAIN requests : InForce(requests[i]) /\ Master \in requests[i].done}
  <2>1. \A i \in DOMAIN requests' : ~Behind(i)'
    BY <1>1 DEF Behind, InForce
  <2> QED  BY <1>0, <1>1, <2>1 DEF ListInv
<1>2. CASE RequestsGoOn /\ shown' = shown /\ early' = early /\ (~stale' => ~stale /\ NothingLearnt)
  <2> SUFFICES ASSUME Loaded', ~stale'
               PROVE  /\ (\A i \in DOMAIN requests' : Told(i)') => shown' = conf'[Master]
                      /\ \A i \in DOMAIN requests' :
                            Behind(i)' /\ OthersTold(i)' => Recovers(requests'[i], i, conf'[Master], shown')
    BY DEF ListInv, Recovers
  <2>1. Loaded /\ ~stale /\ NothingLearnt
    BY <1>2 DEF Loaded
  <2>2. \A i \in DOMAIN requests : Told(i)' => Told(i)
    BY <2>1 DEF NothingLearnt
  <2>3. ASSUME \A i \in DOMAIN requests' : Told(i)' PROVE shown' = conf'[Master]
    BY <1>0, <1>2, <2>1, <2>2, <2>3 DEF ListInv
  <2>4. ASSUME NEW i \in DOMAIN requests', Behind(i)', OthersTold(i)'
        PROVE  Recovers(requests'[i], i, conf'[Master], shown')
    <3>1. i \in DOMAIN requests
      BY <1>0, <2>4, ArrivalIs DEF Behind
    <3>2. Behind(i)
      BY <1>0, <1>2, <2>4, <3>1 DEF Behind, Keeps, Running
    <3>3. OthersTold(i)
      BY <1>0, <2>2, <2>4 DEF OthersTold
    <3>4. Recovers(requests[i], i, conf[Master], shown)
      BY <2>1, <3>1, <3>2, <3>3 DEF ListInv
    <3> QED  BY <1>0, <1>2, <3>1, <3>4, KeptRecovers
  <2> QED  BY <2>3, <2>4
<1> QED  BY <1>1, <1>2 DEF PageStep

\* The request that is served, told of or not.
LEMMA ServedIsTold ==
    ASSUME RequestsOK, GroupsOK, NEW i \in DOMAIN requests, ServeStep(i), early' = early
    PROVE  /\ Told(i) /\ Told(i)' => conf'[Master] = conf[Master]
           /\ ~Told(i) /\ Told(i)' =>
                /\ Behind(i)
                /\ LET back == Reversed(conf[Master], requests[i], Master, i)
                   IN  conf'[Master] = back /\ ~Sticks(requests[i], Master, back)
<1>1. PICK q : q = requests[i]
  OBVIOUS
<1>2. PICK p : p = requests'[i]
  OBVIOUS
<1>3. ServiceStep(i) /\ IsRequest(p) /\ Running(q) /\ q.told = "no" /\ p.told = "no"
  <2>1. ServiceStep(i) /\ IsRequest(p)
    BY <1>2, ServiceIs
  <2>2. Running(q) /\ p.told = q.told
    BY <1>1, <1>2, <2>1 DEF ServiceStep, Served
  <2> QED  BY <1>1, <2>1, <2>2 DEF RequestsOK, IsRequest
<1>4. /\ Told(i) <=> ~q.strewn /\ Master \notin q.done
      /\ Told(i)' <=> \/ Running(p) /\ ~p.strewn /\ Master \notin p.done
                      \/ p.reply = "error" /\ ~p.strewn /\ ~p.left /\ i \notin early
  BY <1>1, <1>2, <1>3 DEF Told, Running
<1>5. /\ q.op = p.op /\ (q.left => p.left)
      /\ conf = [r \in Routers |-> conf[r]] /\ ProgressOK(q) /\ Master \in Routers
  BY <1>1, <1>2, <1>3, MasterAssumption DEF ServiceStep, Served, GroupsOK, IdsOK
<1>6. ASSUME SameGroup(i), conf' = conf, p.strewn = q.strewn,
             p.reply = q.reply \/ (p.reply = "error" /\ Master \notin q.done)
      PROVE  /\ Told(i) /\ Told(i)' => conf'[Master] = conf[Master]
             /\ Told(i)' => Told(i)
  <2>1. p.done = q.done
    BY <1>1, <1>2, <1>6 DEF SameGroup
  <2> QED  BY <1>3, <1>4, <1>6, <2>1 DEF Running
<1>7. ASSUME p.strewn \/ p.reply \in {"ok", "unsaid"} PROVE ~Told(i)'
  BY <1>4, <1>7 DEF Running
<1>8. CASE LookupMaster(i)
  <2>1. conf' = conf /\ Master \in q.todo /\ SameGroup(i) /\ (RefusedNow(i) \/ StillRuns(i))
    BY <1>1, <1>8, LookupMasterIs
  <2>2. q.done = {}
    BY <1>3, <1>5, <2>1 DEF ProgressOK
  <2> QED  BY <1>1, <1>2, <1>6, <2>1, <2>2 DEF RefusedNow, StillRuns
<1>9. ASSUME NEW r \in Routers \ {Master}, LookupBackup(i, r)
      PROVE  /\ Told(i) /\ Told(i)' => conf'[Master] = conf[Master]
             /\ Told(i)' => Told(i)
  <2>1. conf' = conf /\ SameGroup(i) /\ StillRuns(i)
    BY <1>9, LookupBackupIs
  <2> QED  BY <1>1, <1>2, <1>6, <2>1 DEF StillRuns
<1>10. CASE CallFails(i)
  <2>1. conf' = conf /\ SameGroup(i) /\ RefusedNow(i) /\ (q.todo # {} \/ q.op = "move")
    BY <1>1, <1>10, CallFailsIs
  <2>2. q.done = {}
    BY <1>3, <1>5, <2>1 DEF ProgressOK
  <2> QED  BY <1>1, <1>2, <1>6, <2>1, <2>2 DEF RefusedNow
<1>11. CASE Finish(i)
  <2>1. conf' = conf /\ p.reply \in {"ok", "unsaid"}
    BY <1>1, <1>2, <1>11, FinishIs
  <2> QED  BY <1>7, <2>1
<1>12. CASE MoveEnds(i)
  <2>1. conf' = conf /\ p.reply \in {"ok", "unsaid"}
    BY <1>1, <1>2, <1>12, MoveEndsIs
  <2> QED  BY <1>7, <2>1
<1>13. ASSUME NEW r \in Routers, PostMove(i, r) PROVE ~Told(i)'
  <2>1. p.strewn
    BY <1>2, <1>13, PostMoveServes
  <2> QED  BY <1>7, <2>1
\* The turn of the master is the first.
<1>14. ASSUME NEW r \in Routers, Turn(q, r), r = Master \/ q.done = {}
       PROVE  q.done = {} /\ r = Master
  <2>1. Ready(q) /\ r \notin q.done /\ (Master \in Touched(q) \ q.done => r = Master)
    BY <1>14 DEF Turn
  <2>2. Master \in Touched(q)
    BY <1>5, <2>1, MasterTouched DEF Ready
  <2>3. q.done # {} => Master \in q.done
    BY <1>3, <1>5 DEF ProgressOK
  <2> QED  BY <1>14, <2>1, <2>2, <2>3
<1>15. ASSUME NEW r \in Routers, Apply(i, r) PROVE ~Told(i)'
  <2>1. StillRuns(i) /\ Applies(i, r, q) /\ p.done = q.done \cup {r}
    BY <1>1, <1>2, <1>15, ApplyIs
  <2>2. Turn(q, r)
    BY <2>1 DEF Applies
  <2>3. Master \in p.done
    <3>1. q.done # {} => Master \in q.done
      BY <1>3, <1>5 DEF ProgressOK
    <3> QED  BY <1>14, <2>1, <2>2, <3>1
  <2>4. p.reply = "none"
    BY <1>1, <1>2, <1>3, <2>1 DEF StillRuns, Running
  <2> QED  BY <1>4, <2>3, <2>4
<1>16. ASSUME NEW r \in Routers, ApplyFails(i, r)
       PROVE  /\ Told(i) /\ Told(i)' => conf'[Master] = conf[Master]
              /\ Told(i)' => Told(i)
  <2>1. /\ Turn(q, r) /\ p.strewn = q.strewn /\ p.done = q.done
        /\ q.done = {} => p.reply = "error"
        /\ q.done # {} => p.reply = q.reply
        /\ \/ conf' = conf
           \/ Applies(i, r, q) /\ p.left
    BY <1>1, <1>2, <1>16, ApplyFailsIs
  <2>2. CASE q.done # {}
    <3>1. Master \in q.done /\ r # Master
      BY <1>3, <1>5, <1>14, <2>1, <2>2 DEF ProgressOK
    <3> QED  BY <1>3, <1>4, <2>1, <2>2, <3>1 DEF Running
  <2>3. CASE q.done = {}
    <3>1. Told(i)' => ~p.left
      BY <1>4, <2>1, <2>3 DEF Running
    <3>2. Told(i)' => Told(i)
      BY <1>4, <2>1, <2>3 DEF Running
    <3> QED  BY <2>1, <3>1, <3>2
  <2> QED  BY <2>2, <2>3
<1>17. ASSUME NEW r \in Routers, TakeBack(i, r)
       PROVE  /\ Told(i) /\ Told(i)' => conf'[Master] = conf[Master]
              /\ ~Told(i) /\ Told(i)' =>
                   /\ Behind(i)
                   /\ LET back == Reversed(conf[Master], q, Master, i)
                      IN  conf'[Master] = back /\ ~Sticks(q, Master, back)
  <2>1. /\ q.undoing /\ r \in q.done /\ (r = Master => q.done = {Master})
        /\ p.done = q.done \ {r}
        /\ q.done = {r} => p.reply = "error"
        /\ q.done # {r} => p.reply = q.reply
        /\ \/ /\ conf' = [conf EXCEPT ![r] = Reversed(conf[r], q, r, i)]
              /\ p.left <=> q.left \/ Sticks(q, r, Reversed(conf[r], q, r, i))
              /\ p.strewn <=> q.strewn \/ q.op = "delete"
           \/ p.left
    BY <1>1, <1>2, <1>17, TakeBackIs
  <2>2. Master \in q.done /\ q.op \in {"create", "update", "delete"}
    BY <1>3, <1>5, <2>1 DEF ProgressOK
  <2>3. ~Told(i)
    BY <1>4, <2>2
  <2>4. CASE r # Master
    <3>1. Master \in p.done /\ p.reply = "none"
      BY <1>3, <2>1, <2>2, <2>4 DEF Running
    <3> QED  BY <1>4, <2>3, <3>1
  <2>5. CASE r = Master
    <3> SUFFICES ASSUME Told(i)'
                 PROVE  /\ Behind(i)
                        /\ LET back == Reversed(conf[Master], q, Master, i)
                           IN  conf'[Master] = back /\ ~Sticks(q, Master, back)
      BY <2>3
    <3>1. p.reply = "error" /\ ~p.strewn /\ ~p.left /\ i \notin early
      BY <1>4, <2>1, <2>5 DEF Running
    <3>2. /\ conf' = [conf EXCEPT ![Master] = Reversed(conf[Master], q, Master, i)]
          /\ ~q.left /\ ~Sticks(q, Master, Reversed(conf[Master], q, Master, i))
          /\ q.op # "delete"
      BY <2>1, <2>5, <3>1
    <3>3. conf'[Master] = Reversed(conf[Master], q, Master, i)
      BY <1>5, <3>2
    <3>4. Behind(i)
      BY <1>1, <1>3, <2>2, <3>1, <3>2 DEF Behind
    <3> QED  BY <3>2, <3>3, <3>4
  <2> QED  BY <2>4, <2>5
<1> QED  BY <1>1, <1>6, <1>8, <1>9, <1>10, <1>11, <1>12, <1>13, <1>15, <1>16, <1>17 DEF ServeStep

\* The service leaves what the page was told of.
LEMMA OthersStayTold ==
    ASSUME RequestsOK, NEW i \in DOMAIN requests, ServiceStep(i), early' = early,
           NEW j \in DOMAIN requests \ {i}
    PROVE  (Told(j)' <=> Told(j)) /\ (Behind(j)' <=> Behind(j)) /\ Keeps(requests'[j], requests[j])
<1>1. requests[j] = [f \in Fields |-> requests[j][f]]
  BY DEF RequestsOK, IsRequest
<1>2. requests'[j] = [requests[j] EXCEPT !.torn = requests'[j].torn]
  BY DEF ServiceStep, Bystander
<1>3. /\ requests'[j].reply = requests[j].reply /\ requests'[j].told = requests[j].told
      /\ requests'[j].strewn = requests[j].strewn /\ requests'[j].done = requests[j].done
      /\ requests'[j].left = requests[j].left /\ requests'[j].op = requests[j].op
  BY <1>1, <1>2 DEF Fields
<1> QED  BY <1>3, OthersKeep DEF Told, Behind, Running
\* While a request is in force on the master, another one only moves a rule.
LEMMA MasterIsHeld ==
    ASSUME RequestsOK, GroupsOK, NEW i \in DOMAIN requests, Behind(i),
           NEW k \in DOMAIN requests \ {i}, ServeStep(k), early' = early, Told(k)'
    PROVE  conf'[Master] = conf[Master] /\ Told(k)
<1>1. InForce(requests[i]) /\ ~InForce(requests[k])
  BY DEF Behind, InForce, GroupsOK, OneGroup
<1>2. Running(requests[k])
  BY ServiceIs DEF ServiceStep, Served
<1>3. Master \notin requests[k].done
  BY <1>1, <1>2 DEF InForce
<1>4. Told(k)
  BY <1>3, ServedIsTold DEF Behind
<1> QED  BY <1>4, ServedIsTold

\* The service changes the master by a request that was not answered to the
\* page, or takes the change back.
LEMMA ServiceIsCurrent ==
    ASSUME RequestsOK, GroupsOK, ListInv, ServeContent
    PROVE  ListInv'
<1>1. PICK i \in DOMAIN requests : ServeStep(i)
  BY DEF ServeContent, Serve
<1>2. shown' = shown /\ stale' = stale /\ early' = early
  BY DEF ServeContent, cache
<1>3. ServiceStep(i) /\ DOMAIN requests' = DOMAIN requests
  <2>1. ServiceStep(i)
    BY <1>1, ServiceIs
  <2> QED  BY <2>1 DEF ServiceStep
<1> SUFFICES ASSUME Loaded', ~stale'
             PROVE  /\ (\A j \in DOMAIN requests' : Told(j)') => shown' = conf'[Master]
                    /\ \A j \in DOMAIN requests' :
                          Behind(j)' /\ OthersTold(j)' => Recovers(requests'[j], j, conf'[Master], shown')
  BY DEF ListInv, Recovers
<1>4. Loaded /\ ~stale
  BY <1>2 DEF Loaded
<1>5. \A j \in DOMAIN requests \ {i} :
         (Told(j)' <=> Told(j)) /\ (Behind(j)' <=> Behind(j)) /\ Keeps(requests'[j], requests[j])
  BY <1>2, <1>3, OthersStayTold
<1>6. ASSUME \A j \in DOMAIN requests' : Told(j)' PROVE shown' = conf'[Master]
  <2>1. OthersTold(i) /\ Told(i)'
    BY <1>3, <1>5, <1>6 DEF OthersTold
  <2>2. CASE Told(i)
    <3>1. shown = conf[Master]
      BY <1>4, <2>1, <2>2 DEF ListInv, OthersTold
    <3> QED  BY <1>1, <1>2, <2>1, <2>2, <3>1, ServedIsTold
  <2>3. CASE ~Told(i)
    <3>1. PICK back : back = Reversed(conf[Master], requests[i], Master, i)
      OBVIOUS
    <3>2. Behind(i) /\ conf'[Master] = back /\ ~Sticks(requests[i], Master, back)
      BY <1>1, <1>2, <2>1, <2>3, <3>1, ServedIsTold
    <3>3. Recovers(requests[i], i, conf[Master], shown)
      BY <1>4, <2>1, <3>2 DEF ListInv
    <3> QED  BY <1>2, <3>1, <3>2, <3>3 DEF Recovers
  <2> QED  BY <2>2, <2>3
<1>7. ASSUME NEW j \in DOMAIN requests \ {i}, Behind(j)', OthersTold(j)'
      PROVE  Recovers(requests'[j], j, conf'[Master], shown')
  <2>1. Behind(j) /\ Told(i)'
    BY <1>3, <1>5, <1>7 DEF OthersTold
  <2>2. conf'[Master] = conf[Master] /\ Told(i)
    BY <1>1, <1>2, <2>1, MasterIsHeld
  <2>3. OthersTold(j)
    BY <1>3, <1>5, <1>7, <2>2 DEF OthersTold
  <2>4. Recovers(requests[j], j, conf[Master], shown)
    BY <1>4, <2>1, <2>3 DEF ListInv
  <2> QED  BY <1>2, <1>5, <2>2, <2>4, KeptRecovers
<1>8. ASSUME Behind(i)', OthersTold(i)'
      PROVE  Recovers(requests'[i], i, conf'[Master], shown')
  <2>1. PICK q : q = requests[i]
    OBVIOUS
  <2>2. PICK p : p = requests'[i]
    OBVIOUS
  <2>3. /\ Running(p) /\ Master \in p.done /\ p.op \in {"create", "update"} /\ ~p.left
        /\ i \notin early /\ OthersTold(i)
    BY <1>2, <1>3, <1>5, <1>8, <2>2 DEF Behind, OthersTold
  <2>4. /\ p.op = q.op /\ (q.left => p.left) /\ Running(q) /\ ProgressOK(q)
        /\ conf = [r \in Routers |-> conf[r]] /\ Master \in Routers /\ Own(Master, conf[Master])
    BY <1>3, <2>1, <2>2, MasterAssumption DEF ServiceStep, Served, GroupsOK, IdsOK
  <2>5. ASSUME Master \in q.done, p.target = q.target,
               p.before[Master] = q.before[Master], conf'[Master] = conf[Master]
        PROVE  Recovers(p, i, conf'[Master], shown')
    <3>1. Recovers(q, i, conf[Master], shown)
      BY <1>4, <2>1, <2>3, <2>4, <2>5 DEF ListInv, Behind
    <3>2. Reversed(conf[Master], p, Master, i) = Reversed(conf[Master], q, Master, i)
      BY <2>3, <2>4, <2>5 DEF Reversed
    <3>3. \A t : Sticks(p, Master, t) <=> Sticks(q, Master, t)
      BY <2>4, <2>5 DEF Sticks
    <3> QED  BY <1>2, <2>5, <3>1, <3>2, <3>3 DEF Recovers
  <2> DEFINE Goal == Recovers(p, i, conf'[Master], shown')
  <2> HIDE DEF Goal
  <2>6. ASSUME SameGroup(i), conf' = conf, SameLookups(i) \/ q.done = {}
        PROVE  Goal
    BY <2>1, <2>2, <2>3, <2>5, <2>6 DEF SameGroup, SameLookups, Goal
  <2>7. ASSUME LookupMaster(i) PROVE Goal
    <3>1. conf' = conf /\ SameGroup(i) /\ Master \in q.todo
      BY <2>1, <2>7, LookupMasterIs
    <3>2. q.done = {}
      BY <2>4, <3>1 DEF ProgressOK
    <3> QED  BY <2>6, <3>1, <3>2
  <2>8. ASSUME NEW r \in Routers \ {Master}, LookupBackup(i, r)
        PROVE  Goal
    <3>1. conf' = conf /\ SameGroup(i) /\ r \in q.todo
      BY <2>1, <2>8, LookupBackupIs
    <3> QED  BY <2>4, <2>6, <3>1 DEF ProgressOK
  <2>9. ASSUME CallFails(i) PROVE Goal
    <3>1. RefusedNow(i)
      BY <2>9, CallFailsIs
    <3> QED  BY <2>2, <2>3, <3>1 DEF RefusedNow, Running
  <2>10. ASSUME Finish(i) PROVE Goal
    <3>1. p.reply \in {"ok", "unsaid"}
      BY <2>1, <2>2, <2>10, FinishIs
    <3> QED  BY <2>3, <3>1 DEF Running
  <2>11. ASSUME MoveEnds(i) PROVE Goal
    <3>1. p.reply \in {"ok", "unsaid"}
      BY <2>1, <2>2, <2>11, MoveEndsIs
    <3> QED  BY <2>3, <3>1 DEF Running
  <2>12. ASSUME NEW r \in Routers, PostMove(i, r)
         PROVE  Goal
    <3>1. q.op = "move"
      BY <2>1, <2>12, PostMoveServes
    <3> QED  BY <2>3, <2>4, <3>1
  <2>13. ASSUME NEW r \in Routers, Apply(i, r)
         PROVE  Goal
    <3> DEFINE x == IF q.op = "create" THEN Nothing ELSE ItemAt(conf[r], IdOn(q, r)).val
    <3>1. /\ SameLookups(i) /\ Applies(i, r, q) /\ p.done = q.done \cup {r}
          /\ p.before = [q.before EXCEPT ![r] = x]
      BY <2>1, <2>2, <2>13, ApplyIs
    <3>2. p.target = q.target /\ Turn(q, r)
      BY <2>1, <2>2, <3>1 DEF SameLookups, Applies
    <3>3. q.before = [y \in Routers |-> q.before[y]]
      BY <2>4 DEF ProgressOK
    <3>4. CASE r # Master
      <4> HIDE DEF x
      <4>1. Master \in q.done /\ p.before[Master] = q.before[Master]
        BY <2>3, <2>4, <3>1, <3>3, <3>4
      <4>2. conf'[Master] = conf[Master]
        BY <2>1, <2>4, <3>1, <3>4, AppliedItems
      <4> QED  BY <2>5, <3>2, <4>1, <4>2 DEF Goal
    <3>5. CASE r = Master
      <4>1. ~q.strewn /\ Master \notin q.done
        BY <2>1, <2>4, <3>2, <3>5 DEF Turn, Ready, RequestsOK, IsRequest
      <4>2. Told(i)
        BY <2>1, <2>4, <4>1 DEF Told
      <4>3. shown = conf[Master]
        BY <1>4, <2>3, <4>2 DEF ListInv, OthersTold
      <4>4. /\ conf'[Master] = After(conf[Master], q, IdOn(q, Master), Master, i)
            /\ i \in Nat /\ \A k \in DOMAIN conf[Master] : Gen(conf[Master][k]) # i
        BY <2>1, <3>1, <3>5, AppliedItems
      <4>5. Accepts(conf[Master], q, IdOn(q, Master))
        BY <3>1, <3>5 DEF Applies
      <4>6. p.before[Master] =
              IF q.op = "create" THEN Nothing ELSE ItemAt(conf[Master], IdOn(q, Master)).val
        BY <2>4, <3>1, <3>3, <3>5
      <4>7. Recovers(p, i, conf'[Master], conf[Master])
        BY <2>3, <2>4, <3>2, <4>4, <4>5, <4>6, BackAgain
      <4> QED  BY <1>2, <4>3, <4>7 DEF Goal
    <3> QED  BY <3>4, <3>5
  <2>14. ASSUME NEW r \in Routers, ApplyFails(i, r)
         PROVE  Goal
    <3>1. /\ SameLookups(i) /\ p.done = q.done /\ p.before = q.before
          /\ conf' = conf \/ p.left
      BY <2>1, <2>2, <2>14, ApplyFailsIs
    <3> QED  BY <2>1, <2>2, <2>3, <2>5, <3>1 DEF SameLookups, Goal
  <2>15. ASSUME NEW r \in Routers, TakeBack(i, r)
         PROVE  Goal
    <3>1. /\ SameLookups(i) /\ p.done = q.done \ {r} /\ p.before = q.before
          /\ \/ conf' = [conf EXCEPT ![r] = Reversed(conf[r], q, r, i)]
             \/ conf' = conf
      BY <2>1, <2>2, <2>15, TakeBackIs
    <3>2. r # Master /\ Master \in q.done
      BY <2>3, <3>1
    <3>3. conf'[Master] = conf[Master]
      BY <2>4, <3>1, <3>2
    <3> QED  BY <2>1, <2>2, <2>5, <3>1, <3>2, <3>3 DEF SameLookups, Goal
  <2>16. Goal
    BY <1>1, <2>7, <2>8, <2>9, <2>10, <2>11, <2>12, <2>13, <2>14, <2>15 DEF ServeStep
  <2> QED  BY <2>2, <2>16 DEF Goal
<1> QED  BY <1>3, <1>6, <1>7, <1>8

\* Once it is fetched, the list is what the master has, unless something
\* happened the page was not told of (useQuery and the onSuccess of the
\* mutations), on any of the three pages and whatever others send: also when
\* groups are applied and taken back while it is shown.
THEOREM ListStaysCurrent == PagesSpec => []ListIsCurrent
<1>1. PagesInit => RequestsOK /\ GroupsOK /\ ListInv
  BY InitRequests, InitGroups DEF PagesInit, InitContent, ListInv
<1>2. RequestsOK /\ GroupsOK /\ ListInv /\ [PagesNext]_pagesVars => RequestsOK' /\ GroupsOK' /\ ListInv'
  BY NextRequests, NextGroups, PageOrService, PageIsCurrent, ServiceIsCurrent
<1>3. ListInv => ListIsCurrent
  BY DEF ListInv, ListIsCurrent
<1> QED  BY <1>1, <1>2, <1>3, PTL DEF PagesSpec

\* The scopes of the model checker are behaviours of it: with few inputs,
\* and one page at a time.
LEMMA ScopesArePages == MCSpec => PagesSpec
<1>1. MCInit => PagesInit
  <2>1. /\ DOMAIN <<Entry(blocked, p1)>> = 1..1
        /\ DOMAIN <<Entry(blocked, p1), Entry(blocked, p2)>> = 1..2
        /\ DOMAIN <<Route(p1, gw), Disabled(Route(p1, gw))>> = 1..2
        /\ DOMAIN <<Accept1, Drop2>> = 1..2
    OBVIOUS
  <2>2. 1 \in Nat /\ 2 \in Nat
    OBVIOUS
  <2> SUFFICES ASSUME MCInit PROVE \E n \in Nat : \E vals : DOMAIN vals = 1..n /\ InitContent(vals)
    BY DEF MCInit, PagesInit
  <2> DEFINE any == CASE scope = "entries" -> <<Entry(blocked, p1)>>
                      [] scope = "selection" -> <<Entry(blocked, p1), Entry(blocked, p2)>>
                      [] scope = "routes" -> <<Route(p1, gw), Disabled(Route(p1, gw))>>
                      [] OTHER -> <<Accept1, Drop2>>
  <2>3. InitContent(any)
    BY DEF MCInit
  <2>4. DOMAIN any = 1..1 \/ DOMAIN any = 1..2
    <3>1. CASE scope = "entries"
      BY <2>1, <3>1
    <3>2. CASE scope = "selection"
      BY <2>1, <3>2
    <3>3. CASE scope = "routes"
      BY <2>1, <3>3
    <3>4. CASE scope \notin {"entries", "selection", "routes"}
      BY <2>1, <3>4
    <3> QED  BY <3>1, <3>2, <3>3, <3>4
  <2> HIDE DEF any
  <2> QED  BY <2>2, <2>3, <2>4
<1>2. [MCNext]_mcVars => [PagesNext]_pagesVars
  <2>1. UNCHANGED mcVars => UNCHANGED pagesVars
    BY DEF mcVars, pagesVars
  <2>2. OtherAdministrator => \E vals, patches, ops : OtherSends(vals, patches, ops)
    BY DEF OtherAdministrator
  <2>3. MCNext => PagesNext
    BY <2>2 DEF MCNext, PagesNext
  <2> QED  BY <2>1, <2>3
<1> QED  BY <1>1, <1>2, PTL DEF MCSpec, PagesSpec

\* A set of numbers has a least one.
LEMMA LeastOf ==
    ASSUME NEW S \in SUBSET Nat, S # {}
    PROVE  \E k \in S : \A j \in S : k <= j
<1>1. PICK R : R = OpToRel(<, Nat)
  OBVIOUS
<1>2. PICK k \in S : \A j \in S : <<j, k>> \notin R
  BY <1>1, NatLessThanWellFounded, WFMin
<1>3. ASSUME NEW j \in S PROVE k <= j
  <2>1. j \in Nat /\ k \in Nat /\ <<j, k>> \notin R
    BY <1>2
  <2>2. ~(j < k)
    BY <1>1, <2>1 DEF OpToRel
  <2> QED  BY <2>1, <2>2
<1> QED  BY <1>2, <1>3



-----------------------------------------------------------------------------
(* The drawer of the address lists page.                                   *)

\* Of n numbers one has 0 below it, one has 1, and so on.
LEMMA NthOf ==
    ASSUME NEW K \in SUBSET Nat, IsFiniteSet(K), NEW n \in 1..Cardinality(K)
    PROVE  \E k \in K : Cardinality({j \in K : j < k}) = n - 1
<1> DEFINE Below(k) == {j \in K : j < k}
           Missing == {m \in Nat : m < Cardinality(K) /\ \A k \in K : Cardinality(Below(k)) # m}
<1>1. Cardinality(K) \in Nat
  BY FS_CardinalityType
<1>2. ASSUME Missing # {} PROVE FALSE
  <2>1. PICK m \in Missing : \A l \in Missing : m <= l
    <3>1. Missing \in SUBSET Nat
      OBVIOUS
    <3> HIDE DEF Missing
    <3> QED  BY <1>2, <3>1, LeastOf
  <2>2. m \in Nat /\ m < Cardinality(K) /\ \A k \in K : Cardinality(Below(k)) # m
    BY <2>1
  <2>3. CASE m = 0
    <3>1. K # {}
      <4>1. m < Cardinality(K)
        BY <2>2
      <4>2. Cardinality(K) # 0
        BY ONLY <1>1, <2>3, <4>1
      <4> QED  BY <4>2, FS_EmptySet
    <3>2. PICK k \in K : \A j \in K : k <= j
      BY <3>1, LeastOf
    <3>3. Below(k) = {}
      <4>1. ASSUME NEW j \in K PROVE ~(j < k)
        <5>1. j \in Nat /\ k \in Nat /\ k <= j
          BY <3>2
        <5> QED  BY ONLY <5>1
      <4> QED  BY <4>1
    <3>4. Cardinality(Below(k)) = 0
      BY <3>3, FS_EmptySet
    <3> QED  BY <2>2, <2>3, <3>4
  <2>4. CASE m # 0
    <3>1. m - 1 \in Nat /\ m - 1 < Cardinality(K) /\ ~(m <= m - 1)
      BY <1>1, <2>2, <2>4
    <3>2. m - 1 \notin Missing
      BY <2>1, <3>1
    <3>3. PICK k \in K : Cardinality(Below(k)) = m - 1
      BY <3>1, <3>2
    <3>4. IsFiniteSet(Below(k)) /\ k \notin Below(k)
      <4>1. Below(k) \in SUBSET K
        OBVIOUS
      <4> QED  BY <4>1, FS_Subset
    <3>5. Cardinality(Below(k) \cup {k}) = m
      <4>1. Cardinality(Below(k) \cup {k}) = Cardinality(Below(k)) + 1
        BY <3>4, FS_AddElement
      <4> QED  BY <2>2, <3>3, <4>1
    <3>6. \E j \in K : j > k
      <4>1. ASSUME \A j \in K : ~(j > k) PROVE K = Below(k) \cup {k}
        <5>1. \A j \in K : j < k \/ j = k
          BY <4>1
        <5> QED  BY <5>1
      <4> QED  BY <1>1, <2>2, <3>5, <4>1
    <3>7. PICK l \in {j \in K : j > k} : \A j \in {j \in K : j > k} : l <= j
      <4>1. {j \in K : j > k} \in SUBSET Nat /\ {j \in K : j > k} # {}
        BY <3>6
      <4> QED  BY <4>1, LeastOf
    <3>8. Below(l) = Below(k) \cup {k}
      <4>1. k < l /\ l \in Nat /\ k \in Nat /\ \A j \in K : j > k => l <= j
        BY <3>7
      <4>2. ASSUME NEW j \in K PROVE j < l <=> j < k \/ j = k
        BY <4>1
      <4> QED  BY <4>2
    <3> QED  BY <2>2, <3>5, <3>7, <3>8
  <2> QED  BY <2>3, <2>4
<1>3. n - 1 \in Nat /\ n - 1 < Cardinality(K)
  BY <1>1
<1> QED  BY <1>2, <1>3

\* parseCSV: no prefix twice, and none of the existing ones.
LEMMA ParseIs ==
    ASSUME NEW text, IsSequence(text), NEW existing, NEW s, s = ParseCSV(text, existing)
    PROVE  IsSequence(s) /\ IsInjective(s) /\ Range(s) \cap existing = {}
<1> DEFINE kept == {k \in DOMAIN text : /\ text[k] \in PrefixSet \ existing
                                        /\ \A j \in 1..(k - 1) : text[j] # text[k]}
           nth(n) == CHOOSE k \in kept : Cardinality({j \in kept : j < k}) = n - 1
<1>1. s = [n \in 1..Cardinality(kept) |-> text[nth(n)]]
  BY DEF ParseCSV
<1>2. DOMAIN text = 1..Len(text) /\ Len(text) \in Nat
  BY SequenceIsFunction
<1>3. kept \in SUBSET Nat /\ IsFiniteSet(kept) /\ Cardinality(kept) \in Nat
  <2>1. kept \in SUBSET (1..Len(text))
    BY <1>2
  <2>2. IsFiniteSet(1..Len(text))
    BY <1>2, FS_Interval
  <2> HIDE DEF kept
  <2>3. IsFiniteSet(kept)
    BY <2>1, <2>2, FS_Subset
  <2>4. kept \in SUBSET Nat
    BY <2>1
  <2> QED  BY <2>3, <2>4, FS_CardinalityType
<1>4. \A k \in kept : text[k] \notin existing
  OBVIOUS
<1>5. \A k, l \in kept : k < l => text[k] # text[l]
  <2>1. \A k, l \in kept : k < l => k \in 1..(l - 1)
    BY <1>2
  <2> QED  BY <2>1
<1> HIDE DEF kept
\* Every number is that of an entry.
<1>6. ASSUME NEW n \in 1..Cardinality(kept)
      PROVE  nth(n) \in kept /\ Cardinality({j \in kept : j < nth(n)}) = n - 1
  <2>1. \E k \in kept : Cardinality({j \in kept : j < k}) = n - 1
    BY <1>3, NthOf
  <2> QED  BY <2>1
<1> HIDE DEF nth
<1>7. IsSequence(s) /\ DOMAIN s = 1..Cardinality(kept)
  <2>1. s = [n \in 1..Cardinality(kept) |-> s[n]]
    BY <1>1
  <2> QED  BY <1>3, <2>1, FunctionIsSequence
<1>8. ASSUME NEW m \in DOMAIN s, NEW n \in DOMAIN s, s[m] = s[n] PROVE m = n
  <2>1. nth(m) \in kept /\ nth(n) \in kept /\ text[nth(m)] = text[nth(n)]
    BY <1>1, <1>6, <1>7, <1>8
  <2>2. nth(m) = nth(n)
    <3>1. nth(m) \in Nat /\ nth(n) \in Nat
      BY <1>3, <2>1
    <3>2. ~(nth(m) < nth(n)) /\ ~(nth(n) < nth(m))
      BY <1>5, <2>1
    <3> QED  BY <3>1, <3>2
  <2>3. m - 1 = n - 1
    BY <1>6, <1>7, <2>2
  <2> QED  BY <1>3, <1>7, <2>3
<1>9. Range(s) \cap existing = {}
  BY <1>1, <1>4, <1>6, <1>7 DEF Range
<1> QED  BY <1>7, <1>8, <1>9 DEF IsInjective

EntryFields == {"open", "mode", "list", "manual", "imported", "known", "saving"}
\* The drawer remembers all it has, and has nothing twice.
EntriesOK(f) ==
    f.open =>
      /\ f = [x \in EntryFields |-> f[x]]
      /\ IsSequence(f.manual) /\ IsSequence(f.imported)
      /\ IsInjective(f.manual) /\ IsInjective(f.imported)
      /\ Range(f.manual) \cap Range(f.imported) = {}
      /\ Range(f.manual) \cup Range(f.imported) \subseteq f.known

LEMMA FreshIs ==
    ASSUME NEW mode, NEW list
    PROVE  EntriesOK(FreshEntries(mode, list))
<1> DEFINE f == FreshEntries(mode, list)
<1>1. f = [x \in EntryFields |-> f[x]] /\ f.manual = <<>> /\ f.imported = <<>>
  BY DEF FreshEntries, EntryFields
<1>2. IsSequence(<<>>) /\ IsInjective(<<>>) /\ Range(<<>>) = {}
  BY DEF IsSequence, IsInjective, Range
<1> HIDE DEF f
<1> QED  BY <1>1, <1>2 DEF EntriesOK, f

\* Other entries, remembered.
LEMMA RememberedIs ==
    ASSUME NEW g, g = [x \in EntryFields |-> g[x]],
           IsSequence(g.manual), IsSequence(g.imported),
           IsInjective(g.manual), IsInjective(g.imported),
           Range(g.manual) \cap Range(g.imported) = {}
    PROVE  EntriesOK(Remembered(g))
<1> DEFINE h == Remembered(g)
<1>1. h = [g EXCEPT !.known = AllPrefixes(g)]
  BY DEF Remembered
<1>2. Range(g.manual) \cup Range(g.imported) \subseteq AllPrefixes(g)
  BY DEF AllPrefixes
<1>3. /\ h = [x \in EntryFields |-> h[x]]
      /\ h.manual = g.manual /\ h.imported = g.imported /\ h.known = AllPrefixes(g)
  BY <1>1 DEF EntryFields
<1> HIDE DEF h
<1> QED  BY <1>2, <1>3 DEF EntriesOK, h

\* The fields that say nothing about the entries.
LEMMA NamedIs ==
    ASSUME NEW f, EntriesOK(f), NEW v, NEW w
    PROVE  EntriesOK([f EXCEPT !.list = v]) /\ EntriesOK([f EXCEPT !.saving = w])
<1>1. CASE f.open
  <2>1. f = [x \in EntryFields |-> f[x]]
    BY <1>1 DEF EntriesOK
  <2> DEFINE g == [f EXCEPT !.list = v]
             h == [f EXCEPT !.saving = w]
  <2>2. /\ g = [x \in EntryFields |-> g[x]] /\ g.manual = f.manual
        /\ g.imported = f.imported /\ g.known = f.known
        /\ h = [x \in EntryFields |-> h[x]] /\ h.manual = f.manual
        /\ h.imported = f.imported /\ h.known = f.known
    BY <2>1 DEF EntryFields
  <2> HIDE DEF g, h
  <2>3. EntriesOK(g) /\ EntriesOK(h)
    BY <1>1, <2>2 DEF EntriesOK
  <2> QED  BY <2>3 DEF g, h
<1>2. CASE ~f.open
  <2>1. ~[f EXCEPT !.list = v].open /\ ~[f EXCEPT !.saving = w].open
    BY <1>2
  <2> QED  BY <2>1 DEF EntriesOK
<1> QED  BY <1>1, <1>2

\* An entry that is typed.
LEMMA AddedIs ==
    ASSUME NEW f, EntriesOK(f), f.open, NEW p, p \notin f.known
    PROVE  EntriesOK(Remembered([f EXCEPT !.manual = Append(@, p)]))
<1>1. PICK s, t, m : s = f.manual /\ t = f.imported /\ m = Append(s, p)
  OBVIOUS
<1>2. /\ IsSequence(s) /\ IsSequence(t) /\ IsInjective(s) /\ IsInjective(t)
      /\ Range(s) \cap Range(t) = {} /\ p \notin Range(s) /\ p \notin Range(t)
  BY <1>1 DEF EntriesOK
<1>3. DOMAIN s = 1..Len(s) /\ Len(s) \in Nat
  BY <1>2, SequenceIsFunction
<1>4. /\ IsSequence(m) /\ DOMAIN m = 1..(Len(s) + 1)
      /\ \A k \in 1..Len(s) : m[k] = s[k]
      /\ m[Len(s) + 1] = p
  BY <1>1, <1>2, AppendIs
<1>5. DOMAIN m = DOMAIN s \cup {Len(s) + 1}
  BY <1>3, <1>4
<1>6. IsInjective(m)
  BY <1>2, <1>3, <1>4, <1>5 DEF IsInjective, Range
<1>7. Range(m) \subseteq Range(s) \cup {p}
  BY <1>3, <1>4, <1>5 DEF Range
<1>8. PICK g : g = [f EXCEPT !.manual = Append(@, p)]
  OBVIOUS
<1>9. g = [x \in EntryFields |-> g[x]] /\ g.manual = m /\ g.imported = t
  BY <1>1, <1>8 DEF EntriesOK, EntryFields
<1>10. Range(m) \cap Range(t) = {}
  BY <1>2, <1>7
<1>11. EntriesOK(Remembered(g))
  BY <1>2, <1>4, <1>6, <1>9, <1>10, RememberedIs
<1> QED  BY <1>8, <1>11

\* One that is removed.
LEMMA RemovedIs ==
    ASSUME NEW f, EntriesOK(f), f.open, NEW a \in DOMAIN f.manual
    PROVE  EntriesOK(Remembered([f EXCEPT !.manual = RemoveAt(@, a)]))
<1>1. PICK s, t, m : s = f.manual /\ t = f.imported /\ m = RemoveAt(s, a)
  OBVIOUS
<1>2. /\ IsSequence(s) /\ IsSequence(t) /\ IsInjective(s) /\ IsInjective(t)
      /\ Range(s) \cap Range(t) = {} /\ a \in DOMAIN s
  BY <1>1 DEF EntriesOK
<1>3. DOMAIN s = 1..Len(s) /\ Len(s) \in Nat /\ Len(s) - 1 \in Nat
  BY <1>2, SequenceIsFunction
<1>4. Closed(m, s, a)
  <2>1. Closed(RemoveAt(s, a), s, a)
    BY <1>2, <1>3, RemoveAtIs DEF Closed
  <2> QED  BY <1>1, <2>1
<1>5. m = [k \in 1..(Len(s) - 1) |-> m[k]]
  BY <1>4 DEF Closed
<1>6. IsSequence(m) /\ DOMAIN m = 1..(Len(s) - 1)
  BY <1>3, <1>5, FunctionIsSequence
<1> DEFINE o(k) == IF k < a THEN k ELSE k + 1
<1>7. \A k \in DOMAIN m : o(k) \in DOMAIN s /\ m[k] = s[o(k)]
  <2>1. \A k \in 1..(Len(s) - 1) : k \in DOMAIN s /\ k + 1 \in DOMAIN s
    BY <1>3
  <2>2. \A k \in 1..(Len(s) - 1) : m[k] = IF k < a THEN s[k] ELSE s[k + 1]
    <3>1. PICK D : D = 1..(Len(s) - 1)
      OBVIOUS
    <3>2. m = [k \in D |-> IF k < a THEN s[k] ELSE s[k + 1]]
      BY <1>4, <3>1 DEF Closed
    <3>3. \A k \in D : m[k] = IF k < a THEN s[k] ELSE s[k + 1]
      BY ONLY <3>2
    <3> QED  BY <3>1, <3>3
  <2> QED  BY <1>6, <2>1, <2>2
<1>8. \A k, l \in DOMAIN m : o(k) = o(l) => k = l
  <2>1. a \in Nat /\ \A k \in DOMAIN m : k \in Nat
    BY <1>2, <1>3, <1>6
  <2>2. \A k, l \in Nat : o(k) = o(l) => k = l
    BY ONLY <2>1
  <2> QED  BY <2>1, <2>2
<1> HIDE DEF o
<1>9. IsInjective(m) /\ Range(m) \subseteq Range(s)
  BY <1>2, <1>7, <1>8 DEF IsInjective, Range
<1>10. PICK g : g = [f EXCEPT !.manual = RemoveAt(@, a)]
  OBVIOUS
<1>11. g = [x \in EntryFields |-> g[x]] /\ g.manual = m /\ g.imported = t
  BY <1>1, <1>10 DEF EntriesOK, EntryFields
<1>12. Range(m) \cap Range(t) = {}
  BY <1>2, <1>9
<1>13. EntriesOK(Remembered(g))
  BY <1>2, <1>6, <1>9, <1>11, <1>12, RememberedIs
<1> QED  BY <1>10, <1>13

\* Others that are imported.
LEMMA ImportedIs ==
    ASSUME NEW f, EntriesOK(f), f.open, NEW text \in Imports
    PROVE  EntriesOK(Remembered([f EXCEPT
              !.imported = ParseCSV(text, Existing(f) \cup Range(f.manual))]))
<1>1. PICK s, e, t : s = f.manual /\ e = Existing(f) \cup Range(s) /\ t = ParseCSV(text, e)
  OBVIOUS
<1>2. IsSequence(s) /\ IsInjective(s)
  BY <1>1 DEF EntriesOK
<1>3. IsSequence(text)
  <2>1. text \in Seq(PrefixSet \cup {BadPrefix})
    BY ImportsAssumption
  <2> QED  BY <2>1, SequenceShape DEF IsSequence
<1>4. IsSequence(t) /\ IsInjective(t) /\ Range(t) \cap e = {}
  BY <1>1, <1>3, ParseIs
<1>5. PICK g : g = [f EXCEPT !.imported = ParseCSV(text, Existing(f) \cup Range(f.manual))]
  OBVIOUS
<1>6. g = [x \in EntryFields |-> g[x]] /\ g.manual = s /\ g.imported = t
  BY <1>1, <1>5 DEF EntriesOK, EntryFields
<1>7. Range(s) \cap Range(t) = {}
  BY <1>1, <1>4
<1>8. EntriesOK(Remembered(g))
  BY <1>2, <1>4, <1>6, <1>7, RememberedIs
<1> QED  BY <1>5, <1>8

\* What the drawer does to its entries.
LEMMA DrawerEntries ==
    ASSUME EntriesOK(entryForm), EntryDrawer
    PROVE  EntriesOK(entryForm')
<1>1. ASSUME NEW p \in PrefixSet, entryForm.open, HandleAddEntry(p) PROVE EntriesOK(entryForm')
  <2>1. entryForm' = Remembered([entryForm EXCEPT !.manual = Append(@, p)])
    BY <1>1 DEF HandleAddEntry, Drawer
  <2>2. p \notin entryForm.known
    BY <1>1 DEF HandleAddEntry
  <2>3. PICK f : f = entryForm
    OBVIOUS
  <2>4. EntriesOK(Remembered([f EXCEPT !.manual = Append(@, p)]))
    BY <1>1, <2>2, <2>3, AddedIs
  <2> QED  BY <2>1, <2>3, <2>4
<1>2. CASE HandleRemoveEntry
  <2>1. entryForm.open
    BY <1>2 DEF HandleRemoveEntry
  <2>2. PICK a \in DOMAIN entryForm.manual :
          entryForm' = Remembered([entryForm EXCEPT !.manual = RemoveAt(@, a)])
    BY <1>2 DEF HandleRemoveEntry, Drawer
  <2>3. PICK f : f = entryForm
    OBVIOUS
  <2>4. EntriesOK(Remembered([f EXCEPT !.manual = RemoveAt(@, a)]))
    BY <2>1, <2>2, <2>3, RemovedIs
  <2> QED  BY <2>2, <2>3, <2>4
<1>3. CASE HandleParseImport
  <2>1. entryForm.open
    BY <1>3 DEF HandleParseImport
  <2>2. PICK text \in Imports :
          entryForm' = Remembered([entryForm EXCEPT
              !.imported = ParseCSV(text, Existing(entryForm) \cup Range(entryForm.manual))])
    BY <1>3 DEF HandleParseImport, Drawer
  <2>3. PICK f : f = entryForm
    OBVIOUS
  <2>4. EntriesOK(Remembered([f EXCEPT
              !.imported = ParseCSV(text, Existing(f) \cup Range(f.manual))]))
    BY <2>1, <2>2, <2>3, ImportedIs
  <2> QED  BY <2>2, <2>3, <2>4
<1>4. CASE TypeName
  <2>1. PICK n : entryForm' = [entryForm EXCEPT !.list = n]
    BY <1>4 DEF TypeName, Drawer
  <2>2. PICK f : f = entryForm
    OBVIOUS
  <2>3. EntriesOK([f EXCEPT !.list = n])
    BY <2>2, NamedIs
  <2> QED  BY <2>1, <2>2, <2>3
<1>5. CASE HandleSubmit
  <2>1. entryForm' = [entryForm EXCEPT !.saving = TRUE]
    BY <1>5 DEF HandleSubmit
  <2>2. PICK f : f = entryForm
    OBVIOUS
  <2>3. EntriesOK([f EXCEPT !.saving = TRUE])
    BY <2>2, NamedIs
  <2> QED  BY <2>1, <2>2, <2>3
<1>6. CASE HandleClose
  BY <1>6 DEF HandleClose, ClosedEntries, EntriesOK
<1> QED  BY <1>1, <1>2, <1>3, <1>4, <1>5, <1>6 DEF EntryDrawer

\* And the page.
LEMMA ListsEntries ==
    ASSUME EntriesOK(entryForm), ListsNext
    PROVE  EntriesOK(entryForm')
<1>1. CASE EntryDrawer
  BY <1>1, DrawerEntries
<1>2. ASSUME NEW b, SubmitEnds(b) PROVE EntriesOK(entryForm')
  <2>1. \/ entryForm' = entryForm
        \/ entryForm' = ClosedEntries
        \/ entryForm' = [entryForm EXCEPT !.saving = FALSE]
    BY <1>2 DEF SubmitEnds
  <2>2. PICK f : f = entryForm
    OBVIOUS
  <2>3. EntriesOK([f EXCEPT !.saving = FALSE])
    BY <2>2, NamedIs
  <2>4. EntriesOK(ClosedEntries)
    BY DEF ClosedEntries, EntriesOK
  <2> QED  BY <2>1, <2>2, <2>3, <2>4
<1>3. ASSUME NEW mode, NEW list, OpenEntries(mode, list) PROVE EntriesOK(entryForm')
  <2>1. entryForm' = FreshEntries(mode, list)
    BY <1>3 DEF OpenEntries
  <2> QED  BY <2>1, FreshIs
<1>4. CASE AddAddressList
  BY <1>3, <1>4 DEF AddAddressList
<1>5. ASSUME NEW list, AddressListGroup(list) PROVE EntriesOK(entryForm')
  <2>1. CASE OpenEntries("add", list)
    BY <1>3, <2>1
  <2>2. CASE ToggleList(list)
    BY <2>2 DEF ToggleList
  <2>3. CASE HandleSelectAll(list)
    BY <2>3 DEF HandleSelectAll, Select
  <2>4. CASE HandleSelectEntry(list)
    BY <2>4 DEF HandleSelectEntry, Select
  <2>5. CASE HandleDeleteEntries(list)
    BY <2>5 DEF HandleDeleteEntries
  <2> QED  BY <1>5, <2>1, <2>2, <2>3, <2>4, <2>5 DEF AddressListGroup
<1>6. CASE Groups
  BY <1>5, <1>6 DEF Groups
<1>7. ASSUME NEW b, SendNext(b) \/ DeleteEnds(b)
      PROVE  EntriesOK(entryForm')
  BY <1>7 DEF SendNext, DeleteEnds
<1>8. ASSUME NEW i, AnswerEntry(i) PROVE EntriesOK(entryForm')
  BY <1>8 DEF AnswerEntry
<1>9. CASE FetchLists \/ ChangeLists
  BY <1>9 DEF FetchLists, ChangeLists
<1> QED  BY <1>1, <1>2, <1>4, <1>6, <1>7, <1>8, <1>9 DEF ListsNext

\* Entries with nothing twice in either part and nothing in both.
LEMMA EntriesDistinct ==
    ASSUME NEW f, EntriesOK(f), f.open
    PROVE  IsInjective(ToSend(f))
<1>1. PICK s, t, u : s = f.manual /\ t = f.imported /\ u = s \o t
  OBVIOUS
<1>2. /\ IsSequence(s) /\ IsSequence(t) /\ IsInjective(s) /\ IsInjective(t)
      /\ Range(s) \cap Range(t) = {}
  BY <1>1 DEF EntriesOK
<1>3. PICK m, n : m = Len(s) /\ n = Len(t)
  OBVIOUS
<1>4. /\ DOMAIN s = 1..m /\ m \in Nat
      /\ DOMAIN t = 1..n /\ n \in Nat
  BY <1>2, <1>3, SequenceIsFunction
<1>5. DOMAIN u = 1..(m + n) /\ \A k \in 1..(m + n) : u[k] = IF k <= m THEN s[k] ELSE t[k - m]
  <2>1. /\ DOMAIN (s \o t) = 1..(m + n)
        /\ \A k \in 1..(m + n) : (s \o t)[k] = IF k <= m THEN s[k] ELSE t[k - m]
    BY <1>2, <1>3, ConcatIs
  <2>2. u = s \o t
    BY <1>1
  <2> QED  BY ONLY <2>1, <2>2
<1>6. \A k \in DOMAIN u : \/ k <= m /\ k \in DOMAIN s /\ u[k] = s[k]
                          \/ ~(k <= m) /\ k - m \in DOMAIN t /\ u[k] = t[k - m]
  <2>1. \A k \in 1..(m + n) : \/ k <= m /\ k \in 1..m
                              \/ ~(k <= m) /\ k - m \in 1..n
    <3>1. m \in Nat /\ n \in Nat
      BY <1>4
    <3> QED  BY ONLY <3>1
  <2> QED  BY <1>4, <1>5, <2>1
<1>7. \A k \in DOMAIN s, l \in DOMAIN t : s[k] # t[l]
  BY <1>2 DEF Range
<1>8. ASSUME NEW k \in DOMAIN u, NEW l \in DOMAIN u, u[k] = u[l] PROVE k = l
  <2>1. CASE k <= m /\ l <= m
    <3>1. k \in DOMAIN s /\ l \in DOMAIN s /\ s[k] = s[l]
      BY <1>6, <1>8, <2>1
    <3> QED  BY <1>2, <3>1 DEF IsInjective
  <2>2. CASE ~(k <= m) /\ ~(l <= m)
    <3>1. k - m \in DOMAIN t /\ l - m \in DOMAIN t /\ t[k - m] = t[l - m]
      BY <1>6, <1>8, <2>2
    <3>2. k - m = l - m
      BY <1>2, <3>1 DEF IsInjective
    <3>3. k \in Int /\ l \in Int
      BY <1>4, <1>5
    <3> QED  BY ONLY <1>4, <3>2, <3>3
  <2>3. CASE ~((k <= m) <=> (l <= m))
    BY <1>6, <1>7, <1>8, <2>3
  <2> QED  BY <2>1, <2>2, <2>3
<1>9. IsInjective(u)
  BY <1>8 DEF IsInjective
<1> QED  BY <1>1, <1>9 DEF ToSend

\* What is sent for the drawer of the address lists page names no prefix
\* twice (handleAddEntry's memo and parseCSV's own check, of whatever text
\* is imported and whatever the list has become since).
THEOREM EntriesStayDistinct == PagesSpec => []FormEntriesDistinct
<1>1. PagesInit => EntriesOK(entryForm)
  BY DEF PagesInit, InitLists, ClosedEntries, EntriesOK
<1>2. EntriesOK(entryForm) /\ [PagesNext]_pagesVars => EntriesOK(entryForm)'
  <2> SUFFICES ASSUME EntriesOK(entryForm), [PagesNext]_pagesVars PROVE EntriesOK(entryForm')
    BY DEF EntriesOK
  <2>1. ListsNext \/ entryForm' = entryForm
    BY DEF PagesNext, pagesVars, listsVars
  <2> QED  BY <2>1, ListsEntries
<1>3. EntriesOK(entryForm) => FormEntriesDistinct
  BY EntriesDistinct DEF FormEntriesDistinct
<1> QED  BY <1>1, <1>2, <1>3, PTL DEF PagesSpec

-----------------------------------------------------------------------------
(* The text that is sent.                                                  *)

\* What is sent now is valid, unless another administrator sends it.
NewValid ==
    \A i \in DOMAIN requests' \ DOMAIN requests :
        requests'[i].by # "other" => ValidText(requests'[i])

\* One request, and none.
LEMMA SendValid ==
    ASSUME RequestsOK, NEW op, NEW names, NEW val, NEW patch, NEW by,
           Send(op, names, val, patch, by),
           \A f \in DOMAIN patch : f \in AddressFields \/ by = "cell" => patch[f] # Bad,
           op = "create" => \A f \in AddressFields \cap DOMAIN val : val[f] # Bad
    PROVE  NewValid
<1>1. PICK q : q = Request(op, names, val, patch, by)
  OBVIOUS
<1>2. q.op = op /\ q.val = val /\ q.patch = patch /\ q.by = by
  BY <1>1 DEF Request
<1>3. ValidText(q)
  BY <1>2 DEF ValidText
<1>4. requests' = Append(requests, q)
  BY <1>1 DEF Send, Arrive
<1>5. Len(requests) \in Nat /\ DOMAIN requests = 1..Len(requests) /\ IsSequence(requests)
  BY SequenceIsFunction DEF RequestsOK
<1>6. DOMAIN requests' = 1..(Len(requests) + 1) /\ requests'[Len(requests) + 1] = q
  BY <1>4, <1>5, AppendIs
<1>7. \A i \in DOMAIN requests' \ DOMAIN requests : i = Len(requests) + 1
  BY <1>5, <1>6
<1> QED  BY <1>3, <1>6, <1>7 DEF NewValid
LEMMA NoneValid ==
    ASSUME DOMAIN requests' = DOMAIN requests
    PROVE  NewValid
BY DEF NewValid
LEMMA OthersValid ==
    ASSUME RequestsOK, NEW op, NEW names, NEW val, NEW patch, Send(op, names, val, patch, "other")
    PROVE  NewValid
<1>1. PICK q : q = Request(op, names, val, patch, "other")
  OBVIOUS
<1>2. q.by = "other"
  BY <1>1 DEF Request
<1>3. requests' = Append(requests, q)
  BY <1>1 DEF Send, Arrive
<1>4. Len(requests) \in Nat /\ DOMAIN requests = 1..Len(requests) /\ IsSequence(requests)
  BY SequenceIsFunction DEF RequestsOK
<1>5. DOMAIN requests' = 1..(Len(requests) + 1) /\ requests'[Len(requests) + 1] = q
  BY <1>3, <1>4, AppendIs
<1>6. \A i \in DOMAIN requests' \ DOMAIN requests : i = Len(requests) + 1
  BY <1>4, <1>5
<1> QED  BY <1>2, <1>5, <1>6 DEF NewValid

\* A patch of one field, or of none.
LEMMA SetFieldIs ==
    ASSUME NEW field, NEW v
    PROVE  \A f \in DOMAIN SetField(field, v) : SetField(field, v)[f] = v
BY DEF SetField

\* A cell whose edit ends.
LEMMA CellValid ==
    ASSUME RequestsOK, NEW r, NEW patch, \A f \in DOMAIN patch : patch[f] # Bad,
           OnUpdate(r, patch) \/ Keep
    PROVE  NewValid
<1>1. CASE Keep
  BY <1>1, NoneValid DEF Keep, contentVars
<1>2. CASE OnUpdate(r, patch)
  BY <1>2, SendValid DEF OnUpdate
<1> QED  BY <1>1, <1>2
LEMMA AddressCellValid ==
    ASSUME RequestsOK, NEW r, NEW addr, NEW list, AddressCell(r, addr, list)
    PROVE  NewValid
<1> DEFINE patch == AddressPatch(addr, list, cell.value)
<1>1. \A f \in DOMAIN patch : patch[f] = cell.value
  BY SetFieldIs DEF AddressPatch
<1>2. Keep \/ (cell.value # Bad /\ OnUpdate(r, patch))
  BY DEF AddressCell, Save, ValidAddress
<1> HIDE DEF patch
<1>3. CASE Keep
  BY <1>3, NoneValid DEF Keep, contentVars
<1> QED  BY <1>1, <1>2, <1>3, CellValid
LEMMA PortCellValid ==
    ASSUME RequestsOK, NEW r, NEW port, PortCell(r, port)
    PROVE  NewValid
<1> DEFINE patch == SetField(port, cell.value)
<1>1. \A f \in DOMAIN patch : patch[f] = cell.value
  BY SetFieldIs
<1>2. Keep \/ (cell.value # Bad /\ OnUpdate(r, patch))
  BY DEF PortCell, Save
<1> HIDE DEF patch
<1>3. CASE Keep
  BY <1>3, NoneValid DEF Keep, contentVars
<1> QED  BY <1>1, <1>2, <1>3, CellValid
LEMMA ChoiceCellValid ==
    ASSUME RequestsOK, NEW r, NEW field, NEW sent, ChoiceCell(r, field, sent),
           \A patch \in sent : \A f \in DOMAIN patch : patch[f] # Bad
    PROVE  NewValid
<1>1. CASE Keep
  BY <1>1, NoneValid DEF Keep, contentVars
<1>2. Keep \/ \E patch \in sent : OnUpdate(r, patch)
  BY DEF ChoiceCell
<1> QED  BY <1>1, <1>2, CellValid
\* A choice among values that are not bad.
LEMMA ChoicesValid ==
    ASSUME RequestsOK, NEW r, NEW field, NEW S, Bad \notin S,
           ChoiceCell(r, field, {SetField(field, v) : v \in S})
    PROVE  NewValid
<1>1. PICK sent : sent = {SetField(field, v) : v \in S}
  OBVIOUS
<1>2. \A patch \in sent : \A f \in DOMAIN patch : patch[f] # Bad
  BY <1>1, SetFieldIs
<1>3. ChoiceCell(r, field, sent)
  BY <1>1
<1> QED  BY <1>2, <1>3, ChoiceCellValid
LEMMA EditCellsValid ==
    ASSUME RequestsOK, NEW r, EditCells(r)
    PROVE  NewValid
<1>1. CASE SourceCell(r) \/ DestinationCell(r)
  BY <1>1, AddressCellValid DEF SourceCell, DestinationCell
<1>2. CASE SourcePortCell(r) \/ DestinationPortCell(r)
  BY <1>2, PortCellValid DEF SourcePortCell, DestinationPortCell
<1>3. CASE ProtocolCell(r)
  <2>1. Bad \notin (PortProtocols \cup OtherProtocols \cup {Nothing}) \ {r.val.protocol}
    BY BadAssumption
  <2> QED  BY <1>3, <2>1, ChoicesValid DEF ProtocolCell
<1>4. CASE InInterfaceCell(r) \/ OutInterfaceCell(r)
  <2>1. Bad \notin Interfaces \cup {Nothing}
    BY BadAssumption
  <2> QED  BY <1>4, <2>1, ChoicesValid DEF InInterfaceCell, OutInterfaceCell
<1>5. CASE ConnStateCell(r)
  <2>1. DOMAIN <<>> = {}
    OBVIOUS
  <2>2. CASE ChoiceCell(r, "connectionState", {<<>>})
    BY <2>1, <2>2, ChoiceCellValid
  <2>3. CASE Send("refused", <<>>, Nothing, <<>>, "cell")
    BY <2>1, <2>3, SendValid
  <2> QED  BY <1>5, <2>2, <2>3 DEF ConnStateCell
<1>6. CASE ActionCell(r)
  <2>1. PICK sent : sent = {[action |-> a] : a \in Actions \ {r.val.action}}
    OBVIOUS
  <2>2. \A patch \in sent : \A f \in DOMAIN patch : patch[f] # Bad
    <3>1. \A a \in Actions : a # Bad
      BY BadAssumption
    <3> QED  BY <2>1, <3>1
  <2>3. ChoiceCell(r, "action", sent)
    BY <1>6, <2>1 DEF ActionCell
  <2> QED  BY <2>2, <2>3, ChoiceCellValid
<1> QED  BY <1>1, <1>2, <1>3, <1>4, <1>5, <1>6 DEF EditCells

\* handleSubmit of the drawer.
LEMMA DataIsValid ==
    ASSUME NEW f, ValidAddress(f.src), ValidAddress(f.dst), NEW p, p = RuleData(f),
           NEW c, NEW v, v = Rule(Merged([chain |-> c], p))
    PROVE  /\ \A x \in DOMAIN p : x \in AddressFields => p[x] # Bad
           /\ \A x \in AddressFields \cap DOMAIN v : v[x] # Bad
<1> DEFINE list(w) == IF w \in ListNames THEN w ELSE Nothing
           addr(w) == IF w \in ListNames THEN Nothing ELSE w
           port(w) == IF PortsEnabled(f) THEN w ELSE Nothing
           data == [action |-> f.action, disabled |-> f.disabled, protocol |-> f.protocol,
                    srcAddress |-> addr(f.src), srcAddressList |-> list(f.src),
                    dstAddress |-> addr(f.dst), dstAddressList |-> list(f.dst),
                    srcPort |-> port(f.srcPort), dstPort |-> port(f.dstPort),
                    inInterface |-> f.inInterface, outInterface |-> f.outInterface,
                    connectionState |-> f.connectionState]
<1>1. p = [x \in {x \in DOMAIN data : data[x] # Nothing} |-> data[x]]
  BY DEF RuleData
<1>2. \A x \in AddressFields : data[x] # Bad
  <2>1. f.src # Bad /\ f.dst # Bad /\ Nothing # Bad
    BY BadAssumption DEF ValidAddress
  <2>2. \A w : w # Bad => list(w) # Bad /\ addr(w) # Bad
    BY <2>1
  <2> HIDE DEF list, addr, port
  <2> QED  BY <2>1, <2>2 DEF AddressFields
<1> HIDE DEF data
<1>3. \A x \in DOMAIN p : x \in AddressFields => p[x] # Bad
  BY <1>1, <1>2
<1>4. PICK a, b, d, e, n : /\ a = [kind |-> "rule"] /\ b = [chain |-> c]
                           /\ n = [x \in Optional |-> Nothing]
                           /\ d = Merged(b, p) /\ e = Merged(d, n)
  OBVIOUS
<1>5. v = Merged(a, e)
  BY <1>4 DEF Rule
<1>6. /\ DOMAIN d = DOMAIN b \cup DOMAIN p /\ DOMAIN e = DOMAIN d \cup DOMAIN n
      /\ DOMAIN v = DOMAIN a \cup DOMAIN e
      /\ \A x \in DOMAIN d : d[x] = IF x \in DOMAIN b THEN b[x] ELSE p[x]
      /\ \A x \in DOMAIN e : e[x] = IF x \in DOMAIN d THEN d[x] ELSE n[x]
      /\ \A x \in DOMAIN v : v[x] = IF x \in DOMAIN a THEN a[x] ELSE e[x]
  BY <1>4, <1>5 DEF Merged
<1>7. \A x \in AddressFields : x \notin DOMAIN a /\ x \notin DOMAIN b
  BY <1>4 DEF AddressFields
<1>8. \A x \in DOMAIN n : n[x] # Bad
  BY <1>4, BadAssumption
<1> QED  BY <1>3, <1>6, <1>7, <1>8
LEMMA SubmitValid ==
    ASSUME RequestsOK, SubmitForm
    PROVE  NewValid
<1>1. PICK f, p, v : f = ruleForm /\ p = RuleData(f) /\ v = Rule(Merged([chain |-> tab], p))
  OBVIOUS
<1>2. ValidAddress(f.src) /\ ValidAddress(f.dst)
  BY <1>1 DEF SubmitForm
<1>3. /\ \A x \in DOMAIN p : x \in AddressFields => p[x] # Bad
      /\ \A x \in AddressFields \cap DOMAIN v : v[x] # Bad
  BY <1>1, <1>2, DataIsValid
<1>4. \/ Send("create", <<>>, v, <<>>, "form")
      \/ \E id : Send("update", <<id>>, Nothing, p, "form")
  BY <1>1 DEF SubmitForm
<1>5. DOMAIN <<>> = {} /\ "form" # "cell" /\ "update" # "create"
  OBVIOUS
<1> QED  BY <1>3, <1>4, <1>5, SendValid

\* The pages.
LEMMA FirewallValid ==
    ASSUME RequestsOK, FirewallNext
    PROVE  NewValid
<1>0. DOMAIN <<>> = {}
  OBVIOUS
<1>1. CASE requests' = requests
  BY <1>1, NoneValid
<1>2. ASSUME NEW r, EditCells(r) PROVE NewValid
  BY <1>2, EditCellsValid
<1>3. ASSUME NEW r, NEW over, DragRule(r, over) PROVE NewValid
  BY <1>0, <1>3, SendValid DEF DragRule
<1>4. CASE SubmitForm
  BY <1>4, SubmitValid
<1>5. CASE ConfirmDeleteRule
  <2>1. CASE Send("delete", <<ruleAsk.id>>, Nothing, <<>>, "delete")
    BY <1>0, <2>1, SendValid
  <2> QED  BY <1>1, <1>5, <2>1 DEF ConfirmDeleteRule, contentVars
<1>6. ASSUME NEW i \in DOMAIN requests, AnswerRule(i) PROVE NewValid
  BY <1>6, NoneValid DEF AnswerRule, Take
<1>7. TableOfRules => (requests' = requests \/ \E r : EditCells(r) \/ \E over : DragRule(r, over))
  BY DEF TableOfRules, SortableRow, ShowRule, OpenRuleForm, AskDeleteRule, contentVars
<1>8. FirewallDetail \/ AddRule \/ SelectTab \/ TypeInForm \/ CloseForm => requests' = requests
  BY DEF FirewallDetail, AddRule, ShowRule, OpenRuleForm, AskDeleteRule, SelectTab, TypeInForm,
         CloseForm, contentVars
<1>9. FetchRules \/ ChangeCluster => requests' = requests
  BY DEF FetchRules, Fetch, ChangeCluster, serviceVars
<1> QED  BY <1>1, <1>2, <1>3, <1>4, <1>5, <1>6, <1>7, <1>8, <1>9 DEF FirewallNext

LEMMA DeleteEntriesValid ==
    ASSUME RequestsOK, NEW list, HandleDeleteEntries(list)
    PROVE  NewValid
<1>1. PICK s, n : s = requests /\ n = Len(s)
  OBVIOUS
<1>2. n \in Nat /\ DOMAIN s = 1..n /\ IsSequence(s)
  BY <1>1, SequenceIsFunction DEF RequestsOK
<1>3. PICK m \in 1..(MaxRequests - n) : \E ids :
         requests' = s \o [k \in 1..m |-> Request("delete", <<ids[k]>>, Nothing, <<>>, "page")]
  BY <1>1 DEF HandleDeleteEntries
<1>4. m \in Nat
  BY <1>2, <1>3, MasterAssumption
<1>5. PICK t, ids :
         /\ requests' = s \o t
         /\ t = [k \in 1..m |-> Request("delete", <<ids[k]>>, Nothing, <<>>, "page")]
  BY <1>3
<1>6. \A k \in 1..m : ValidText(t[k])
  <2>1. DOMAIN <<>> = {} /\ "delete" # "create"
    OBVIOUS
  <2> QED  BY <1>5, <2>1 DEF ValidText, Request
<1>7. IsSequence(t) /\ Len(t) = m
  <2>1. t = [k \in 1..m |-> t[k]]
    BY <1>5
  <2> QED  BY <1>4, <2>1, FunctionIsSequence
<1>8. /\ DOMAIN (s \o t) = 1..(n + m)
      /\ \A k \in 1..(n + m) : (s \o t)[k] = IF k <= n THEN s[k] ELSE t[k - n]
  <2>1. Len(s) = n /\ IsSequence(s) /\ IsSequence(t) /\ Len(t) = m
    BY <1>1, <1>2, <1>7
  <2> QED  BY ONLY <2>1, ConcatIs
<1>9. ASSUME NEW i \in DOMAIN requests' \ DOMAIN requests PROVE ValidText(requests'[i])
  <2>1. requests' = s \o t
    BY <1>5
  <2>2. i \in 1..(n + m) /\ i \notin 1..n /\ requests'[i] = IF i <= n THEN s[i] ELSE t[i - n]
    BY <1>1, <1>2, <1>8, <2>1
  <2>3. ~(i <= n) /\ i - n \in 1..m
    BY <1>2, <1>4, <2>2
  <2> QED  BY <1>6, <2>2, <2>3
<1> QED  BY <1>9 DEF NewValid
LEMMA ListsValid ==
    ASSUME RequestsOK, ListsNext
    PROVE  NewValid
<1>1. CASE requests' = requests
  BY <1>1, NoneValid
<1>2. ASSUME NEW list, AddressListGroup(list) PROVE NewValid
  <2>1. HandleDeleteEntries(list) \/ requests' = requests
    BY <1>2 DEF AddressListGroup, ToggleList, HandleSelectAll, HandleSelectEntry, Select, OpenEntries,
       contentVars
  <2> QED  BY <1>1, <2>1, DeleteEntriesValid
<1>3. ASSUME NEW b, SendNext(b) PROVE NewValid
  <2>1. PICK v : v = Entry(batches[b].list, Head(batches[b].todo))
    OBVIOUS
  <2>2. Send("create", <<>>, v, <<>>, "page")
    BY <1>3, <2>1 DEF SendNext
  <2>3. AddressFields \cap DOMAIN v = {} /\ DOMAIN <<>> = {}
    BY <2>1 DEF Entry, AddressFields
  <2> QED  BY <2>2, <2>3, SendValid
<1>4. ASSUME NEW b, DeleteEnds(b) PROVE NewValid
  BY <1>4, NoneValid DEF DeleteEnds
<1>5. ASSUME NEW i \in DOMAIN requests, AnswerEntry(i) PROVE NewValid
  BY <1>5, NoneValid DEF AnswerEntry, Take
<1>6. FetchLists \/ ChangeLists \/ HandleSubmit => requests' = requests
  BY DEF FetchLists, Fetch, ChangeLists, HandleSubmit, serviceVars
<1>7. AddAddressList => requests' = requests
  BY DEF AddAddressList, OpenEntries, contentVars
<1>8. ASSUME NEW b, SubmitEnds(b) PROVE requests' = requests
  BY <1>8 DEF SubmitEnds, contentVars
<1>9. EntryDrawer => requests' = requests
  <2>1. ASSUME NEW p, HandleAddEntry(p) PROVE requests' = requests
    BY <2>1 DEF HandleAddEntry, Drawer, contentVars
  <2>2. HandleRemoveEntry \/ HandleParseImport => requests' = requests
    BY DEF HandleRemoveEntry, HandleParseImport, Drawer, contentVars
  <2>3. TypeName \/ HandleClose => requests' = requests
    BY DEF TypeName, Drawer, HandleClose, contentVars
  <2> QED  BY <1>6, <2>1, <2>2, <2>3 DEF EntryDrawer
<1> QED  BY <1>1, <1>2, <1>3, <1>4, <1>5, <1>6, <1>7, <1>8, <1>9 DEF ListsNext, Groups
LEMMA RoutesValid ==
    ASSUME RequestsOK, RoutesNext
    PROVE  NewValid
<1>1. CASE requests' = requests
  BY <1>1, NoneValid
<1>2. CASE SubmitRoute
  <2>1. PICK v : v = Route(routeForm.destination, routeForm.gateway)
    OBVIOUS
  <2>2. Send("create", <<>>, v, <<>>, "page")
    BY <1>2, <2>1 DEF SubmitRoute
  <2>3. AddressFields \cap DOMAIN v = {} /\ DOMAIN <<>> = {}
    BY <2>1 DEF Route, AddressFields
  <2> QED  BY <2>2, <2>3, SendValid
<1>3. ASSUME NEW i \in DOMAIN requests, AnswerRoute(i) PROVE NewValid
  BY <1>3, NoneValid DEF AnswerRoute, Take
<1>4. FetchRoutes \/ ChangeRoutes => requests' = requests
  BY DEF FetchRoutes, Fetch, ChangeRoutes, serviceVars
<1>5. OpenRoute \/ TypeInRoute \/ CloseRoute \/ ShowRoute \/ CloseDetail => requests' = requests
  BY DEF OpenRoute, TypeInRoute, CloseRoute, ShowRoute, CloseDetail, contentVars
<1> QED  BY <1>1, <1>2, <1>3, <1>4, <1>5 DEF RoutesNext

\* Whatever happens.
LEMMA NextValid ==
    ASSUME RequestsOK, [PagesNext]_pagesVars
    PROVE  NewValid
<1>1. CASE UNCHANGED pagesVars
  BY <1>1, NoneValid DEF pagesVars, contentVars
<1>2. CASE ServeContent
  <2>1. PICK i \in DOMAIN requests : ServeStep(i)
    BY <1>2 DEF ServeContent, Serve
  <2>2. DOMAIN requests' = DOMAIN requests
    BY <2>1, ServiceIs DEF ServiceStep
  <2> QED  BY <2>2, NoneValid
<1>3. ASSUME NEW vals, NEW patches, NEW ops, OtherSends(vals, patches, ops) PROVE NewValid
  BY <1>3, OthersValid DEF OtherSends
<1> QED  BY <1>1, <1>2, <1>3, FirewallValid, ListsValid, RoutesValid DEF PagesNext

\* What was sent stays what it is.
SameText(p, q) == p.by = q.by /\ p.op = q.op /\ p.patch = q.patch /\ p.val = q.val
LEMMA TextStays ==
    ASSUME RequestsOK, [PagesNext]_pagesVars
    PROVE  \A i \in DOMAIN requests : SameText(requests'[i], requests[i])
<1> SUFFICES ASSUME NEW i \in DOMAIN requests PROVE SameText(requests'[i], requests[i])
  OBVIOUS
<1>1. requests[i] = [f \in Fields |-> requests[i][f]]
  BY DEF RequestsOK, IsRequest
<1>2. PICK q : q = requests[i]
  OBVIOUS
<1>3. \A t, u : /\ SameText([q EXCEPT !.told = t], q)
                /\ SameText([q EXCEPT !.torn = u], q)
  BY <1>1, <1>2 DEF SameText, Fields
<1>4. CASE PageStep
  <2>1. CASE requests' = requests
    BY <2>1 DEF SameText
  <2>2. CASE RequestsGoOn
    <3>1. requests'[i] = [q EXCEPT !.told = requests'[i].told]
      BY <1>2, <2>2 DEF RequestsGoOn
    <3> QED  BY <1>2, <1>3, <3>1
  <2> QED  BY <1>4, <2>1, <2>2 DEF PageStep
<1>5. CASE ServeContent
  <2>1. PICK j \in DOMAIN requests : ServeStep(j)
    BY <1>5 DEF ServeContent, Serve
  <2>2. ServiceStep(j)
    BY <2>1, ServiceIs
  <2>3. CASE i = j
    BY <2>2, <2>3 DEF ServiceStep, Served, SameText
  <2>4. CASE i # j
    <3>1. requests'[i] = [q EXCEPT !.torn = requests'[i].torn]
      BY <1>2, <2>2, <2>4 DEF ServiceStep, Bystander
    <3> QED  BY <1>2, <1>3, <3>1
  <2> QED  BY <2>3, <2>4
<1> QED  BY <1>4, <1>5, PageOrService

\* No text that is neither an address nor a list is sent for an address, by
\* a cell however it was left (validateAddress in saveSource and saveDest,
\* also when Escape blurs the cell) nor by the drawer (handleSubmit), and no
\* text that is no port by a cell (validatePort).
THEOREM SentTextStaysValid == PagesSpec => []SentTextIsValid
<1>1. PagesInit => RequestsOK /\ SentTextIsValid
  BY InitRequests DEF PagesInit, InitContent, SentTextIsValid
<1>2. RequestsOK /\ SentTextIsValid /\ [PagesNext]_pagesVars => RequestsOK' /\ SentTextIsValid'
  <2> SUFFICES ASSUME RequestsOK, SentTextIsValid, [PagesNext]_pagesVars,
                      NEW i \in DOMAIN requests', requests'[i].by # "other"
               PROVE  ValidText(requests'[i])
    BY NextRequests DEF SentTextIsValid, ValidText
  <2>1. CASE i \in DOMAIN requests
    <3>1. SameText(requests'[i], requests[i])
      BY <2>1, TextStays
    <3>2. ValidText(requests[i])
      BY <2>1, <3>1 DEF SentTextIsValid, SameText
    <3> QED  BY <3>1, <3>2 DEF ValidText, SameText
  <2>2. CASE i \notin DOMAIN requests
    BY <2>2, NextValid DEF NewValid
  <2> QED  BY <2>1, <2>2
<1> QED  BY <1>1, <1>2, PTL DEF PagesSpec

-----------------------------------------------------------------------------
(* The types of the pages.                                                 *)

\* What is open on the firewall page, and its cell.
CellFields == {"id", "field", "value", "error"}
SoundCell(c) ==
    c # NoCell => c = [f \in CellFields |-> c[f]] /\ (c.error => c.value = Bad)
FirewallInv ==
    /\ tab \in Chains
    /\ ruleForm.open => ruleDetail = None /\ ruleAsk = None
    /\ ruleDetail # None => ruleAsk = None
    /\ SoundCell(cell)

LEMMA CellIs ==
    ASSUME NEW c, SoundCell(c), c # NoCell, NEW v
    PROVE  /\ SoundCell([c EXCEPT !.value = v, !.error = FALSE])
           /\ c.value = Bad => SoundCell([c EXCEPT !.error = TRUE])
<1>1. c = [f \in CellFields |-> c[f]]
  BY DEF SoundCell
<1>2. PICK d, e : d = [c EXCEPT !.value = v, !.error = FALSE] /\ e = [c EXCEPT !.error = TRUE]
  OBVIOUS
<1>3. d = [f \in CellFields |-> d[f]] /\ ~d.error
  BY <1>1, <1>2 DEF CellFields
<1>4. e = [f \in CellFields |-> e[f]] /\ e.value = c.value
  BY <1>1, <1>2 DEF CellFields
<1> QED  BY <1>2, <1>3, <1>4 DEF SoundCell

\* Any step of a cell.
LEMMA EditSound ==
    ASSUME NEW r, NEW field, NEW value, EditCell(r, field, value)
    PROVE  SoundCell(cell')
<1>1. cell' = [id |-> r.id, field |-> field, value |-> value, error |-> FALSE]
  BY DEF EditCell
<1>2. cell' = [f \in CellFields |-> cell'[f]] /\ ~cell'.error
  BY <1>1 DEF CellFields
<1> QED  BY <1>2 DEF SoundCell
LEMMA LeftSound ==
    ASSUME cell' = NoCell
    PROVE  SoundCell(cell')
BY DEF SoundCell
LEMMA SaveSound ==
    ASSUME SoundCell(cell), cell # NoCell, NEW r, NEW old, NEW patch, Save(r, old, patch)
    PROVE  SoundCell(cell')
<1>1. PICK c : c = cell
  OBVIOUS
<1>2. cell' = NoCell \/ (c.value = Bad /\ cell' = [c EXCEPT !.error = TRUE])
  BY <1>1 DEF Save
<1> QED  BY <1>1, <1>2, CellIs, LeftSound
LEMMA AddressCellSound ==
    ASSUME SoundCell(cell), NEW r, NEW addr, NEW list, AddressCell(r, addr, list)
    PROVE  SoundCell(cell')
<1> DEFINE old == Or(r.val[addr], r.val[list])
           patch == AddressPatch(addr, list, cell.value)
<1>1. CASE EditCell(r, addr, old)
  BY <1>1, EditSound
<1>2. CASE cell # NoCell /\ \E v : cell' = [cell EXCEPT !.value = v, !.error = FALSE]
  <2>1. PICK c, v : c = cell /\ cell' = [c EXCEPT !.value = v, !.error = FALSE]
    BY <1>2
  <2> QED  BY <1>2, <2>1, CellIs
<1>3. CASE cell # NoCell /\ Save(r, old, patch)
  BY <1>3, SaveSound
<1>4. CASE cell' = NoCell
  BY <1>4, LeftSound
<1> QED  BY <1>1, <1>2, <1>3, <1>4 DEF AddressCell, Editing
LEMMA PortCellSound ==
    ASSUME SoundCell(cell), NEW r, NEW port, PortCell(r, port)
    PROVE  SoundCell(cell')
<1>1. CASE EditCell(r, port, r.val[port])
  BY <1>1, EditSound
<1>2. CASE cell # NoCell /\ \E v : cell' = [cell EXCEPT !.value = v, !.error = FALSE]
  <2>1. PICK c, v : c = cell /\ cell' = [c EXCEPT !.value = v, !.error = FALSE]
    BY <1>2
  <2> QED  BY <1>2, <2>1, CellIs
<1>3. CASE cell # NoCell /\ Save(r, r.val[port], SetField(port, cell.value))
  BY <1>3, SaveSound
<1>4. CASE cell' = NoCell
  BY <1>4, LeftSound
<1> QED  BY <1>1, <1>2, <1>3, <1>4 DEF PortCell, Editing
LEMMA ChoiceCellSound ==
    ASSUME SoundCell(cell), NEW r, NEW field, NEW sent, ChoiceCell(r, field, sent)
    PROVE  SoundCell(cell')
<1>1. EditCell(r, field, r.val[field]) \/ cell' = NoCell
  BY DEF ChoiceCell
<1> QED  BY <1>1, EditSound, LeftSound
LEMMA EditCellsSound ==
    ASSUME SoundCell(cell), NEW r, EditCells(r)
    PROVE  SoundCell(cell')
<1>1. CASE SourceCell(r) \/ DestinationCell(r)
  BY <1>1, AddressCellSound DEF SourceCell, DestinationCell
<1>2. CASE SourcePortCell(r) \/ DestinationPortCell(r)
  BY <1>2, PortCellSound DEF SourcePortCell, DestinationPortCell
<1>3. CASE ProtocolCell(r) \/ ActionCell(r)
  BY <1>3, ChoiceCellSound DEF ProtocolCell, ActionCell
<1>4. CASE InInterfaceCell(r) \/ OutInterfaceCell(r)
  BY <1>4, ChoiceCellSound DEF InInterfaceCell, OutInterfaceCell
<1>5. CASE ConnStateCell(r)
  BY <1>5, ChoiceCellSound, LeftSound DEF ConnStateCell
<1> QED  BY <1>1, <1>2, <1>3, <1>4, <1>5 DEF EditCells

\* Any step of the page.
LEMMA FirewallTypes ==
    ASSUME FirewallInv, FirewallNext
    PROVE  FirewallInv'
<1>1. ASSUME UNCHANGED firewallVars PROVE FirewallInv'
  BY <1>1 DEF FirewallInv, firewallVars
<1>2. ASSUME NEW r, EditCells(r) PROVE FirewallInv'
  <2>1. SoundCell(cell')
    BY <1>2, EditCellsSound DEF FirewallInv
  <2>2. UNCHANGED <<tab, ruleForm, ruleDetail, ruleAsk>>
    BY <1>2 DEF EditCells, Still, ruleOverlays
  <2> QED  BY <2>1, <2>2 DEF FirewallInv
<1>3. CASE FetchRules
  <2>1. /\ UNCHANGED <<tab, ruleForm, ruleDetail, ruleAsk>>
        /\ cell' = cell \/ cell' = NoCell
    BY <1>3 DEF FetchRules, ruleOverlays
  <2> QED  BY <2>1, LeftSound DEF FirewallInv
<1>4. CASE SelectTab
  <2>1. /\ UNCHANGED <<ruleForm, ruleDetail, ruleAsk>>
        /\ tab' \in Chains /\ cell' = NoCell
    BY <1>4 DEF SelectTab, ruleOverlays
  <2> QED  BY <2>1, LeftSound DEF FirewallInv
<1>5. CASE AddRule
  BY <1>5 DEF AddRule, Uncovered, OpenRuleForm, FirewallInv
<1>6. CASE TableOfRules
  <2>1. PICK r : SortableRow(r)
    BY <1>6 DEF TableOfRules
  <2>2. ~ruleForm.open /\ ruleDetail = None /\ ruleAsk = None
    BY <1>6 DEF TableOfRules, Uncovered
  <2>3. CASE EditCells(r)
    BY <1>2, <2>3
  <2>4. ASSUME NEW over, DragRule(r, over) PROVE FirewallInv'
    BY <1>1, <2>4 DEF DragRule
  <2>5. CASE ShowRule(r)
    BY <2>2, <2>5 DEF ShowRule, FirewallInv
  <2>6. CASE OpenRuleForm(r)
    BY <2>2, <2>6 DEF OpenRuleForm, FirewallInv
  <2>7. CASE AskDeleteRule(r)
    BY <2>2, <2>7 DEF AskDeleteRule, FirewallInv
  <2> QED  BY <2>1, <2>3, <2>4, <2>5, <2>6, <2>7 DEF SortableRow
<1>7. CASE FirewallDetail
  <2>1. ruleDetail # None /\ ~ruleForm.open /\ ruleAsk = None
    BY <1>7 DEF FirewallDetail, FirewallInv
  <2>2. CASE ShowRule(None)
    BY <2>1, <2>2 DEF ShowRule, FirewallInv
  <2>3. CASE OpenRuleForm(ruleDetail)
    BY <2>1, <2>3 DEF OpenRuleForm, FirewallInv
  <2>4. CASE AskDeleteRule(ruleDetail)
    BY <2>1, <2>4 DEF AskDeleteRule, FirewallInv
  <2> QED  BY <1>7, <2>2, <2>3, <2>4 DEF FirewallDetail
<1>8. CASE TypeInForm
  <2>1. ruleForm.open /\ UNCHANGED <<tab, ruleDetail, ruleAsk, cell>>
    BY <1>8 DEF TypeInForm
  <2> QED  BY <2>1 DEF FirewallInv
<1>9. CASE SubmitForm
  <2>1. ruleForm.open /\ UNCHANGED <<tab, ruleDetail, ruleAsk, cell>>
    BY <1>9 DEF SubmitForm
  <2> QED  BY <2>1 DEF FirewallInv
<1>10. CASE CloseForm
  BY <1>10 DEF CloseForm, ClosedForm, FirewallInv
<1>11. CASE ConfirmDeleteRule
  BY <1>11 DEF ConfirmDeleteRule, FirewallInv
<1>12. ASSUME NEW i, AnswerRule(i) PROVE FirewallInv'
  <2>1. PICK f : f = ruleForm
    OBVIOUS
  <2>2. /\ tab' = tab /\ cell' = cell
        /\ ruleForm' \in {f, ClosedForm, [f EXCEPT !.saving = FALSE]}
        /\ \/ ruleAsk' = ruleAsk /\ ruleDetail' = ruleDetail
           \/ ruleAsk' = None /\ ruleDetail' = None
        /\ ruleForm' = f \/ f.open
    BY <1>12, <2>1 DEF AnswerRule
  <2>3. ruleForm'.open => f.open
    BY <2>2
  <2> QED  BY <2>1, <2>2, <2>3 DEF FirewallInv
<1>13. CASE ChangeCluster
  BY <1>13, LeftSound, ChainsAssumption DEF ChangeCluster, ClosedForm, FirewallInv
<1> QED
  BY <1>2, <1>3, <1>4, <1>5, <1>6, <1>7, <1>8, <1>9, <1>10, <1>11, <1>12, <1>13 DEF FirewallNext


\* The items of the list have the IDs of routers.
ShownOK == Loaded => \A k \in DOMAIN shown : shown[k].id \in Routers \X Nat

LEMMA ItemIdIs ==
    ASSUME NEW s, Own(Master, s), NEW k \in DOMAIN s
    PROVE  s[k].id \in Routers \X Nat
<1>1. s[k] = Item(Master, Gen(s[k]), s[k].val) /\ Gen(s[k]) \in Nat
  BY DEF Own
<1>2. s[k].id = <<Master, Gen(s[k])>>
  BY <1>1 DEF Item
<1> QED  BY <1>1, <1>2, MasterAssumption
LEMMA NextShown ==
    ASSUME RequestsOK, GroupsOK, ShownOK, [PagesNext]_pagesVars
    PROVE  ShownOK'
<1>1. ASSUME shown' = conf[Master] PROVE ShownOK'
  <2>1. Own(Master, conf[Master])
    BY MasterAssumption DEF GroupsOK, IdsOK
  <2>2. PICK s : s = conf[Master]
    OBVIOUS
  <2> QED  BY <1>1, <2>1, <2>2, ItemIdIs DEF ShownOK
<1>2. ASSUME shown' = shown PROVE ShownOK'
  BY <1>2 DEF ShownOK, Loaded
<1> QED  BY <1>1, <1>2, PageOrService DEF PageStep, ServeContent, cache

\* What a page knows of a request is never lost.
LEMMA RequestsStay ==
    ASSUME RequestsOK, [PagesNext]_pagesVars
    PROVE  DOMAIN requests \subseteq DOMAIN requests'
<1>1. CASE requests' = requests
  BY <1>1
<1>2. CASE RequestsGoOn
  <2>1. /\ DOMAIN requests = 1..Len(requests) /\ DOMAIN requests' = 1..Len(requests')
        /\ Len(requests) \in Nat /\ Len(requests') \in Nat /\ Len(requests) <= Len(requests')
    BY <1>2, SequenceIsFunction DEF RequestsOK, RequestsGoOn
  <2> QED  BY ONLY <2>1
<1>3. CASE ServeContent
  <2>1. PICK i \in DOMAIN requests : ServeStep(i)
    BY <1>3 DEF ServeContent, Serve
  <2> QED  BY <2>1, ServiceIs DEF ServiceStep
<1> QED  BY <1>1, <1>2, <1>3, PageOrService DEF PageStep

\* The selection is one of items.
SelectedOK ==
    /\ selected = [l \in Lists |-> selected[l]]
    /\ \A l \in Lists : selected[l] \subseteq Routers \X Nat
LEMMA RowIdIs ==
    ASSUME ShownOK, NEW list
    PROVE  IdsOf(list) \subseteq Routers \X Nat
<1> SUFFICES ASSUME NEW id \in IdsOf(list) PROVE id \in Routers \X Nat
  OBVIOUS
<1>1. PICK e \in EntriesOf(list) : id = e.id
  BY DEF IdsOf
<1>2. e \in Rows
  BY <1>1 DEF EntriesOf
<1>3. Loaded /\ \E k \in DOMAIN shown : e = shown[k]
  BY <1>2 DEF Rows
<1> QED  BY <1>1, <1>3 DEF ShownOK
LEMMA SelectSound ==
    ASSUME SelectedOK, NEW list, NEW ids,
           list \in Lists => ids \subseteq Routers \X Nat,
           selected' = [selected EXCEPT ![list] = ids]
    PROVE  SelectedOK'
<1>1. selected' = [l \in Lists |-> IF l = list THEN ids ELSE selected[l]]
  BY DEF SelectedOK
<1> QED  BY <1>1 DEF SelectedOK
LEMMA SelectedStays ==
    ASSUME SelectedOK, selected' = selected
    PROVE  SelectedOK'
BY DEF SelectedOK
LEMMA NextSelected ==
    ASSUME ShownOK, SelectedOK, ListsNext
    PROVE  SelectedOK'
<1>1. CASE selected' = selected
  BY <1>1, SelectedStays
<1>2. ASSUME NEW list, AddressListGroup(list) PROVE SelectedOK'
  <2>1. CASE HandleSelectAll(list)
    <3>1. PICK ids \in {{}, IdsOf(list)} : selected' = [selected EXCEPT ![list] = ids]
      BY <2>1 DEF HandleSelectAll, Select
    <3> QED  BY <3>1, RowIdIs, SelectSound
  <2>2. CASE HandleSelectEntry(list)
    <3>1. PICK id \in IdsOf(list) :
             \E ids : /\ selected' = [selected EXCEPT ![list] = ids]
                     /\ ids \subseteq selected[list] \cup {id}
      <4>1. PICK id \in IdsOf(list) :
               Select(list, IF id \in selected[list] THEN selected[list] \ {id}
                            ELSE selected[list] \cup {id})
        BY <2>2 DEF HandleSelectEntry
      <4>2. PICK ids : ids = IF id \in selected[list] THEN selected[list] \ {id}
                             ELSE selected[list] \cup {id}
        OBVIOUS
      <4>3. ids \subseteq selected[list] \cup {id}
        BY <4>2
      <4> QED  BY <4>1, <4>2, <4>3 DEF Select
    <3>2. PICK ids : /\ selected' = [selected EXCEPT ![list] = ids]
                     /\ ids \subseteq selected[list] \cup {id}
      BY <3>1
    <3>3. list \in Lists => ids \subseteq Routers \X Nat
      BY <3>1, <3>2, RowIdIs DEF SelectedOK
    <3> QED  BY <3>2, <3>3, SelectSound
  <2>3. CASE ToggleList(list) \/ OpenEntries("add", list) \/ HandleDeleteEntries(list)
    BY <1>1, <2>3 DEF ToggleList, OpenEntries, HandleDeleteEntries
  <2> QED  BY <1>2, <2>1, <2>2, <2>3 DEF AddressListGroup
<1>3. ASSUME NEW b, DeleteEnds(b) PROVE SelectedOK'
  <2>1. selected' = selected \/ selected' = [selected EXCEPT ![batches[b].list] = {}]
    BY <1>3 DEF DeleteEnds
  <2> QED  BY <1>1, <2>1, SelectSound
<1>4. CASE ChangeLists
  BY <1>4 DEF ChangeLists, SelectedOK
<1>5. FetchLists \/ AddAddressList => selected' = selected
  BY DEF FetchLists, AddAddressList, OpenEntries
<1>6. EntryDrawer => selected' = selected
  BY DEF EntryDrawer, HandleAddEntry, HandleRemoveEntry, HandleParseImport, TypeName, Drawer,
     HandleSubmit, HandleClose
<1>7. ASSUME NEW b, SendNext(b) \/ SubmitEnds(b) PROVE selected' = selected
  BY <1>7 DEF SendNext, SubmitEnds
<1>8. ASSUME NEW i, AnswerEntry(i) PROVE selected' = selected
  BY <1>8 DEF AnswerEntry
<1> QED  BY <1>1, <1>2, <1>3, <1>4, <1>5, <1>6, <1>7, <1>8 DEF ListsNext, Groups

\* What runs in the background has sent what was sent.
BatchFields == {"mode", "list", "todo", "sent", "failed", "fresh", "over"}
IsBatch(b, S) == b = [f \in BatchFields |-> b[f]] /\ b.sent \subseteq S
AreBatches(bs, S) == IsSequence(bs) /\ \A k \in DOMAIN bs : IsBatch(bs[k], S)

LEMMA NewBatchIs ==
    ASSUME NEW mode, NEW list, NEW todo, NEW S, NEW sent, sent \subseteq S
    PROVE  IsBatch(Batch(mode, list, todo, sent), S)
BY DEF IsBatch, Batch, BatchFields
LEMMA SameBatchIs ==
    ASSUME NEW b, NEW S, IsBatch(b, S), NEW v
    PROVE  /\ IsBatch([b EXCEPT !.fresh = v], S)
           /\ IsBatch([b EXCEPT !.failed = v], S)
           /\ IsBatch([b EXCEPT !.over = v], S)
<1>1. b = [f \in BatchFields |-> b[f]] /\ b.sent \subseteq S
  BY DEF IsBatch
<1>2. PICK c : c = [b EXCEPT !.fresh = v]
  OBVIOUS
<1>3. PICK d : d = [b EXCEPT !.failed = v]
  OBVIOUS
<1>4. PICK e : e = [b EXCEPT !.over = v]
  OBVIOUS
<1>5. IsBatch(c, S)
  BY <1>1, <1>2 DEF IsBatch, BatchFields
<1>6. IsBatch(d, S)
  BY <1>1, <1>3 DEF IsBatch, BatchFields
<1>7. IsBatch(e, S)
  BY <1>1, <1>4 DEF IsBatch, BatchFields
<1> QED  BY <1>2, <1>3, <1>4, <1>5, <1>6, <1>7
LEMMA SentBatchIs ==
    ASSUME NEW b, NEW S, IsBatch(b, S), NEW todo, NEW i \in S
    PROVE  IsBatch([b EXCEPT !.todo = todo, !.sent = @ \cup {i}], S)
<1>1. PICK c : c = [b EXCEPT !.todo = todo, !.sent = @ \cup {i}]
  OBVIOUS
<1>2. c = [f \in BatchFields |-> c[f]] /\ c.sent = b.sent \cup {i}
  BY <1>1 DEF IsBatch, BatchFields
<1> QED  BY <1>1, <1>2 DEF IsBatch
LEMMA BatchesLast ==
    ASSUME NEW bs, NEW S, AreBatches(bs, S), NEW T, S \subseteq T
    PROVE  AreBatches(bs, T)
BY DEF AreBatches, IsBatch
LEMMA BatchesChange ==
    ASSUME NEW bs, NEW S, AreBatches(bs, S), NEW cs, NEW T, cs = [k \in DOMAIN bs |-> cs[k]],
           \A k \in DOMAIN bs : IsBatch(cs[k], T)
    PROVE  AreBatches(cs, T)
<1>1. DOMAIN bs = 1..Len(bs) /\ Len(bs) \in Nat
  BY SequenceIsFunction DEF AreBatches
<1>2. PICK n \in Nat : n = Len(bs)
  BY <1>1
<1>3. cs = [k \in 1..n |-> cs[k]]
  BY <1>1, <1>2
<1>4. IsSequence(cs) /\ DOMAIN cs = 1..n
  BY <1>3, FunctionIsSequence
<1> QED  BY <1>1, <1>2, <1>4 DEF AreBatches
LEMMA OneBatchChanges ==
    ASSUME NEW bs, NEW S, AreBatches(bs, S), NEW b \in DOMAIN bs, NEW e, NEW T,
           S \subseteq T, IsBatch(e, T)
    PROVE  AreBatches([bs EXCEPT ![b] = e], T)
<1>1. PICK cs : cs = [k \in DOMAIN bs |-> IF k = b THEN e ELSE bs[k]]
  OBVIOUS
<1>2. AreBatches(bs, T)
  BY BatchesLast
<1>3. cs = [k \in DOMAIN bs |-> cs[k]] /\ \A k \in DOMAIN bs : IsBatch(cs[k], T)
  BY <1>1, <1>2 DEF AreBatches
<1>4. AreBatches(cs, T)
  BY <1>2, <1>3, BatchesChange
<1>5. bs = [k \in DOMAIN bs |-> bs[k]]
  BY SequenceIsFunction DEF AreBatches
<1>6. [bs EXCEPT ![b] = e] = cs
  BY <1>1, <1>5
<1> QED  BY <1>4, <1>6
LEMMA BatchesAppend ==
    ASSUME NEW bs, NEW S, AreBatches(bs, S), NEW e, NEW T, S \subseteq T, IsBatch(e, T)
    PROVE  AreBatches(Append(bs, e), T)
<1>1. AreBatches(bs, T)
  BY BatchesLast
<1>2. PICK cs : cs = Append(bs, e)
  OBVIOUS
<1>3. /\ IsSequence(cs) /\ DOMAIN cs = 1..(Len(bs) + 1) /\ cs[Len(bs) + 1] = e
      /\ \A k \in 1..Len(bs) : cs[k] = bs[k]
  BY <1>1, <1>2, AppendIs DEF AreBatches
<1>4. DOMAIN bs = 1..Len(bs) /\ Len(bs) \in Nat
  BY SequenceIsFunction DEF AreBatches
<1>5. \A k \in DOMAIN cs : k = Len(bs) + 1 \/ k \in DOMAIN bs
  BY ONLY <1>3, <1>4
<1> QED  BY <1>1, <1>2, <1>3, <1>4, <1>5 DEF AreBatches

BatchesOK == AreBatches(batches, DOMAIN requests)

LEMMA BatchesStay ==
    ASSUME BatchesOK, DOMAIN requests \subseteq DOMAIN requests', batches' = batches
    PROVE  BatchesOK'
BY BatchesLast DEF BatchesOK
LEMMA SubmitBatch ==
    ASSUME BatchesOK, DOMAIN requests \subseteq DOMAIN requests', HandleSubmit
    PROVE  BatchesOK'
<1>1. PICK e : /\ e = Batch(entryForm.mode, entryForm.list, ToSend(entryForm), {})
               /\ batches' = Append(batches, e)
  BY DEF HandleSubmit
<1>2. IsBatch(e, DOMAIN requests')
  BY <1>1, NewBatchIs
<1> QED  BY <1>1, <1>2, BatchesAppend DEF BatchesOK
LEMMA CloseBatches ==
    ASSUME BatchesOK, DOMAIN requests \subseteq DOMAIN requests', HandleClose
    PROVE  BatchesOK'
<1>1. PICK bs, S : bs = batches /\ S = DOMAIN requests'
  OBVIOUS
<1>2. AreBatches(bs, S)
  BY <1>1, BatchesLast DEF BatchesOK
<1>3. PICK cs : cs = [k \in DOMAIN bs |-> [bs[k] EXCEPT !.fresh = FALSE]]
  OBVIOUS
<1>4. batches' = cs
  BY <1>1, <1>3 DEF HandleClose, Aged
<1>5. \A k \in DOMAIN bs : IsBatch(cs[k], S)
  BY <1>2, <1>3, SameBatchIs DEF AreBatches
<1> QED  BY <1>1, <1>2, <1>3, <1>4, <1>5, BatchesChange DEF BatchesOK
LEMMA SendNextBatch ==
    ASSUME RequestsOK, BatchesOK, DOMAIN requests \subseteq DOMAIN requests',
           NEW b \in DOMAIN batches, SendNext(b)
    PROVE  BatchesOK'
<1>1. PICK q : requests' = Append(requests, q)
  BY DEF SendNext, Send, Arrive
<1>2. PICK s, i : s = requests /\ i = Len(s) + 1
  OBVIOUS
<1>3. Len(s) \in Nat /\ DOMAIN requests' = 1..(Len(s) + 1)
  BY <1>1, <1>2, AppendIs, SequenceIsFunction DEF RequestsOK
<1>4. i \in DOMAIN requests'
  BY ONLY <1>2, <1>3
<1>5. PICK e : e = batches[b]
  OBVIOUS
<1>6. IsBatch(e, DOMAIN requests')
  BY <1>5, BatchesLast DEF BatchesOK, AreBatches
<1>7. PICK d : d = [e EXCEPT !.todo = Tail(@), !.sent = @ \cup {i}]
  OBVIOUS
<1>8. IsBatch(d, DOMAIN requests')
  BY <1>4, <1>6, <1>7, SentBatchIs
<1>9. batches' = [batches EXCEPT ![b] = d]
  BY <1>2, <1>5, <1>7 DEF SendNext
<1> QED  BY <1>8, <1>9, OneBatchChanges DEF BatchesOK
LEMMA SubmitEndsBatch ==
    ASSUME BatchesOK, DOMAIN requests \subseteq DOMAIN requests',
           NEW b \in DOMAIN batches, SubmitEnds(b)
    PROVE  BatchesOK'
<1>1. PICK bs, S, e, same :
         bs = batches /\ S = DOMAIN requests' /\ e = bs[b]
         /\ same = (entryForm.open /\ entryForm.mode = e.mode)
  OBVIOUS
<1>2. AreBatches(bs, S)
  BY <1>1, BatchesLast DEF BatchesOK
<1>3. PICK cs : cs = [k \in DOMAIN bs |->
                         IF k = b THEN [e EXCEPT !.over = TRUE]
                         ELSE [bs[k] EXCEPT !.fresh = @ /\ (~same \/ e.failed)]]
  OBVIOUS
<1>4. batches' = cs
  BY <1>1, <1>3 DEF SubmitEnds
<1>5. \A k \in DOMAIN bs : IsBatch(cs[k], S)
  BY <1>1, <1>2, <1>3, SameBatchIs DEF AreBatches
<1> QED  BY <1>1, <1>2, <1>3, <1>4, <1>5, BatchesChange DEF BatchesOK
LEMMA DeleteEntriesBatch ==
    ASSUME RequestsOK, BatchesOK, DOMAIN requests \subseteq DOMAIN requests',
           NEW list, HandleDeleteEntries(list)
    PROVE  BatchesOK'
<1>1. PICK s, m : s = requests /\ m = Len(s)
  OBVIOUS
<1>2. IsSequence(s) /\ m \in Nat
  BY <1>1, SequenceIsFunction DEF RequestsOK
<1>3. PICK n \in 1..(MaxRequests - m) : \E ids \in [1..n -> selected[list]] :
         /\ requests' = s \o
               [k \in 1..n |-> Request("delete", <<ids[k]>>, Nothing, <<>>, "page")]
         /\ batches' = Append(batches, Batch("delete", list, <<>>, {m + k : k \in 1..n}))
  BY <1>1 DEF HandleDeleteEntries
<1>4. PICK ids :
         /\ requests' = s \o
               [k \in 1..n |-> Request("delete", <<ids[k]>>, Nothing, <<>>, "page")]
         /\ batches' = Append(batches, Batch("delete", list, <<>>, {m + k : k \in 1..n}))
  BY <1>3
<1>5. PICK t, e, sent :
         /\ t = [k \in 1..n |-> Request("delete", <<ids[k]>>, Nothing, <<>>, "page")]
         /\ sent = {m + k : k \in 1..n}
         /\ e = Batch("delete", list, <<>>, sent)
  OBVIOUS
<1>6. n \in Nat
  BY <1>2, <1>3, MasterAssumption
<1>7. t = [k \in 1..n |-> t[k]]
  BY <1>5
<1>8. IsSequence(t) /\ Len(t) = n
  BY <1>6, <1>7, FunctionIsSequence
<1>9. DOMAIN requests' = 1..(m + n)
  <2>1. requests' = s \o t
    BY <1>4, <1>5
  <2> QED  BY <1>1, <1>2, <1>8, <2>1, ConcatIs
<1>10. sent \subseteq DOMAIN requests'
  <2>1. \A k \in 1..n : m + k \in 1..(m + n)
    BY ONLY <1>2, <1>6
  <2> QED  BY <1>5, <1>9, <2>1
<1>11. IsBatch(e, DOMAIN requests')
  BY <1>5, <1>10, NewBatchIs
<1>12. batches' = Append(batches, e)
  BY <1>4, <1>5
<1> QED  BY <1>11, <1>12, BatchesAppend DEF BatchesOK
LEMMA AnswerBatch ==
    ASSUME BatchesOK, DOMAIN requests \subseteq DOMAIN requests', NEW i, AnswerEntry(i)
    PROVE  BatchesOK'
<1>1. PICK b \in DOMAIN batches :
         batches' = [batches EXCEPT ![b].failed = @ \/ requests[i].reply # "ok"]
  BY DEF AnswerEntry
<1>2. PICK e, v : e = batches[b] /\ v = (e.failed \/ requests[i].reply # "ok")
  OBVIOUS
<1>3. batches' = [batches EXCEPT ![b] = [e EXCEPT !.failed = v]]
  BY <1>1, <1>2
<1>4. IsBatch(e, DOMAIN requests')
  BY <1>2, BatchesLast DEF BatchesOK, AreBatches
<1>5. PICK d : d = [e EXCEPT !.failed = v]
  OBVIOUS
<1> QED  BY <1>3, <1>4, <1>5, SameBatchIs, OneBatchChanges DEF BatchesOK
LEMMA DeleteEndsBatch ==
    ASSUME BatchesOK, DOMAIN requests \subseteq DOMAIN requests',
           NEW b \in DOMAIN batches, DeleteEnds(b)
    PROVE  BatchesOK'
<1>1. PICK e, d : e = batches[b] /\ d = [e EXCEPT !.over = TRUE]
  OBVIOUS
<1>2. batches' = [batches EXCEPT ![b] = d]
  BY <1>1 DEF DeleteEnds
<1>3. IsBatch(e, DOMAIN requests')
  BY <1>1, BatchesLast DEF BatchesOK, AreBatches
<1>4. IsBatch(d, DOMAIN requests')
  BY <1>1, <1>3, SameBatchIs
<1> QED  BY <1>2, <1>4, OneBatchChanges DEF BatchesOK

LEMMA NextBatches ==
    ASSUME RequestsOK, BatchesOK, DOMAIN requests \subseteq DOMAIN requests', ListsNext
    PROVE  BatchesOK'
<1>1. ASSUME NEW list, AddressListGroup(list) PROVE BatchesOK'
  <2>1. HandleDeleteEntries(list) \/ batches' = batches
    BY <1>1 DEF AddressListGroup, ToggleList, HandleSelectAll, HandleSelectEntry, Select, OpenEntries
  <2> QED  BY <2>1, DeleteEntriesBatch, BatchesStay
<1>2. FetchLists \/ AddAddressList \/ ChangeLists => batches' = batches
  BY DEF FetchLists, AddAddressList, OpenEntries, ChangeLists
<1>3. EntryDrawer => HandleSubmit \/ HandleClose \/ batches' = batches
  BY DEF EntryDrawer, HandleAddEntry, HandleRemoveEntry, HandleParseImport, TypeName, Drawer
<1>4. ASSUME NEW b \in DOMAIN batches, SendNext(b) \/ SubmitEnds(b) \/ DeleteEnds(b)
      PROVE  BatchesOK'
  BY <1>4, SendNextBatch, SubmitEndsBatch, DeleteEndsBatch
<1> QED  BY <1>1, <1>2, <1>3, <1>4, AnswerBatch, SubmitBatch, CloseBatches, BatchesStay
         DEF ListsNext, Groups

\* The drawer of a route covers the page.
LEMMA RoutesTypes ==
    ASSUME RoutesTypeOK, RoutesNext
    PROVE  RoutesTypeOK'
<1>1. CASE UNCHANGED routesVars
  BY <1>1 DEF routesVars, RoutesTypeOK
<1>2. FetchRoutes \/ ChangeRoutes \/ SubmitRoute => UNCHANGED routesVars
  BY DEF FetchRoutes, ChangeRoutes, SubmitRoute
<1>3. CASE OpenRoute \/ CloseRoute \/ ShowRoute \/ CloseDetail
  BY <1>3 DEF OpenRoute, CloseRoute, ShowRoute, CloseDetail, ClosedRoute, RoutesTypeOK
<1>4. CASE TypeInRoute
  BY <1>4 DEF TypeInRoute, RoutesTypeOK
<1>5. ASSUME NEW i, AnswerRoute(i) PROVE RoutesTypeOK'
  BY <1>5 DEF AnswerRoute, ClosedRoute, RoutesTypeOK
<1> QED  BY <1>1, <1>2, <1>3, <1>4, <1>5 DEF RoutesNext

PagesTypes ==
    /\ FirewallInv
    /\ ShownOK /\ SelectedOK /\ BatchesOK
    /\ RoutesTypeOK
LEMMA NextTypes ==
    ASSUME RequestsOK, GroupsOK, PagesTypes, [PagesNext]_pagesVars
    PROVE  PagesTypes'
<1>1. ShownOK'
  BY NextShown DEF PagesTypes
<1>2. DOMAIN requests \subseteq DOMAIN requests'
  BY RequestsStay
<1>3. UNCHANGED firewallVars => FirewallInv'
  BY DEF firewallVars, ruleOverlays, PagesTypes, FirewallInv, SoundCell
<1>4. UNCHANGED listsVars => SelectedOK' /\ BatchesOK'
  BY <1>2, SelectedStays, BatchesStay DEF listsVars, PagesTypes
<1>5. UNCHANGED routesVars => RoutesTypeOK'
  BY DEF routesVars, PagesTypes, RoutesTypeOK
<1>6. CASE UNCHANGED pagesVars
  BY <1>1, <1>3, <1>4, <1>5, <1>6 DEF pagesVars, PagesTypes
<1>7. CASE FirewallNext /\ UNCHANGED <<listsVars, routesVars>>
  BY <1>1, <1>4, <1>5, <1>7, FirewallTypes DEF PagesTypes
<1>8. CASE ListsNext /\ UNCHANGED <<firewallVars, routesVars>>
  BY <1>1, <1>2, <1>3, <1>5, <1>8, NextSelected, NextBatches DEF PagesTypes
<1>9. CASE RoutesNext /\ UNCHANGED <<firewallVars, listsVars>>
  BY <1>1, <1>3, <1>4, <1>9, RoutesTypes DEF PagesTypes
<1>10. CASE UNCHANGED <<firewallVars, listsVars, routesVars>>
  BY <1>1, <1>3, <1>4, <1>5, <1>10 DEF PagesTypes
<1> QED  BY <1>6, <1>7, <1>8, <1>9, <1>10 DEF PagesNext

LEMMA InitTypes == PagesInit => PagesTypes
<1> SUFFICES ASSUME PagesInit PROVE PagesTypes
  OBVIOUS
<1>1. FirewallInv
  BY ChainsAssumption DEF PagesInit, InitFirewall, FirewallInv, ClosedForm, SoundCell
<1>2. ShownOK
  BY DEF PagesInit, InitContent, ShownOK, Loaded
<1>3. SelectedOK
  BY DEF PagesInit, InitLists, SelectedOK
<1>4. BatchesOK
  <2>1. batches = <<>>
    BY DEF PagesInit, InitLists
  <2>2. <<>> = [k \in 1..0 |-> <<>>[k]]
    OBVIOUS
  <2>3. IsSequence(<<>>) /\ DOMAIN <<>> = 1..0
    BY <2>2, FunctionIsSequence
  <2> QED  BY <2>1, <2>3 DEF BatchesOK, AreBatches
<1>5. RoutesTypeOK
  BY DEF PagesInit, InitRoutes, ClosedRoute, RoutesTypeOK
<1> QED  BY <1>1, <1>2, <1>3, <1>4, <1>5 DEF PagesTypes

\* The values of the pages have their types: a drawer, the details and the
\* question before a delete are never open together (they cover one
\* another), a cell in error is one that validateAddress or validatePort
\* refused, and the address lists page selects items there were and waits
\* for requests that were sent.
THEOREM PagesKeepTypes == PagesSpec => []TypeOK
<1>1. PagesInit => RequestsOK /\ GroupsOK /\ PagesTypes
  BY InitRequests, InitGroups, InitTypes
<1>2. RequestsOK /\ GroupsOK /\ PagesTypes /\ [PagesNext]_pagesVars
        => RequestsOK' /\ GroupsOK' /\ PagesTypes'
  BY NextRequests, NextGroups, NextTypes
<1>3. RequestsOK /\ PagesTypes => TypeOK
  <2> SUFFICES ASSUME RequestsOK, PagesTypes PROVE TypeOK
    OBVIOUS
  <2>1. FirewallTypeOK
    BY DEF PagesTypes, FirewallInv, SoundCell, FirewallTypeOK
  <2>2. ListsTypeOK
    BY DEF PagesTypes, SelectedOK, BatchesOK, AreBatches, IsBatch, ListsTypeOK
  <2> QED  BY <2>1, <2>2 DEF RequestsOK, PagesTypes, TypeOK
<1> QED  BY <1>1, <1>2, <1>3, PTL DEF PagesSpec

=============================================================================
