--------------------------- MODULE ContentService ---------------------------
(***************************************************************************)
(* The tunnel service of the backend for firewall rules, static routes and *)
(* address list entries (internal/tunnel: firewall.go, routes.go,          *)
(* addresslists.go, three handlers of one shape). An item is created on    *)
(* every router of the cluster. It is changed and deleted by the RouterOS  *)
(* ID it has on the master: the other routers give it IDs of their own, so *)
(* its twin there is the first item with the same content. The lookups     *)
(* take no lock: they may fall in the middle of a group of operations,     *)
(* which Execute (module OperationLog) applies to one router after another *)
(* under their mutexes and takes back when one of them fails. A move of a  *)
(* firewall rule is posted to one router after another without Execute.    *)
(***************************************************************************)
EXTENDS Naturals, Sequences, FiniteSets, SequencesExt

CONSTANTS
    Routers,      \* the routers of the cluster
    Master,       \* the one whose items the pages list
    MaxRequests,  \* requests of a behaviour
    Nothing       \* no item on this router

VARIABLES
    conf,         \* conf[r]: the items of router r, in their order
    requests      \* the requests so far, in the order they arrived

serviceVars == <<conf, requests>>

ASSUME MasterAssumption == Master \in Routers /\ MaxRequests \in Nat
ASSUME NothingAssumption == Nothing \notin Seq(Routers \X Nat)

\* An item has its content in val, a record with a field "kind".
Item(r, gen, val) == [id |-> <<r, gen>>, val |-> val]
ContentOf(items) == [k \in DOMAIN items |-> items[k].val]
Patched(val, patch) == [f \in DOMAIN val |-> IF f \in DOMAIN patch THEN patch[f] ELSE val[f]]

At(items, id) == {k \in DOMAIN items : items[k].id = id}
Matching(items, val) == {k \in DOMAIN items : items[k].val = val}

\* What findMatching... compares: of routes and entries not "disabled".
KeyOf(val) == [f \in IF val.kind = "rule" THEN DOMAIN val ELSE DOMAIN val \ {"disabled"} |-> val[f]]
Alike(items, val) == {k \in DOMAIN items : KeyOf(items[k].val) = KeyOf(val)}

\* findMatching...: the first item that matches.
FirstMatch(items, val) ==
    items[CHOOSE k \in Alike(items, val) : \A j \in Alike(items, val) : k <= j].id

-----------------------------------------------------------------------------
(* RouterOS: an ID that is gone is refused, and so is a second entry of an *)
(* address list for one prefix.                                            *)

Clash(v, w) ==
    v.kind = "entry" /\ w.kind = "entry" /\ v.list = w.list /\ v.prefix = w.prefix

Accepts(items, q, id) ==
    CASE q.op = "create" -> \A k \in DOMAIN items : ~Clash(items[k].val, q.val)
      [] q.op = "delete" -> At(items, id) # {}
      [] q.op = "update" ->
           \E k \in At(items, id) : \A j \in DOMAIN items \ {k} :
               ~Clash(items[j].val, Patched(items[k].val, q.patch))

\* The IDs of a router are its own: none of them is there twice.
Without(items, id) ==
    IF At(items, id) = {} THEN items ELSE RemoveAt(items, CHOOSE k \in At(items, id) : TRUE)
ItemAt(items, id) == items[CHOOSE k \in DOMAIN items : items[k].id = id]

After(items, q, id, r, gen) ==
    CASE q.op = "create" -> Append(items, Item(r, gen, q.val))
      [] q.op = "delete" -> Without(items, id)
      [] q.op = "update" ->
           [k \in DOMAIN items |->
              IF items[k].id = id THEN [items[k] EXCEPT !.val = Patched(@, q.patch)]
                                  ELSE items[k]]

\* reverseOperation: what was created is deleted, what was deleted is
\* created anew, under another ID and at the end, and what was updated gets
\* the state it had back, except that a field it had not keeps its value.
PatchedBack(val, before) ==
    [f \in DOMAIN val |-> IF before[f] = Nothing THEN val[f] ELSE before[f]]
Reversed(items, q, r, gen) ==
    CASE q.op = "create" -> Without(items, <<r, gen>>)
      [] q.op = "delete" -> Append(items, Item(r, gen, q.before[r]))
      [] q.op = "update" ->
           [k \in DOMAIN items |->
              IF items[k].id = q.target[r][1]
              THEN [items[k] EXCEPT !.val = PatchedBack(@, q.before[r])] ELSE items[k]]

\* The item comes to stand before the destination.
Moved(items, id, dest) ==
    LET rest == Without(items, id)
        at == CHOOSE k \in DOMAIN rest : rest[k].id = dest
    IN  IF id = dest THEN items ELSE InsertAt(rest, at, ItemAt(items, id))

-----------------------------------------------------------------------------
(* Requests. "names" are the IDs of the master in the request, "refs" the  *)
(* content found for them there, "target" the IDs found on each router.    *)
(* "done" are the routers where its operation is in force until the group  *)
(* is finished or, when it failed ("undoing"), reversed; "before" what the *)
(* item was there. The others record what happened: "told", whether the    *)
(* sender has the answer ("heard") and acted on it ("yes"); "torn", that   *)
(* something else was applied in the middle of the request, or it looked   *)
(* in the middle of a group; "loose", that a content it looked for matched *)
(* twice; "blurred", that one of the matches differed in what is not       *)
(* compared; "left", that it failed and something of it stayed in force;   *)
(* "strewn", that it left routers in another order.                        *)

Request(op, names, val, patch, by) ==
    [op |-> op, names |-> names, val |-> val, patch |-> patch, by |-> by, refs |-> <<>>,
     todo |-> IF op = "create" THEN {} ELSE Routers,
     target |-> [r \in Routers |-> IF op = "create" THEN names ELSE Nothing],
     done |-> {}, undoing |-> FALSE, before |-> [r \in Routers |-> Nothing],
     reply |-> IF op = "refused" THEN "error" ELSE "none", told |-> "no",
     torn |-> FALSE, loose |-> FALSE, blurred |-> FALSE, left |-> FALSE, strewn |-> FALSE]

\* A body the handler cannot decode, or one without the fields it needs, is
\* answered 400 at once: "refused".
Arrive(op, names, val, patch, by) ==
    /\ Len(requests) < MaxRequests
    /\ requests' = Append(requests, Request(op, names, val, patch, by))

Running(q) == q.reply = "none"
Refuse(i) == requests' = [requests EXCEPT ![i].reply = "error"]

\* A group is in force on some router and not yet finished or reversed.
InForce(q) == Running(q) /\ q.done # {}
Unsettled(r) == \E j \in DOMAIN requests : InForce(requests[j]) /\ r \in requests[j].done

\* The item is fetched from the master; it must be there.
LookupMaster(i) ==
    LET q == requests[i]
        found == \A k \in DOMAIN q.names : At(conf[Master], q.names[k]) # {}
    IN  /\ Running(q) /\ Master \in q.todo
        /\ IF found
           THEN requests' = [requests EXCEPT
                               ![i].refs = [k \in DOMAIN q.names |->
                                              ItemAt(conf[Master], q.names[k]).val],
                               ![i].todo = @ \ {Master},
                               ![i].torn = @ \/ Unsettled(Master),
                               ![i].target[Master] = q.names]
           ELSE Refuse(i)
        /\ UNCHANGED conf

\* A router without the item is skipped (continue). A move posts to one
\* router before it looks at the next.
Posted(q) == \A r \in Routers : q.target[r] = Nothing
LookupBackup(i, r) ==
    LET q == requests[i]
        missing == \E k \in DOMAIN q.refs : Alike(conf[r], q.refs[k]) = {}
    IN  /\ Running(q) /\ q.refs # <<>> /\ r \in q.todo
        /\ q.op = "move" => Posted(q)
        /\ requests' = [requests EXCEPT
                          ![i].todo = @ \ {r},
                          ![i].target[r] =
                             IF missing THEN Nothing
                             ELSE [k \in DOMAIN q.refs |-> FirstMatch(conf[r], q.refs[k])],
                          ![i].torn = @ \/ Unsettled(r),
                          ![i].loose = @ \/ \E k \in DOMAIN q.refs :
                                               Cardinality(Alike(conf[r], q.refs[k])) > 1,
                          ![i].blurred = @ \/ \E k \in DOMAIN q.refs :
                                Alike(conf[r], q.refs[k]) # Matching(conf[r], q.refs[k])]
        /\ UNCHANGED conf

\* A GET that fails, or a POST of a move.
CallFails(i) ==
    /\ Running(requests[i])
    /\ requests[i].todo # {} \/ requests[i].op = "move"
    /\ Refuse(i)
    /\ UNCHANGED conf

Ready(q) == Running(q) /\ q.todo = {} /\ q.op # "move"
Touched(q) == {r \in Routers : q.target[r] # Nothing}
IdOn(q, r) == IF q.op = "create" THEN Nothing ELSE q.target[r][1]

\* The application of q falls in the middle of request p: some but not all
\* of the lookups of p were made, or an item that one of the two found may
\* have been another.
Amid(p, q) ==
    Running(p) /\ p.refs # <<>> /\ (p.todo # {} \/ p.loose \/ q.loose \/ p.op = "move")

Marked(i, q) ==
    [j \in DOMAIN requests |->
       IF j = i THEN q
       ELSE [requests[j] EXCEPT !.torn = @ \/ Amid(requests[j], requests[i])]]

\* The mutexes of Execute: no other group is in force on a router of this one.
Free(i) ==
    \A j \in DOMAIN requests \ {i} :
        InForce(requests[j]) => Touched(requests[j]) \cap Touched(requests[i]) = {}

\* The routers come in the order of their roles, the master first.
Turn(q, r) ==
    /\ Ready(q) /\ ~q.undoing
    /\ r \in Touched(q) \ q.done
    /\ Master \in Touched(q) \ q.done => r = Master

\* The next operation is in force on its router.
Takes(i, r) ==
    LET q == requests[i] IN
    /\ Turn(q, r) /\ Free(i)
    /\ Accepts(conf[r], q, IdOn(q, r))
    /\ conf' = [conf EXCEPT ![r] = After(@, q, IdOn(q, r), r, i)]

Apply(i, r) ==
    LET q == requests[i] IN
    /\ Takes(i, r)
    /\ requests' = Marked(i, [q EXCEPT
          !.done = @ \cup {r},
          !.before[r] = IF q.op = "create" THEN Nothing ELSE ItemAt(conf[r], IdOn(q, r)).val])

\* After a create or an update the items are listed again for the answer;
\* when that fails the answer is an error ("unsaid").
Finish(i) ==
    LET q == requests[i] IN
    /\ Ready(q) /\ ~q.undoing /\ q.done = Touched(q)
    /\ \E reply \in IF q.op = "delete" THEN {"ok"} ELSE {"ok", "unsaid"} :
          requests' = [requests EXCEPT ![i].reply = reply]
    /\ UNCHANGED conf

\* Mutant: what is in force stays so.
FailedForGood(q) == [q EXCEPT !.reply = "error"]

\* rollbackApplied follows, if there is something to take back.
Failed(q) == IF q.done = {} THEN [q EXCEPT !.reply = "error"] ELSE [q EXCEPT !.undoing = TRUE]

\* An operation is refused or its router fails, before or after it is in
\* force: when the answer or the row of the log is lost, nobody takes it back.
ApplyFails(i, r) ==
    LET q == requests[i] IN
    \/ /\ Turn(q, r)
       /\ requests' = [requests EXCEPT ![i] = Failed(q)]
       /\ UNCHANGED conf
    \/ /\ Takes(i, r)
       /\ requests' = Marked(i, [Failed(q) EXCEPT !.left = TRUE])

\* The rollback takes the routers in reverse order and goes on when one of
\* them fails.
TakeBack(i, r) ==
    LET q == requests[i]
        over == [q EXCEPT !.done = @ \ {r}, !.reply = IF q.done = {r} THEN "error" ELSE @]
        reversed == Reversed(conf[r], q, r, i)
        sticks == q.op = "update" /\ ItemAt(reversed, q.target[r][1]).val # q.before[r]
    IN  /\ Running(q) /\ q.undoing /\ r \in q.done
        /\ r = Master => q.done = {Master}
        /\ \/ /\ conf' = [conf EXCEPT ![r] = reversed]
              /\ requests' = Marked(i, [over EXCEPT !.left = @ \/ sticks,
                                                    !.strewn = @ \/ q.op = "delete"])
           \/ /\ requests' = [requests EXCEPT ![i] = [over EXCEPT !.left = TRUE]]
              /\ UNCHANGED conf

\* MoveFirewallRule posts without mutexes, a log row or a rollback.
PostMove(i, r) ==
    LET q == requests[i] IN
    /\ Running(q) /\ q.op = "move" /\ q.target[r] # Nothing
    /\ \A k \in 1..2 : At(conf[r], q.target[r][k]) # {}
    /\ conf' = [conf EXCEPT ![r] = Moved(@, q.target[r][1], q.target[r][2])]
    /\ requests' = [j \in DOMAIN requests |->
                      IF j = i THEN [q EXCEPT !.target[r] = Nothing, !.strewn = TRUE]
                      ELSE [requests[j] EXCEPT !.torn = @ \/ (/\ Amid(requests[j], q)
                                                              /\ requests[j].op = "move")]]

\* Mutant: a move is answered when the routers were looked up.
MoveEndsEarly(i) ==
    LET q == requests[i] IN
    /\ Running(q) /\ q.op = "move" /\ q.todo = {}
    /\ requests' = [requests EXCEPT ![i].reply = "ok", ![i].strewn = FALSE]
    /\ UNCHANGED conf

MoveEnds(i) ==
    LET q == requests[i] IN
    /\ Running(q) /\ q.op = "move" /\ q.todo = {} /\ Posted(q)
    /\ \E reply \in {"ok", "unsaid"} :
          requests' = [requests EXCEPT ![i].reply = reply, ![i].strewn = FALSE]
    /\ UNCHANGED conf

ServeStep(i) ==
    \/ LookupMaster(i)
    \/ \E r \in Routers \ {Master} : LookupBackup(i, r)
    \/ CallFails(i)
    \/ \E r \in Routers : Apply(i, r) \/ ApplyFails(i, r) \/ TakeBack(i, r)
    \/ Finish(i)
    \/ \E r \in Routers : PostMove(i, r)
    \/ MoveEnds(i)
Serve == \E i \in DOMAIN requests : ServeStep(i)

-----------------------------------------------------------------------------
(* Properties.                                                             *)

Applied(q) == q.reply \in {"ok", "unsaid"}
Copies(r, val) == Cardinality(Matching(conf[r], val))

Settled == \A i \in DOMAIN requests : ~InForce(requests[i]) /\ ~requests[i].left

\* Between the groups the routers hold the same items, however often each
\* of them, unless a request was applied in the middle of which another one
\* was, or which looked in the middle of another's group (the lookups of
\* UpdateFirewallRule, DeleteRoute, ... take no mutex), or which looked for a
\* route beside one that is only disabled; and unless a failed group left
\* something in force. In particular a group that was taken back leaves no
\* difference.
ItemsAgree ==
    Settled /\ (\A i \in DOMAIN requests :
                   Applied(requests[i]) => ~requests[i].torn /\ ~requests[i].blurred)
        => \A r \in Routers : \A k \in DOMAIN conf[r] :
               Copies(r, conf[r][k].val) = Copies(Master, conf[r][k].val)
               /\ Len(conf[r]) = Len(conf[Master])

\* They also hold them in the same order, which decides what a firewall
\* does, unless moreover an item was looked for that was there twice, a move
\* has reached only some routers, or a delete was rolled back.
OrderAgrees ==
    Settled /\ (\A i \in DOMAIN requests : ~requests[i].torn /\ ~requests[i].loose /\ ~requests[i].strewn)
        => \A r \in Routers : ContentOf(conf[r]) = ContentOf(conf[Master])

=============================================================================
