---------------------------- MODULE TunnelProofs ----------------------------
(***************************************************************************)
(* Tunnels, for any routers, tunnels and overlapping requests.             *)
(*                                                                         *)
(* What the form for tunnels sends was validated: the later steps do not   *)
(* validate the first one again, so the invariant says that a form past    *)
(* its first step is ready (FormInv).                                      *)
(*                                                                         *)
(* An IPsec tunnel is whole on every router, for any routers, tunnels and  *)
(* overlapping requests. The requests look the tunnel up long before their *)
(* group is applied, so the invariant says of a group that waits what is   *)
(* still true of it when other groups were applied in between: a group     *)
(* that removes a tunnel either has the ID of a peer that is gone for      *)
(* good, and will be refused, or names all the objects the tunnel has by   *)
(* now.                                                                    *)
(*                                                                         *)
(* On top of it: the routers agree unless an applied request was looked up *)
(* torn or in part (InStepInv), and the page shows what it was told of:    *)
(* the answers of a fetch are those of the routers still, unless a group   *)
(* was applied of which the page is yet to be told, or was not (ShownInv). *)
(*                                                                         *)
(* The types need an invariant too (TypesInv): what the page sends in an   *)
(* update was read from a list, that was read from the routers, where one  *)
(* group or another left it, or was about to. What a group modifies keeps  *)
(* its path and is no route, so the routes of a tunnel stay finite; and an *)
(* open form has the fields of a payload and, once it was validated, a     *)
(* name.                                                                   *)
(***************************************************************************)
EXTENDS TunnelsPage, FiniteSetTheorems, TLAPS

IsForm(f) ==
    DOMAIN f = {"open", "type", "edit", "step", "ready", "name", "settings", "mode",
                "transit", "routes", "locals", "remotes", "endpoints", "saving"}
IsSequence(s) == s \in Seq({s[k] : k \in DOMAIN s})

FormOK ==
    form.open =>
        /\ IsForm(form)
        /\ form.type \in Types /\ form.step \in Nat
        /\ form.type = "gre" => form.step = 0
        /\ form.step > 0 => form.ready
        /\ form.edit = NoTunnel => /\ form.locals \in Seq(Nets)
                                  /\ form.endpoints \in {{}, Routers}
FormInv == FormOK /\ IsSequence(requests)

\* What a step sends.
SendsValid ==
    \A i \in DOMAIN requests' \ DOMAIN requests :
        requests'[i].by = "page" /\ requests'[i].op # "delete" =>
            /\ ValidConnection(form)
            /\ form.type = "ipsec" => ValidNetworks(form)

-----------------------------------------------------------------------------
(* Sequences.                                                              *)

\* A function on the first numbers is a sequence of its values.
LEMMA FunctionIsSequence ==
    ASSUME NEW n \in Nat, NEW f, f = [k \in 1..n |-> f[k]]
    PROVE  IsSequence(f)
<1> DEFINE S == {f[k] : k \in DOMAIN f}
<1>1. \A k \in 1..n : f[k] \in S
  OBVIOUS
<1>2. f \in [1..n -> S]
  BY <1>1
<1> HIDE DEF S
<1>3. f \in Seq(S)
  BY <1>2
<1> QED  BY <1>3 DEF IsSequence, S

\* What Append does to a sequence of anything.
LEMMA AppendToSequence ==
    ASSUME NEW s, IsSequence(s), NEW e
    PROVE  /\ IsSequence(Append(s, e))
           /\ DOMAIN Append(s, e) = DOMAIN s \cup {Len(s) + 1}
           /\ Append(s, e)[Len(s) + 1] = e
           /\ \A k \in DOMAIN s : Append(s, e)[k] = s[k]
           /\ Len(s) \in Nat /\ DOMAIN s = 1..Len(s)
<1> DEFINE S == {s[k] : k \in DOMAIN s} \cup {e}
<1>1. s \in Seq(S)
  BY DEF IsSequence
<1>2. /\ Append(s, e) \in Seq(S)
      /\ \A k \in 1..Len(s) : Append(s, e)[k] = s[k]
      /\ Len(Append(s, e)) = Len(s) + 1
      /\ Append(s, e)[Len(s) + 1] = e
  BY <1>1
<1>3. /\ DOMAIN s = 1..Len(s) /\ Len(s) \in Nat
      /\ DOMAIN Append(s, e) = 1..(Len(s) + 1)
  BY <1>1, <1>2
<1>4. IsSequence(Append(s, e))
  <2>1. \A k \in 1..(Len(s) + 1) : Append(s, e)[k] \in {Append(s, e)[j] : j \in DOMAIN Append(s, e)}
    BY <1>3
  <2> QED  BY <1>2, <1>3, <2>1 DEF IsSequence
<1> QED  BY <1>2, <1>3, <1>4

\* A sequence whose elements change stays one.
LEMMA SameDomain ==
    ASSUME IsSequence(requests), NEW f, DOMAIN f = DOMAIN requests,
           f = [k \in DOMAIN f |-> f[k]]
    PROVE  IsSequence(f)
<1>1. requests \in Seq({requests[k] : k \in DOMAIN requests})
  BY DEF IsSequence
<1>2. DOMAIN requests = 1..Len(requests) /\ Len(requests) \in Nat
  BY <1>1
<1> QED  BY <1>2, FunctionIsSequence

-----------------------------------------------------------------------------
(* The form.                                                               *)

\* A form that is opened or reset is at its first step.
LEMMA FreshKeeps ==
    ASSUME NEW type, NEW edit, NEW rs \in {{}, Routers}, form' = InitialForm(type, edit, rs)
    PROVE  FormOK'
<1>0. Defaults.locals \in Seq(Nets)
  BY DEF Defaults
<1>1. ASSUME NEW t \in Types, NEW e, NEW ready, NEW v, NEW ends,
             form' = Form(t, e, ready, v, ends),
             e = NoTunnel => v = Defaults /\ ends = rs
      PROVE  FormOK'
  <2>1. /\ DOMAIN Form(t, e, ready, v, ends) =
              {"open", "type", "edit", "step", "ready", "name", "settings", "mode",
               "transit", "routes", "locals", "remotes", "endpoints", "saving"}
        /\ Form(t, e, ready, v, ends).type = t /\ Form(t, e, ready, v, ends).step = 0
        /\ Form(t, e, ready, v, ends).edit = e /\ Form(t, e, ready, v, ends).locals = v.locals
        /\ Form(t, e, ready, v, ends).endpoints = ends
    BY DEF Form
  <2> QED  BY <1>0, <1>1, <2>1 DEF FormOK, IsForm
<1>2. CASE form' = InitialGREForm(edit, rs)
  <2>1. \/ edit # NoTunnel /\ form' = Form("gre", edit, TRUE, edit, edit.endpoints)
        \/ form' = Form("gre", edit, FALSE, Defaults, rs)
    BY <1>2 DEF InitialGREForm
  <2>2. "gre" \in Types
    BY DEF Types
  <2> QED  BY <1>1, <2>1, <2>2
<1>3. CASE form' = InitialIPsecForm(edit, rs)
  <2>1. \/ edit # NoTunnel /\ form' = Form("ipsec", edit, TRUE, edit, edit.endpoints)
        \/ form' = Form("ipsec", edit, FALSE, Defaults, rs)
    BY <1>3 DEF InitialIPsecForm
  <2>2. "ipsec" \in Types
    BY DEF Types
  <2> QED  BY <1>1, <2>1, <2>2
<1> QED  BY <1>2, <1>3 DEF InitialForm

\* A form that changes fields none of its steps validate.
LEMMA FieldKeeps ==
    ASSUME FormOK, form.open, IsForm(form'), form'.open = form.open, form'.type = form.type,
           form'.step = form.step, form'.step > 0 => form'.ready = form.ready,
           form'.edit = form.edit, form'.endpoints = form.endpoints,
           form'.locals = form.locals \/ form'.locals \in Seq(Nets)
    PROVE  FormOK'
  BY DEF FormOK, IsForm

\* SubnetList.tsx adds a network at the end or takes one out: what it makes of
\* a list of networks is one.
LEMMA EditedSubnets ==
    ASSUME NEW s \in Seq(Nets), NEW l \in EditSubnets(s)
    PROVE  l \in Seq(Nets)
<1>1. ASSUME NEW n \in Nets, l = Append(s, n) PROVE l \in Seq(Nets)
  BY <1>1
<1>2. ASSUME NEW i \in 1..Len(s), l = RemoveAt(s, i) PROVE l \in Seq(Nets)
  <2>1. SubSeq(s, 1, i - 1) \in Seq(Nets) /\ SubSeq(s, i + 1, Len(s)) \in Seq(Nets)
    OBVIOUS
  <2> QED  BY <1>2, <2>1 DEF RemoveAt
<1> QED  BY <1>1, <1>2 DEF EditSubnets

\* Steps that leave the requests alone, or only change what they hold.
LEMMA NothingSent ==
    ASSUME DOMAIN requests' = DOMAIN requests
    PROVE  SendsValid
  BY DEF SendsValid

\* Filling in the form.
LEMMA TypingKeeps ==
    ASSUME FormInv,
           \/ GREFields
           \/ IPsecConnectionStep
           \/ IPsecPhase1Step
           \/ IPsecPhase2Step
           \/ IPsecNetworksStep
    PROVE  FormOK'
<1>1. form.open
  BY DEF GREFields, IPsecConnectionStep, IPsecPhase1Step, IPsecPhase2Step, IPsecNetworksStep
<1>2. IsForm(form) /\ form.type \in Types /\ form.step \in Nat
  BY <1>1 DEF FormInv, FormOK
<1>3. CASE Typed(SettingFields(form))
  <2>1. PICK s : form' = [form EXCEPT !.settings = s]
    BY <1>3 DEF Typed, SettingFields
  <2> QED  BY <1>1, <1>2, <2>1, FieldKeeps DEF IsForm, FormInv
<1>4. ASSUME NEW f \in NameField(form)
      PROVE  /\ IsForm(f) /\ f.open = form.open /\ f.type = form.type
             /\ f.step = form.step /\ f.ready = form.ready
             /\ f.edit = form.edit /\ f.locals = form.locals
             /\ f.endpoints = form.endpoints
  BY <1>2, <1>4 DEF NameField, IsForm
<1>5. ASSUME NEW f, IsForm(f), f.open = form.open, f.type = form.type, f.step = 0,
             form.step = 0, f.edit = form.edit, f.locals = form.locals,
             f.endpoints = form.endpoints,
             NEW show, Typed(RouterEndpointCards(f, show))
      PROVE  FormOK'
  <2>1. PICK ready, x : form' = UpdateEndpoint(f, ready, x)
    <3> DEFINE A == IF Blank(f) THEN {FALSE} ELSE BOOLEAN
               B == IF show THEN Transits \cup {NoTransit} ELSE {f.transit}
    <3>1. form' \in RouterEndpointCards(f, show)
      BY <1>5 DEF Typed
    <3>2. RouterEndpointCards(f, show) = {UpdateEndpoint(f, a, b) : a \in A, b \in B}
      BY SMT DEF RouterEndpointCards, A, B
    <3> HIDE DEF A, B
    <3> QED  BY <3>1, <3>2
  <2> QED  BY <1>1, <1>2, <1>5, <2>1, FieldKeeps DEF IsForm, FormInv, UpdateEndpoint
<1>6. CASE GREFields
  <2>1. form.step = 0
    BY <1>1, <1>6 DEF FormInv, FormOK, GREFields
  <2> QED  BY <1>3, <1>4, <1>5, <1>6, <2>1 DEF GREFields
<1>7. CASE IPsecConnectionStep
  <2>1. PICK f, mode :
          f \in NameField(form) /\ Typed(RouterEndpointCards([f EXCEPT !.mode = mode], mode = "route"))
    BY <1>7 DEF IPsecConnectionStep
  <2>2. form.step = 0
    BY <1>7 DEF IPsecConnectionStep
  <2> DEFINE g == [f EXCEPT !.mode = mode]
  <2>3. /\ IsForm(g) /\ g.open = form.open /\ g.type = form.type /\ g.step = 0
        /\ g.edit = form.edit /\ g.locals = form.locals /\ g.endpoints = form.endpoints
    <3>1. /\ IsForm(f) /\ f.open = form.open /\ f.type = form.type
          /\ f.step = form.step /\ f.edit = form.edit /\ f.locals = form.locals
          /\ f.endpoints = form.endpoints
      BY <1>4, <2>1
    <3> QED  BY <2>2, <3>1 DEF IsForm
  <2> QED  BY <1>5, <2>1, <2>2, <2>3
<1>8. CASE IPsecPhase1Step \/ IPsecPhase2Step
  BY <1>3, <1>8 DEF IPsecPhase1Step, IPsecPhase2Step
<1>9. CASE IPsecNetworksStep
  <2>1. \E l : \/ form' = [form EXCEPT !.routes = l]
               \/ form' = [form EXCEPT !.locals = l] /\ l \in EditSubnets(form.locals)
               \/ form' = [form EXCEPT !.remotes = l]
    BY <1>9 DEF IPsecNetworksStep, Typed
  <2>2. ASSUME NEW l, form' = [form EXCEPT !.routes = l] \/ form' = [form EXCEPT !.remotes = l]
        PROVE  FormOK'
    BY <1>1, <1>2, <2>2, FieldKeeps DEF IsForm, FormInv
  <2>3. ASSUME NEW l, form' = [form EXCEPT !.locals = l], l \in EditSubnets(form.locals)
        PROVE  FormOK'
    <3>1. CASE form.edit = NoTunnel
      <4>1. l \in Seq(Nets)
        BY <1>1, <2>3, <3>1, EditedSubnets DEF FormInv, FormOK
      <4> QED  BY <1>1, <1>2, <2>3, <4>1, FieldKeeps DEF IsForm, FormInv
    <3>2. CASE form.edit # NoTunnel
      BY <1>1, <1>2, <2>3, <3>2 DEF IsForm, FormInv, FormOK
    <3> QED  BY <3>1, <3>2
  <2> QED  BY <2>1, <2>2, <2>3
<1> QED  BY <1>6, <1>7, <1>8, <1>9

\* The buttons of the form that send nothing.
LEMMA ButtonsKeep ==
    ASSUME FormInv, HandleNext \/ HandleBack \/ Close
    PROVE  FormOK'
<1>1. form.open => IsForm(form) /\ form.type \in Types /\ form.step \in Nat
  BY DEF FormInv, FormOK
<1>2. CASE HandleNext
  <2>1. form.open /\ form.step < LastStep /\ ValidStep(form)
        /\ form' = [form EXCEPT !.step = @ + 1]
    BY <1>2 DEF HandleNext
  <2>2. form.type # "gre"
    BY <1>1, <2>1 DEF LastStep
  <2>3. form.ready
    BY <1>1, <2>1 DEF ValidStep, ValidConnection, FormInv, FormOK
  <2>4. /\ IsForm(form') /\ form'.type = form.type /\ form'.ready = form.ready
        /\ form'.edit = form.edit /\ form'.locals = form.locals
        /\ form'.endpoints = form.endpoints
        /\ form'.open = form.open /\ form'.step = form.step + 1
    BY <1>1, <2>1 DEF IsForm
  <2> QED  BY <1>1, <2>1, <2>2, <2>3, <2>4 DEF FormOK, IsForm, FormInv
<1>3. CASE HandleBack
  <2>1. form.open /\ form.step > 0 /\ form' = [form EXCEPT !.step = @ - 1]
    BY <1>3 DEF HandleBack
  <2>2. form.ready /\ form.type # "gre"
    BY <1>1, <2>1 DEF FormInv, FormOK
  <2>3. /\ IsForm(form') /\ form'.type = form.type /\ form'.ready = form.ready
        /\ form'.edit = form.edit /\ form'.locals = form.locals
        /\ form'.endpoints = form.endpoints
        /\ form'.open = form.open /\ form'.step = form.step - 1
    BY <1>1, <2>1 DEF IsForm
  <2> QED  BY <1>1, <2>1, <2>2, <2>3 DEF FormOK, IsForm, FormInv
<1>4. CASE Close
  BY <1>4 DEF Close, ClosedForm, FormOK
<1> QED  BY <1>2, <1>3, <1>4

-----------------------------------------------------------------------------
(* Requests.                                                               *)

\* A new request is the last one.
LEMMA ArriveAppends ==
    ASSUME FormInv, NEW op, NEW name, NEW body, NEW by, Arrive(op, name, body, by)
    PROVE  /\ IsSequence(requests)'
           /\ \A i \in DOMAIN requests' \ DOMAIN requests :
                 /\ requests'[i].op = op /\ requests'[i].body = body
                 /\ requests'[i].by = by
<1> DEFINE q == Request(op, name, body, by)
<1>1. requests' = Append(requests, q)
  BY DEF Arrive
<1>2. q.op = op /\ q.body = body /\ q.by = by
  BY DEF Request
<1> HIDE DEF q
<1>3. /\ IsSequence(requests')
      /\ DOMAIN requests' = DOMAIN requests \cup {Len(requests) + 1}
      /\ requests'[Len(requests) + 1] = q
  BY <1>1, AppendToSequence DEF FormInv
<1> QED  BY <1>2, <1>3 DEF IsSequence

\* Submit validates the last step; the first one was validated before.
LEMMA SubmitKeeps ==
    ASSUME FormInv, Submit
    PROVE  FormInv' /\ SendsValid
<1>1. /\ form.open /\ form.step = LastStep /\ ValidStep(form)
      /\ IsForm(form) /\ form.type \in Types /\ form.step \in Nat
  BY DEF Submit, FormInv, FormOK
<1>2. ValidConnection(form) /\ (form.type = "ipsec" => ValidNetworks(form))
  BY <1>1 DEF LastStep, ValidStep, ValidConnection, FormInv, FormOK, Types
<1> DEFINE op == IF form.edit = NoTunnel THEN "create" ELSE "update"
<1>3. Arrive(op, form.name, Payload(form), "page") /\ form' = [form EXCEPT !.saving = TRUE]
  BY DEF Submit
<1>4. FormOK'
  BY <1>1, <1>3, FieldKeeps DEF IsForm, FormInv
<1> HIDE DEF op
<1>5. IsSequence(requests)'
  BY <1>3, ArriveAppends
<1> QED  BY <1>2, <1>4, <1>5 DEF FormInv, SendsValid

\* The delete dialog.
LEMMA ConfirmDeleteKeeps ==
    ASSUME FormInv, ConfirmDelete
    PROVE  FormInv' /\ SendsValid
<1>1. Arrive("delete", target.name, DeleteBody(target.type), "page") /\ form' = form
  BY DEF ConfirmDelete
<1>2. /\ IsSequence(requests)'
      /\ \A i \in DOMAIN requests' \ DOMAIN requests : requests'[i].op = "delete"
  BY <1>1, ArriveAppends
<1> QED  BY <1>1, <1>2 DEF FormInv, FormOK, IsForm, SendsValid

\* The other administrator's requests are not the page's.
LEMMA OtherRequestKeeps ==
    ASSUME FormInv, OtherRequest
    PROVE  FormInv' /\ SendsValid
<1>1. PICK op, name, b : Arrive(op, name, b, "other")
  BY DEF OtherRequest
<1>2. form' = form
  BY DEF OtherRequest, overlays
<1>3. /\ IsSequence(requests)'
      /\ \A i \in DOMAIN requests' \ DOMAIN requests : requests'[i].by = "other"
  BY <1>1, ArriveAppends
<1> QED  BY <1>2, <1>3 DEF FormInv, FormOK, IsForm, SendsValid

\* The service works on requests that are there.
LEMMA ServeKeeps ==
    ASSUME FormInv, Serve
    PROVE  FormInv' /\ SendsValid
<1>1. PICK i \in 1..Len(requests) : ServeStep(i) /\ UNCHANGED <<queryVars, overlays>>
  BY DEF Serve
<1>2. DOMAIN requests' = DOMAIN requests /\ requests' = [k \in DOMAIN requests' |-> requests'[k]]
  BY <1>1 DEF ServeStep, Lookup, LookupFails, NotFound, Lock, ExecuteApplies, ExecuteFails
<1>3. IsSequence(requests')
  BY <1>2, SameDomain DEF FormInv
<1>4. form' = form
  BY <1>1 DEF overlays
<1> QED  BY <1>2, <1>3, <1>4, NothingSent DEF FormInv, FormOK, IsForm, IsSequence

\* An answer closes a form or ends its saving.
LEMMA AnswerKeeps ==
    ASSUME FormInv, NEW i, Answer(i)
    PROVE  FormInv' /\ SendsValid
<1>1. DOMAIN requests' = DOMAIN requests /\ requests' = [k \in DOMAIN requests' |-> requests'[k]]
  BY DEF Answer
<1>2. IsSequence(requests')
  BY <1>1, SameDomain DEF FormInv
<1>3. \/ form' = form
      \/ form' = ClosedForm
      \/ form.open /\ form' = [form EXCEPT !.saving = FALSE]
  BY DEF Answer, AnswerDelete, AnswerForm
<1>4. FormOK'
  <2>1. CASE form' = form
    BY <2>1 DEF FormInv, FormOK, IsForm
  <2>2. CASE form' = ClosedForm
    BY <2>2 DEF ClosedForm, FormOK
  <2>3. CASE form.open /\ form' = [form EXCEPT !.saving = FALSE]
    BY <2>3 DEF FormInv, FormOK, IsForm
  <2> QED  BY <1>3, <2>1, <2>2, <2>3
<1> QED  BY <1>1, <1>2, <1>4, NothingSent DEF FormInv, IsSequence

\* What only changes the form, or nothing of it.
LEMMA QuietKeeps ==
    ASSUME FormInv, UNCHANGED requests, FormOK'
    PROVE  FormInv' /\ SendsValid
  BY NothingSent DEF FormInv, IsSequence

\* A form opens with the page behind it, or is reset under the user's hands.
LEMMA OpenKeeps ==
    ASSUME FormInv, ClusterLoads \/ AddTunnelButton \/ TableRow \/ DetailsDrawer
    PROVE  FormInv' /\ SendsValid
<1>1. UNCHANGED requests
  BY DEF ClusterLoads, AddTunnelButton, TableRow, DetailsDrawer, Add, Edit, AskDelete, ShowDetails
<1>2. form' = form \/ \E type, edit, rs : rs \in {{}, Routers} /\ form' = InitialForm(type, edit, rs)
  BY DEF ClusterRouters, ClusterLoads, AddTunnelButton, TableRow, DetailsDrawer, Add, Edit, AskDelete, ShowDetails
<1>3. CASE form' = form
  BY <1>1, <1>3, QuietKeeps DEF FormInv, FormOK, IsForm
<1>4. CASE \E type, edit, rs : rs \in {{}, Routers} /\ form' = InitialForm(type, edit, rs)
  BY <1>1, <1>4, FreshKeeps, QuietKeeps
<1> QED  BY <1>2, <1>3, <1>4

\* Steps that leave the form alone or close it.
LEMMA PageKeeps ==
    ASSUME FormInv, Fetch \/ CancelDelete \/ LeaveCluster \/ ReturnToCluster \/ UNCHANGED vars
    PROVE  FormInv' /\ SendsValid
<1>1. UNCHANGED requests /\ (form' = form \/ form' = ClosedForm)
  BY DEF Fetch, FetchRouter, ListArrives, CancelDelete, LeaveCluster, ReturnToCluster, overlays, vars
<1>2. FormOK'
  BY <1>1 DEF FormInv, FormOK, IsForm, ClosedForm
<1> QED  BY <1>1, <1>2, QuietKeeps

\* The form sends only with Submit.
LEMMA TunnelFormKeeps ==
    ASSUME FormInv, TunnelForm
    PROVE  FormInv' /\ SendsValid
<1>1. CASE Submit
  BY <1>1, SubmitKeeps
<1>2. CASE GREFields \/ IPsecConnectionStep \/ IPsecPhase1Step \/ IPsecPhase2Step \/ IPsecNetworksStep
  <2>1. UNCHANGED requests
    BY <1>2 DEF GREFields, IPsecConnectionStep, IPsecPhase1Step, IPsecPhase2Step,
                IPsecNetworksStep, Typed
  <2> QED  BY <1>2, <2>1, TypingKeeps, QuietKeeps
<1>3. CASE HandleNext \/ HandleBack \/ Close
  <2>1. UNCHANGED requests
    BY <1>3 DEF HandleNext, HandleBack, Close
  <2> QED  BY <1>3, <2>1, ButtonsKeep, QuietKeeps
<1> QED  BY <1>1, <1>2, <1>3 DEF TunnelForm

\* Every step keeps the invariant and sends only what was validated.
LEMMA NextKeeps ==
    ASSUME FormInv, [Next]_vars
    PROVE  FormInv' /\ SendsValid
<1>1. CASE User
  BY <1>1, OpenKeeps, TunnelFormKeeps, ConfirmDeleteKeeps, PageKeeps DEF User
<1>2. CASE \E i \in 1..Len(requests) : Answer(i)
  BY <1>2, AnswerKeeps
<1> QED  BY <1>1, <1>2, OpenKeeps, OtherRequestKeeps, ServeKeeps, PageKeeps DEF Next

\* Every payload the form sends passed every step of its validation
\* (TunnelForm.tsx, handleNext and handleSubmit), whatever a later step, a
\* reset, a late answer or the other administrator does in between.
THEOREM PayloadsAreValid == Spec => SentIsValid
<1>1. Init => FormInv
  BY DEF Init, FormInv, FormOK, ClosedForm, IsSequence
<1>2. FormInv /\ [Next]_vars => FormInv'
  BY NextKeeps
<1>3. FormInv /\ [Next]_vars => [SendsValid]_vars
  BY NextKeeps
<1>4. Spec => [][SendsValid]_vars
  BY <1>1, <1>2, <1>3, PTL DEF Spec
<1> QED  BY <1>4 DEF SentIsValid, SendsValid

-----------------------------------------------------------------------------
(* The objects of a tunnel, the routers and the list.                      *)

\* Routes may outlive their peer and a GRE tunnel is one object: the others
\* have to come and go together.
Loose == {"gre", "route"}
Parts(ids) == {id \in ids : id[1] \notin Loose}
PartIds(objects) == Parts(Ids(objects))
Of(ids, name) == {id \in ids : id[2] = name}
Complete(ids) ==
    /\ \A p \in Core : \E id \in ids : id[1] = p /\ \A jd \in ids : jd[1] = p => jd = id
    /\ \E id \in ids : id[1] = "policy"
    /\ (\E id \in ids : id[1] = "bridge") <=> (\E id \in ids : id[1] = "address")
Whole(ids) == ids = {} \/ Complete(ids)

\* The generations whose IDs RouterOS gave to the objects of an applied group.
Gens == {0} \cup {g \in DOMAIN requests : Applied(requests[g])}
IsObject(o) == o = Object(o.path, o.name, o.key, o.gen, o.val)
OneEach(objects) == \A o, p \in objects : Id(o) = Id(p) /\ o.path \in Core => o = p

ObjectsOK(objects, gens) ==
    /\ \A o \in objects : IsObject(o) /\ o.gen \in gens
    /\ OneEach(objects)
    /\ \A id \in PartIds(objects) : Complete(Of(PartIds(objects), id[2]))

\* The groups that wait: they loosen or modify, create, or remove a tunnel.
GroupOK(g, i) ==
    /\ \A o \in g.add : IsObject(o) /\ o.gen = i
    /\ \A o \in g.set : IsObject(o)
    /\ OneEach(g.set) /\ OneEach(g.add)
Neutral(g) == (\A o \in g.add : o.path \in Loose) /\ \A id \in g.del : id[1] \in Loose
Creation(g, name) ==
    /\ g.set = {} /\ g.del = {}
    /\ \A o \in g.add : o.name = name
    /\ Complete(PartIds(g.add))
Removal(g, name, ids, gens) ==
    /\ g.add = {} /\ g.set = {}
    /\ \E p \in g.del :
          /\ p[1] = "peer" /\ p[2] = name /\ p[4] \in gens
          /\ p \in ids => Parts(g.del) = Of(ids, name)
Waits(g, i, name, ids, gens) ==
    GroupOK(g, i) /\ (Neutral(g) \/ Creation(g, name) \/ Removal(g, name, ids, gens))

\* What every request has.
Shaped(q) ==
    /\ DOMAIN q = {"op", "name", "body", "by", "todo", "ops", "reply",
                    "locked", "lost", "torn", "missed", "left"}
    /\ DOMAIN q.ops = Routers
    /\ q.locked => q.todo = {}
    /\ q.reply = "none" => ~q.left
Shapes == \A i \in DOMAIN requests : Shaped(requests[i])
BaseInv == FormInv /\ Shapes

\* The deletes that were not shown the whole tunnel.
Misled(q) == q.op = "delete" /\ ~(q.missed \subseteq {"route"})
Unmisled == NothingLeft /\ DeletesSawAll

RequestOK(q, i, config, gens) ==
    q.reply = "none" /\ ~Misled(q) =>
        \A r \in Routers \ q.todo :
            q.ops[r] = Nothing \/ Waits(q.ops[r], i, q.name, PartIds(config[r]), gens)

ConfOK == \A r \in Routers : ObjectsOK(conf[r], Gens)
RequestsOK == \A i \in DOMAIN requests : RequestOK(requests[i], i, conf, Gens)
WholeOK == Unmisled => ConfOK /\ RequestsOK
WholeInv == BaseInv /\ WholeOK

\* What applying a group of request i makes of the IDs of a router's parts.
Change(ids, after, name, i) ==
    \/ after = ids
    \/ /\ Of(ids, name) = {}
       /\ ids \subseteq after
       /\ \A id \in after \ ids : id[2] = name /\ id[4] = i
       /\ Complete(Of(after, name))
    \/ after = {id \in ids : id[2] # name}

-----------------------------------------------------------------------------
(* The objects of one router.                                              *)

\* Objects with one ID agree in path, name, key and generation.
LEMMA SameId ==
    ASSUME NEW o, NEW p
    PROVE  /\ Id(o)[1] = o.path /\ Id(o)[2] = o.name /\ Id(o)[4] = o.gen
           /\ Id(o) = Id(p) => /\ o.path = p.path /\ o.name = p.name
                               /\ o.key = p.key /\ o.gen = p.gen
  BY DEF Id

\* The IDs of the parts are those of the objects that are parts.
LEMMA PartIdsMembers ==
    ASSUME NEW objects, NEW id
    PROVE  id \in PartIds(objects) <=> \E o \in objects : o.path \notin Loose /\ Id(o) = id
<1>1. \A o : Id(o)[1] = o.path
  BY SameId
<1> QED  BY <1>1 DEF PartIds, Parts, Ids

\* A part is there exactly if its ID is.
LEMMA PartIsThere ==
    ASSUME NEW objects, NEW o, o.path \notin Loose
    PROVE  Id(o) \in PartIds(objects) <=> Id(o) \in Ids(objects)
<1>1. ASSUME NEW p \in objects, Id(p) = Id(o) PROVE p.path \notin Loose
  BY <1>1, SameId
<1> QED  BY <1>1, PartIdsMembers DEF Ids

\* What an object has to do with those after a group.
LEMMA AfterMembers ==
    ASSUME NEW objects, NEW g, NEW o
    PROVE  o \in After(objects, g) <=>
              \/ o \in objects /\ Id(o) \notin Ids(g.set) /\ Id(o) \notin g.del
              \/ o \in g.set \/ o \in g.add
  BY DEF After, Named

\* Groups of loose objects and modifications leave the parts in place: a
\* modification that names an ID that is gone is refused.
LEMMA NeutralEffect ==
    ASSUME NEW objects, NEW g, Accepts(objects, g), Neutral(g)
    PROVE  PartIds(After(objects, g)) = PartIds(objects)
<1>1. ASSUME NEW o \in After(objects, g), o.path \notin Loose
      PROVE  Id(o) \in PartIds(objects)
  <2>1. o \in objects \/ o \in g.set
    BY <1>1, AfterMembers DEF Neutral
  <2>2. Id(o) \in Ids(objects)
    BY <2>1 DEF Accepts, Named, Ids
  <2> QED  BY <1>1, <2>2, PartIsThere
<1>2. ASSUME NEW o \in objects, o.path \notin Loose
      PROVE  Id(o) \in PartIds(After(objects, g))
  <2>1. Id(o) \notin g.del
    BY <1>2, SameId DEF Neutral
  <2>2. CASE Id(o) \in Ids(g.set)
    <3>1. PICK p \in g.set : Id(p) = Id(o)
      BY <2>2 DEF Ids
    <3>2. p \in After(objects, g) /\ p.path \notin Loose
      BY <1>2, <3>1, AfterMembers, SameId
    <3> QED  BY <3>1, <3>2, PartIdsMembers
  <2>3. CASE Id(o) \notin Ids(g.set)
    <3>1. o \in After(objects, g)
      BY <2>1, <2>3, AfterMembers
    <3> QED  BY <1>2, <3>1, PartIdsMembers
  <2> QED  BY <2>2, <2>3
<1>3. ASSUME NEW id \in PartIds(After(objects, g)) PROVE id \in PartIds(objects)
  <2>1. PICK o \in After(objects, g) : o.path \notin Loose /\ Id(o) = id
    BY PartIdsMembers
  <2> QED  BY <1>1, <2>1
<1>4. ASSUME NEW id \in PartIds(objects) PROVE id \in PartIds(After(objects, g))
  <2>1. PICK o \in objects : o.path \notin Loose /\ Id(o) = id
    BY PartIdsMembers
  <2> QED  BY <1>2, <2>1
<1> QED  BY <1>3, <1>4

\* A tunnel is only created where no peer, and thus no part, has its name.
LEMMA CreationEffect ==
    ASSUME NEW objects, NEW g, NEW name, Accepts(objects, g), Creation(g, name),
           Whole(Of(PartIds(objects), name))
    PROVE  /\ PartIds(After(objects, g)) = PartIds(objects) \cup PartIds(g.add)
           /\ Of(PartIds(objects), name) = {}
           /\ \A o \in objects, p \in g.add : o.path \in Core => Id(o) # Id(p)
<1>1. \A o : o \in After(objects, g) <=> o \in objects \/ o \in g.add
  BY AfterMembers DEF Creation, Ids
<1>2. PartIds(After(objects, g)) = PartIds(objects) \cup PartIds(g.add)
  BY <1>1, PartIdsMembers
<1>3. PICK p \in g.add : p.path = "peer" /\ p.name = name
  <2>1. PICK id \in PartIds(g.add) : id[1] = "peer"
    BY DEF Creation, Complete, Core
  <2>2. PICK p \in g.add : Id(p) = id
    BY PartIdsMembers
  <2> QED  BY <2>1, <2>2, SameId DEF Creation
<1>4. ~\E o \in objects : o.path = "peer" /\ o.name = name
  BY <1>3 DEF Accepts, UniquePaths
<1>5. ~Complete(Of(PartIds(objects), name))
  <2>1. SUFFICES ASSUME NEW id \in PartIds(objects), id[2] = name, id[1] = "peer"
                 PROVE  FALSE
    BY DEF Complete, Of, Core
  <2>2. PICK o \in objects : Id(o) = id
    BY PartIdsMembers
  <2> QED  BY <1>4, <2>1, <2>2, SameId
<1>6. Of(PartIds(objects), name) = {}
  BY <1>5 DEF Whole
<1>7. ASSUME NEW o \in objects, NEW q \in g.add, o.path \in Core, Id(o) = Id(q)
      PROVE  FALSE
  <2>1. o.path = q.path /\ q.name = o.name
    BY <1>7, SameId
  <2>2. q.path \in UniquePaths
    BY <1>7, <2>1 DEF UniquePaths, Core
  <2> QED  BY <2>1, <2>2 DEF Accepts
<1> QED  BY <1>2, <1>6, <1>7

\* A tunnel that is removed loses all its parts and no other does.
LEMMA RemovalEffect ==
    ASSUME NEW objects, NEW g, NEW name, g.add = {}, g.set = {},
           Parts(g.del) = Of(PartIds(objects), name)
    PROVE  PartIds(After(objects, g)) = {id \in PartIds(objects) : id[2] # name}
<1>1. ASSUME NEW o \in objects, o.path \notin Loose
      PROVE  o \in After(objects, g) <=> Id(o)[2] # name
  <2>1. Id(o) \in PartIds(objects)
    BY <1>1, PartIdsMembers
  <2>2. Id(o) \in g.del <=> Id(o) \in Of(PartIds(objects), name)
    BY <1>1, SameId DEF Parts
  <2> QED  BY <2>1, <2>2, AfterMembers DEF Of, Ids
<1>2. After(objects, g) \subseteq objects
  BY AfterMembers
<1> QED  BY <1>1, <1>2, PartIdsMembers

-----------------------------------------------------------------------------
(* What a change of the parts keeps.                                       *)

\* Every tunnel is whole if those are that have a part.
LEMMA WholeByName ==
    ASSUME NEW ids
    PROVE  (\A id \in ids : Complete(Of(ids, id[2]))) <=> (\A name : Whole(Of(ids, name)))
<1>1. ASSUME \A id \in ids : Complete(Of(ids, id[2])), NEW name PROVE Whole(Of(ids, name))
  BY <1>1 DEF Whole, Of
<1>2. ASSUME \A name : Whole(Of(ids, name)), NEW id \in ids PROVE Complete(Of(ids, id[2]))
  <2>1. id \in Of(ids, id[2])
    BY DEF Of
  <2> QED  BY <1>2, <2>1 DEF Whole
<1> QED  BY <1>1, <1>2

\* Every tunnel stays whole.
LEMMA ChangeKeepsWhole ==
    ASSUME NEW ids, NEW after, NEW name, NEW i, Change(ids, after, name, i),
           NEW n, Whole(Of(ids, n))
    PROVE  Whole(Of(after, n))
<1>1. CASE n = name
  <2>1. Of({id \in ids : id[2] # name}, name) = {}
    BY DEF Of
  <2> QED  BY <1>1, <2>1 DEF Change, Whole
<1>2. CASE n # name
  <2>1. Of(after, n) = Of(ids, n)
    BY <1>2 DEF Change, Of
  <2> QED  BY <2>1
<1> QED  BY <1>1, <1>2

\* A peer that was looked up is gone for good once it is gone, and as long as
\* it is there the tunnel has the parts that were found.
LEMMA ChangeKeepsFound ==
    ASSUME NEW ids, NEW after, NEW name, NEW i, Change(ids, after, name, i),
           NEW id, id[4] # i, NEW n, id[2] = n, NEW parts, id \in ids => parts = Of(ids, n),
           id \in after
    PROVE  parts = Of(after, n)
<1>1. id \in ids
  BY DEF Change
<1>2. CASE n = name
  <2>1. id \in Of(ids, name)
    BY <1>1, <1>2 DEF Of
  <2>2. after = ids
    BY <1>2, <2>1 DEF Change
  <2> QED  BY <1>1, <2>2
<1>3. CASE n # name
  <2>1. Of(after, n) = Of(ids, n)
    BY <1>3 DEF Change, Of
  <2> QED  BY <1>1, <2>1
<1> QED  BY <1>2, <1>3

\* A group that is applied changes the parts of the tunnel it is about.
LEMMA AppliedGroup ==
    ASSUME NEW g, NEW i, NEW name, NEW objects, NEW gens, Accepts(objects, g),
           Waits(g, i, name, PartIds(objects), gens),
           Whole(Of(PartIds(objects), name)), OneEach(objects)
    PROVE  /\ Change(PartIds(objects), PartIds(After(objects, g)), name, i)
           /\ OneEach(After(objects, g))
<1>1. OneEach(g.set) /\ OneEach(g.add)
  BY DEF Waits, GroupOK
<1>2. CASE Neutral(g)
  <2>1. PartIds(After(objects, g)) = PartIds(objects)
    BY <1>2, NeutralEffect
  <2>2. \A o \in g.add : o.path \notin Core
    BY <1>2 DEF Neutral, Loose, Core
  <2> QED  BY <2>1, <2>2, <1>1, AfterMembers, SameId DEF Change, OneEach, Ids
<1>3. CASE Creation(g, name)
  <2>1. /\ PartIds(After(objects, g)) = PartIds(objects) \cup PartIds(g.add)
        /\ Of(PartIds(objects), name) = {}
        /\ \A o \in objects, p \in g.add : o.path \in Core => Id(o) # Id(p)
    BY <1>3, CreationEffect
  <2>2. \A id \in PartIds(g.add) : id[2] = name /\ id[4] = i
    BY <1>3, PartIdsMembers, SameId DEF Creation, Waits, GroupOK
  <2>3. Of(PartIds(After(objects, g)), name) = PartIds(g.add)
    BY <2>1, <2>2 DEF Of
  <2>4. Change(PartIds(objects), PartIds(After(objects, g)), name, i)
    BY <1>3, <2>1, <2>2, <2>3 DEF Change, Creation
  <2>5. OneEach(After(objects, g))
    BY <1>1, <1>3, <2>1, AfterMembers, SameId DEF OneEach, Creation
  <2> QED  BY <2>4, <2>5
<1>4. CASE Removal(g, name, PartIds(objects), gens)
  <2>1. PICK p \in g.del : p[1] = "peer" /\ (p \in PartIds(objects) => Parts(g.del) = Of(PartIds(objects), name))
    BY <1>4 DEF Removal
  <2>2. p \in PartIds(objects)
    BY <2>1 DEF Accepts, Named, PartIds, Parts, Loose
  <2>3. g.add = {} /\ g.set = {}
    BY <1>4 DEF Removal
  <2>4. PartIds(After(objects, g)) = {id \in PartIds(objects) : id[2] # name}
    BY <2>1, <2>2, <2>3, RemovalEffect
  <2>5. OneEach(After(objects, g))
    BY <2>3, AfterMembers DEF OneEach
  <2> QED  BY <2>4, <2>5 DEF Change
<1> QED  BY <1>2, <1>3, <1>4 DEF Waits

-----------------------------------------------------------------------------
(* The groups the service asks for.                                        *)

Creatable(b) == b.type # "gre" /\ b.mode = "policy" => 1 \in 1..Len(b.locals)

\* The fields of an object.
LEMMA ObjectFields ==
    ASSUME NEW path, NEW name, NEW key, NEW gen, NEW val
    PROVE  LET o == Object(path, name, key, gen, val) IN
           /\ o.path = path /\ o.name = name /\ o.key = key /\ o.gen = gen /\ o.val = val
           /\ IsObject(o)
  BY DEF Object, IsObject

\* An object that is modified keeps its ID.
LEMMA Modified ==
    ASSUME NEW id, NEW val, NEW p, p = Changed(id, val)
    PROVE  /\ IsObject(p) /\ p.path = id[1] /\ p.name = id[2] /\ p.key = id[3]
           /\ p.gen = id[4] /\ p.val = val
  BY ObjectFields DEF Changed

\* Routes are loose.
LEMMA RoutesAreLoose ==
    ASSUME NEW dsts, NEW copies, NEW name, NEW gen, NEW o \in RouteObjects(dsts, copies, name, gen)
    PROVE  IsObject(o) /\ o.path = "route" /\ o.name = name /\ o.gen = gen
<1>1. PICK key, n : o = Object("route", name, key, gen, n)
  BY DEF RouteObjects
<1> QED  BY <1>1, ObjectFields

\* The policies, the bridge and the address of a new tunnel.
LEMMA LinkObjects ==
    ASSUME NEW b, NEW name, NEW gen,
           NEW o \in IF b.mode = "policy" THEN SubnetPolicies(b, name, gen)
                     ELSE TransitObjects(b, name, gen) \cup RouteObjects(Nets, b.routes, name, gen)
    PROVE  IsObject(o) /\ o.name = name /\ o.gen = gen
           /\ o.path \in {"policy", "bridge", "address", "route"}
<1>1. CASE o \in SubnetPolicies(b, name, gen)
  <2>1. PICK i : o = Object("policy", name, <<i, "subnets">>, gen,
                            <<b.locals[i], IF i <= Len(b.remotes) THEN {b.remotes[i]} ELSE {}>>)
    BY <1>1 DEF SubnetPolicies
  <2> QED  BY <2>1, ObjectFields
<1>2. CASE o \in TransitObjects(b, name, gen)
  <2>1. \E path, key, val : /\ path \in {"policy", "bridge", "address"}
                          /\ o = Object(path, name, key, gen, val)
    BY <1>2 DEF TransitObjects
  <2> QED  BY <2>1, ObjectFields
<1>3. CASE o \in RouteObjects(Nets, b.routes, name, gen)
  BY <1>3, RoutesAreLoose
<1> QED  BY <1>1, <1>2, <1>3

\* BuildIPsecCreateOps makes a whole tunnel.
LEMMA IPsecIsWhole ==
    ASSUME NEW b, NEW name, NEW gen, b.mode = "policy" => 1 \in 1..Len(b.locals)
    PROVE  /\ \A o \in IPsecObjects(b, name, gen) : IsObject(o) /\ o.name = name /\ o.gen = gen
           /\ OneEach(IPsecObjects(b, name, gen))
           /\ Complete(PartIds(IPsecObjects(b, name, gen)))
<1> DEFINE all == IPsecObjects(b, name, gen)
           core(p) == Object(p, name, Only, gen, IF p = "peer" THEN <<b.settings, b.disabled>>
                                                               ELSE b.settings)
           links == IF b.mode = "policy" THEN SubnetPolicies(b, name, gen)
                    ELSE TransitObjects(b, name, gen) \cup RouteObjects(Nets, b.routes, name, gen)
<1>1. \A o : o \in all <=> (\E p \in Core : o = core(p)) \/ o \in links
  BY DEF IPsecObjects
<1>2. \A p : /\ core(p).path = p /\ core(p).name = name /\ core(p).gen = gen
             /\ core(p).key = Only /\ IsObject(core(p))
  BY ObjectFields
<1>3. \A o \in links : /\ IsObject(o) /\ o.name = name /\ o.gen = gen
                       /\ o.path \in {"policy", "bridge", "address", "route"}
  BY LinkObjects
<1>4. \/ \E o \in links : o.path = "policy" /\ ~\E p \in links : p.path \in {"bridge", "address"}
      \/ /\ \E o \in links : o.path = "policy"
         /\ \E o \in links : o.path = "bridge"
         /\ \E o \in links : o.path = "address"
  <2>1. CASE b.mode = "policy"
    <3>1. \A i \in 1..Len(b.locals) :
            Object("policy", name, <<i, "subnets">>, gen,
                   <<b.locals[i], IF i <= Len(b.remotes) THEN {b.remotes[i]} ELSE {}>>) \in links
      BY <2>1 DEF SubnetPolicies
    <3>2. \E o \in links : o.path = "policy"
      <4> DEFINE first == Object("policy", name, <<1, "subnets">>, gen,
                                 <<b.locals[1], IF 1 <= Len(b.remotes) THEN {b.remotes[1]} ELSE {}>>)
      <4>1. first \in links
        BY <2>1, <3>1
      <4>2. first.path = "policy"
        BY ObjectFields
      <4> QED  BY <4>1, <4>2
    <3>3. ASSUME NEW o \in links PROVE o.path = "policy"
      <4>1. PICK i : o = Object("policy", name, <<i, "subnets">>, gen,
                                <<b.locals[i], IF i <= Len(b.remotes) THEN {b.remotes[i]} ELSE {}>>)
        BY <2>1 DEF SubnetPolicies
      <4> QED  BY <4>1, ObjectFields
    <3> QED  BY <3>2, <3>3
  <2>2. CASE b.mode # "policy" /\ b.transit = NoTransit
    <3>1. Object("policy", name, <<0, "template">>, gen, <<NoTransit, {}>>) \in links
      BY <2>2 DEF TransitObjects
    <3>2. ASSUME NEW o \in links PROVE o.path \in {"policy", "route"}
      <4>1. \/ o = Object("policy", name, <<0, "template">>, gen, <<NoTransit, {}>>)
            \/ o \in RouteObjects(Nets, b.routes, name, gen)
        BY <2>2 DEF TransitObjects
      <4> QED  BY <4>1, ObjectFields, RoutesAreLoose
    <3> QED  BY <3>1, <3>2, ObjectFields
  <2>3. CASE b.mode # "policy" /\ b.transit # NoTransit
    <3>1. /\ Object("policy", name, <<0, "tunnel">>, gen, <<b.transit, {b.transit}>>) \in links
          /\ Object("bridge", name, Only, gen, b.transit) \in links
          /\ Object("address", name, Only, gen, b.transit) \in links
      BY <2>3 DEF TransitObjects
    <3> QED  BY <3>1, ObjectFields
  <2> QED  BY <2>1, <2>2, <2>3
<1> HIDE DEF all, links, core
<1>5. \A o \in all : IsObject(o) /\ o.name = name /\ o.gen = gen
  BY <1>1, <1>2, <1>3
<1>6. \A o \in all : o.path \in Core => o = core(o.path)
  BY <1>1, <1>2, <1>3 DEF Core
<1>7. OneEach(all)
  BY <1>6, SameId DEF OneEach
<1>8. Complete(PartIds(all))
  <2>1. ASSUME NEW p \in Core
        PROVE  \E id \in PartIds(all) : id[1] = p /\ \A jd \in PartIds(all) : jd[1] = p => jd = id
    <3>1. core(p) \in all /\ core(p).path = p /\ p \notin Loose
      BY <1>1, <1>2 DEF Core, Loose
    <3>2. Id(core(p)) \in PartIds(all) /\ Id(core(p))[1] = p
      BY <3>1, PartIdsMembers, SameId
    <3>3. ASSUME NEW jd \in PartIds(all), jd[1] = p PROVE jd = Id(core(p))
      <4>1. PICK o \in all : Id(o) = jd
        BY PartIdsMembers
      <4> QED  BY <1>6, <3>3, <4>1, SameId
    <3> QED  BY <3>2, <3>3
  <2>2. ASSUME NEW path \in {"policy", "bridge", "address"}
        PROVE  (\E id \in PartIds(all) : id[1] = path) <=> (\E o \in links : o.path = path)
    <3>1. path \notin Loose /\ path \notin Core
      BY DEF Loose, Core
    <3>2. ASSUME NEW o \in links, o.path = path PROVE \E id \in PartIds(all) : id[1] = path
      <4>1. Id(o) \in PartIds(all) /\ Id(o)[1] = path
        BY <1>1, <3>1, <3>2, PartIdsMembers, SameId
      <4> QED  BY <4>1
    <3>3. ASSUME NEW id \in PartIds(all), id[1] = path PROVE \E o \in links : o.path = path
      <4>1. PICK o \in all : Id(o) = id
        BY PartIdsMembers
      <4>2. o.path = path
        BY <3>3, <4>1, SameId
      <4> QED  BY <1>1, <1>2, <3>1, <4>2
    <3> QED  BY <3>2, <3>3
  <2>3. \A path \in {"policy", "bridge", "address"} :
          (\E id \in PartIds(all) : id[1] = path) <=> (\E o \in links : o.path = path)
    BY <2>2
  <2> QED  BY <1>4, <2>1, <2>3 DEF Complete
<1> QED  BY <1>5, <1>7, <1>8 DEF all

\* A create makes one object or a whole tunnel.
LEMMA CreateWaits ==
    ASSUME NEW b, NEW name, NEW i, NEW ids, NEW gens, Creatable(b)
    PROVE  Waits(CreateOps(b, name, i), i, name, ids, gens)
<1> DEFINE g == CreateOps(b, name, i)
<1>1. /\ g.add = IF b.type = "gre" THEN {GREObject(b, name, i)} ELSE IPsecObjects(b, name, i)
      /\ g.set = {} /\ g.del = {}
  BY DEF CreateOps, Group
<1>2. CASE b.type = "gre"
  <2>1. g.add = {GREObject(b, name, i)}
    BY <1>1, <1>2
  <2>2. \A o \in g.add : IsObject(o) /\ o.gen = i /\ o.path = "gre"
    BY <2>1, ObjectFields DEF GREObject
  <2>3. GroupOK(g, i) /\ Neutral(g)
    BY <1>1, <2>1, <2>2 DEF GroupOK, Neutral, OneEach, Loose
  <2> QED  BY <2>3 DEF Waits
<1>3. CASE b.type # "gre"
  <2>1. g.add = IPsecObjects(b, name, i)
    BY <1>1, <1>3
  <2>2. /\ \A o \in g.add : IsObject(o) /\ o.name = name /\ o.gen = i
        /\ OneEach(g.add) /\ Complete(PartIds(g.add))
    BY <1>3, <2>1, IPsecIsWhole DEF Creatable
  <2>3. GroupOK(g, i) /\ Creation(g, name)
    BY <1>1, <2>2 DEF GroupOK, Creation, OneEach
  <2> QED  BY <2>3 DEF Waits
<1> QED  BY <1>2, <1>3

\* What the parts of a tunnel on a router are.
LEMMA TaggedParts ==
    ASSUME NEW objects, NEW type, type # "gre", NEW name
    PROVE  Parts(Tagged(objects, type, name)) = Of(PartIds(objects), name)
<1>1. \A id : id \in Tagged(objects, type, name) <=>
             \E o \in objects : o.name = name /\ o.path # "gre" /\ Id(o) = id
  BY DEF Tagged, Ids
<1>2. \A id : id \in PartIds(objects) <=> \E o \in objects : o.path \notin Loose /\ Id(o) = id
  BY PartIdsMembers
<1> QED  BY <1>1, <1>2, SameId DEF Parts, Of, Loose

\* All objects of a GRE tunnel are interfaces, and of an IPsec tunnel none.
LEMMA TaggedPaths ==
    ASSUME NEW objects, NEW type, NEW name, NEW id \in Tagged(objects, type, name)
    PROVE  id[1] = "gre" <=> type = "gre"
<1>1. PICK o \in objects : Id(o) = id /\ (o.path = "gre" <=> type = "gre")
  BY DEF Tagged, Ids
<1> QED  BY <1>1, SameId

\* DeleteGRE removes interfaces only.
LEMMA DeleteGREWaits ==
    ASSUME NEW found, \A id \in found : id[1] = "gre", NEW i, NEW name, NEW ids, NEW gens
    PROVE  Waits(DeleteOps(found), i, name, ids, gens)
<1> DEFINE g == DeleteOps(found)
<1>1. g.add = {} /\ g.set = {} /\ g.del = found
  BY DEF DeleteOps, Group
<1>2. GroupOK(g, i) /\ Neutral(g)
  BY <1>1 DEF GroupOK, OneEach, Neutral, Loose
<1> QED  BY <1>2 DEF Waits

\* DeleteIPsec removes all parts when it was shown them.
LEMMA DeleteIPsecWaits ==
    ASSUME NEW objects, NEW gens, ObjectsOK(objects, gens), NEW name, NEW i, NEW seen,
           Has(seen, "peer"), Parts(seen) = Of(PartIds(objects), name)
    PROVE  Waits(DeleteOps(Found(seen)), i, name, PartIds(objects), gens)
<1> DEFINE found == Found(seen)
           g == DeleteOps(found)
           ids == Of(PartIds(objects), name)
<1>1. g.add = {} /\ g.set = {} /\ g.del = found
  BY DEF DeleteOps, Group
<1>2. GroupOK(g, i)
  BY <1>1 DEF GroupOK, OneEach
<1>3. PICK p \in seen : p[1] = "peer"
  BY DEF Has
<1>4. p \in ids /\ p \in found
  BY <1>3 DEF Parts, Loose, Found
<1>5. PICK o \in objects : Id(o) = p
  BY <1>4, PartIdsMembers DEF Of
<1>6. p[2] = name /\ p[4] \in gens
  BY <1>4, <1>5, SameId DEF Of, ObjectsOK
<1>7. Complete(ids)
  BY <1>4 DEF ObjectsOK, Of
<1>8. Parts(found) = ids
  <2>1. CASE Has(seen, "bridge")
    BY <2>1 DEF Found
  <2>2. CASE ~Has(seen, "bridge")
    <3>1. ~\E id \in ids : id[1] = "address"
      BY <1>7, <2>2 DEF Complete, Has, Parts
    <3>2. Parts(found) = {id \in Parts(seen) : id[1] # "address"}
      BY <2>2 DEF Found, Parts
    <3> QED  BY <3>1, <3>2
  <2> QED  BY <2>1, <2>2
<1>9. Removal(g, name, PartIds(objects), gens)
  BY <1>1, <1>3, <1>4, <1>6, <1>8 DEF Removal
<1> QED  BY <1>2, <1>9 DEF Waits

\* UpdateGRE modifies interfaces.
LEMMA UpdateGREWaits ==
    ASSUME NEW found, \A id \in found : id[1] = "gre", NEW b, NEW i, NEW name, NEW ids, NEW gens
    PROVE  Waits(UpdateGREOps(found, b), i, name, ids, gens)
<1> DEFINE g == UpdateGREOps(found, b)
<1>1. /\ g.add = {} /\ g.del = {}
      /\ g.set = {Changed(id, <<b.settings, b.disabled>>) : id \in found}
  BY DEF UpdateGREOps, Group
<1>2. ASSUME NEW p \in g.set PROVE IsObject(p) /\ p.path = "gre"
  <2>1. PICK id \in found : p = Changed(id, <<b.settings, b.disabled>>)
    BY <1>1
  <2> QED  BY <2>1, Modified
<1>3. GroupOK(g, i) /\ Neutral(g)
  BY <1>1, <1>2 DEF GroupOK, Neutral, OneEach, Core
<1> QED  BY <1>3 DEF Waits

\* UpdateIPsec adds and removes routes and modifies the rest.
LEMMA UpdateIPsecWaits ==
    ASSUME NEW found, NEW b, NEW i, NEW name, NEW ids, NEW gens
    PROVE  Waits(UpdateIPsecOps(found, b, name, i), i, name, ids, gens)
<1> DEFINE g == UpdateIPsecOps(found, b, name, i)
           core(path) == IF path = "peer" THEN <<b.settings, b.disabled>> ELSE b.settings
<1>1. /\ g.add = RouteObjects(Missing(found, b), b.routes, name, i)
      /\ g.set = NewCore(found, b) \cup NewTransit(found, b)
      /\ g.del = Undesired(found, b)
  BY DEF UpdateIPsecOps, Group
<1> HIDE DEF g
<1>2. \A o \in g.add : IsObject(o) /\ o.gen = i /\ o.path = "route"
  BY <1>1, RoutesAreLoose
<1>3. \A id \in g.del : id[1] = "route"
  BY <1>1 DEF Undesired, RoutesTo
<1>4. ASSUME NEW p \in g.set
      PROVE  IsObject(p) /\ (p.path \in Core => p.val = core(p.path))
  <2>1. CASE p \in NewCore(found, b)
    <3>1. PICK id \in found : p = Changed(id, core(id[1]))
      BY <2>1 DEF NewCore
    <3> QED  BY <3>1, Modified
  <2>2. CASE p \in NewTransit(found, b)
    <3>1. PICK id, val : id \in found /\ p = Changed(id, val) /\ id[1] \in {"bridge", "address", "policy"}
      <4>1. \/ p \in {Changed(id, b.transit) : id \in {jd \in found : jd[1] \in {"bridge", "address"}}}
            \/ p \in {Changed(id, <<b.transit, {b.transit}>>) : id \in {jd \in found : jd[1] = "policy"}}
        BY <2>2 DEF NewTransit
      <4> QED  BY <4>1
    <3> QED  BY <3>1, Modified DEF Core
  <2> QED  BY <1>1, <2>1, <2>2
<1>5. OneEach(g.set)
  BY <1>4, SameId DEF OneEach, IsObject
<1>6. OneEach(g.add)
  BY <1>2 DEF OneEach, Core
<1>7. GroupOK(g, i) /\ Neutral(g)
  BY <1>2, <1>3, <1>4, <1>5, <1>6 DEF GroupOK, Neutral, Loose
<1> QED  BY <1>7 DEF Waits, g

\* What a lookup makes of a router's answer.
LEMMA LookupWaits ==
    ASSUME NEW objects, NEW gens, ObjectsOK(objects, gens), NEW q, NEW i, NEW seen,
           \A id \in seen : id[1] = "gre" <=> q.body.type = "gre",
           q.op = "delete" => Differ(seen, Tagged(objects, q.body.type, q.name)) \subseteq {"route"}
    PROVE  \/ OpsFor(seen, q, i) = Nothing
           \/ Waits(OpsFor(seen, q, i), i, q.name, PartIds(objects), gens)
<1> DEFINE tagged == Tagged(objects, q.body.type, q.name)
           found == Found(seen)
<1>1. found \subseteq seen
  BY DEF Found
<1>2. CASE ~Has(seen, Anchor(q.body.type))
  BY <1>2 DEF OpsFor
<1>3. CASE Has(seen, Anchor(q.body.type)) /\ q.op = "delete"
  <2>1. OpsFor(seen, q, i) = DeleteOps(found)
    BY <1>3 DEF OpsFor
  <2>2. CASE q.body.type = "gre"
    <3>1. \A id \in found : id[1] = "gre"
      BY <1>1, <2>2
    <3> QED  BY <2>1, <3>1, DeleteGREWaits
  <2>3. CASE q.body.type # "gre"
    <3>1. \A id \in (seen \ tagged) \cup (tagged \ seen) : id[1] = "route"
      BY <1>3 DEF Differ
    <3>2. Parts(seen) = Parts(tagged)
      BY <3>1 DEF Parts, Loose
    <3>3. Has(seen, "peer")
      BY <1>3, <2>3 DEF Anchor
    <3>4. Parts(seen) = Of(PartIds(objects), q.name)
      BY <2>3, <3>2, TaggedParts
    <3> QED  BY <2>1, <3>3, <3>4, DeleteIPsecWaits
  <2> QED  BY <2>2, <2>3
<1>4. CASE Has(seen, Anchor(q.body.type)) /\ q.op # "delete"
  <2>1. CASE q.body.type = "gre"
    <3>1. OpsFor(seen, q, i) = UpdateGREOps(found, q.body)
      BY <1>4, <2>1 DEF OpsFor
    <3>2. \A id \in found : id[1] = "gre"
      BY <1>1, <2>1
    <3> QED  BY <3>1, <3>2, UpdateGREWaits
  <2>2. CASE q.body.type # "gre"
    <3>1. OpsFor(seen, q, i) = UpdateIPsecOps(found, q.body, q.name, i)
      BY <1>4, <2>2 DEF OpsFor
    <3> QED  BY <3>1, UpdateIPsecWaits
  <2> QED  BY <2>1, <2>2
<1> QED  BY <1>2, <1>3, <1>4

-----------------------------------------------------------------------------
(* What a step of the service does to the requests.                        *)

Asks(q, p) == p.op = q.op /\ p.name = q.name /\ p.body = q.body /\ p.by = q.by
SameFor(q, p) ==
    /\ Asks(q, p) /\ p.todo = q.todo /\ p.ops = q.ops /\ p.reply = q.reply
    /\ p.locked = q.locked /\ p.missed = q.missed /\ p.left = q.left
Served(i) ==
    /\ DOMAIN requests' = DOMAIN requests /\ requests[i].reply = "none"
    /\ requests' = [k \in DOMAIN requests |-> requests'[k]]
    /\ \A j \in DOMAIN requests :
          /\ Shaped(requests'[j]) /\ Asks(requests[j], requests'[j])
          /\ j # i => SameFor(requests[j], requests'[j])

\* The request of one lookup.
LookedUp(q, p, r, i, seen) ==
    /\ p.todo = q.todo \ {r}
    /\ p.missed = q.missed \cup Differ(seen, Tagged(conf[r], q.body.type, q.name))
    /\ \A s \in Routers : p.ops[s] = IF s = r THEN OpsFor(seen, q, i) ELSE q.ops[s]
    /\ p.reply = "none" /\ p.torn = q.torn /\ p.left = q.left /\ p.locked = q.locked

\* A request that is answered or locked.
Settled(q, p) ==
    /\ p.todo = q.todo /\ p.ops = q.ops /\ p.missed = q.missed /\ p.torn = q.torn

\* One request changes.
LEMMA OneChanges ==
    ASSUME BaseInv, NEW i \in DOMAIN requests, requests[i].reply = "none", NEW p,
           requests' = [requests EXCEPT ![i] = p], Shaped(p), Asks(requests[i], p)
    PROVE  Served(i) /\ requests'[i] = p /\ \A j \in DOMAIN requests : j # i => requests'[j] = requests[j]
<1>1. \A j \in DOMAIN requests : Shaped(requests[j])
  BY DEF BaseInv, Shapes
<1>2. /\ DOMAIN requests' = DOMAIN requests /\ requests'[i] = p
      /\ requests' = [k \in DOMAIN requests |-> requests'[k]]
      /\ \A j \in DOMAIN requests : j # i => requests'[j] = requests[j]
  OBVIOUS
<1>3. ASSUME NEW j \in DOMAIN requests
      PROVE  /\ Shaped(requests'[j]) /\ Asks(requests[j], requests'[j])
             /\ j # i => SameFor(requests[j], requests'[j])
  <2>1. CASE j = i
    BY <1>2, <2>1
  <2>2. CASE j # i
    BY <1>1, <1>2, <2>2 DEF Asks, SameFor
  <2> QED  BY <2>1, <2>2
<1> QED  BY <1>2, <1>3 DEF Served

LEMMA LookupDoes ==
    ASSUME BaseInv, NEW i \in DOMAIN requests, NEW r \in Routers, Lookup(i, r)
    PROVE  /\ Served(i) /\ conf' = conf /\ r \in requests[i].todo
           /\ \A j \in DOMAIN requests : j # i => requests'[j] = requests[j]
           /\ \E objects \in Answers(r, requests[i].body.type) :
                 LookedUp(requests[i], requests'[i], r, i,
                          Tagged(objects, requests[i].body.type, requests[i].name))
<1> DEFINE q == requests[i]
<1>1. Shaped(q)
  BY DEF BaseInv, Shapes
<1>2. PICK objects \in Answers(r, q.body.type) :
        requests' = [requests EXCEPT
          ![i].todo = @ \ {r},
          ![i].ops[r] = OpsFor(Tagged(objects, q.body.type, q.name), q, i),
          ![i].missed = @ \cup Differ(Tagged(objects, q.body.type, q.name),
                                       Tagged(conf[r], q.body.type, q.name))]
  BY DEF Lookup
<1>3. q.reply = "none" /\ r \in q.todo /\ conf' = conf
  BY DEF Lookup, Running
<1> DEFINE ids == Tagged(objects, q.body.type, q.name)
           ops == OpsFor(ids, q, i)
           more == Differ(ids, Tagged(conf[r], q.body.type, q.name))
           p == [q EXCEPT !.todo = @ \ {r}, !.ops = [q.ops EXCEPT ![r] = ops],
                          !.missed = @ \cup more]
<1> HIDE DEF ids, ops, more
<1>4. requests' = [requests EXCEPT ![i] = p]
  BY <1>2 DEF ids, ops, more
<1>5. /\ DOMAIN p = DOMAIN q /\ p.todo = q.todo \ {r} /\ p.missed = q.missed \cup more
      /\ p.ops = [q.ops EXCEPT ![r] = ops] /\ p.reply = "none"
      /\ p.op = q.op /\ p.name = q.name /\ p.body = q.body /\ p.by = q.by
      /\ p.torn = q.torn /\ p.left = q.left /\ p.locked = q.locked
  BY <1>1, <1>3 DEF Shaped
<1> HIDE DEF p, q
<1>6. DOMAIN p.ops = Routers /\ \A s \in Routers : p.ops[s] = IF s = r THEN ops ELSE q.ops[s]
  BY <1>1, <1>5 DEF Shaped
<1>7. Shaped(p) /\ Asks(q, p)
  BY <1>1, <1>3, <1>5, <1>6 DEF Shaped, Asks
<1>8. Served(i) /\ requests'[i] = p /\ \A j \in DOMAIN requests : j # i => requests'[j] = requests[j]
  BY <1>3, <1>4, <1>7, OneChanges DEF q
<1>9. LookedUp(q, p, r, i, ids)
  BY <1>5, <1>6 DEF LookedUp, ops, more
<1>10. LookedUp(q, requests'[i], r, i, Tagged(objects, q.body.type, q.name))
  BY <1>8, <1>9 DEF ids
<1> QED  BY <1>2, <1>3, <1>8, <1>10 DEF q

\* A request that is refused, not found or locked.
LEMMA QuietDoes ==
    ASSUME BaseInv, NEW i \in DOMAIN requests, LookupFails(i) \/ NotFound(i) \/ Lock(i)
    PROVE  /\ Served(i) /\ conf' = conf /\ Settled(requests[i], requests'[i])
           /\ requests'[i].left = requests[i].left /\ requests'[i].reply \in {"none", "error"}
           /\ \A j \in DOMAIN requests : j # i => requests'[j] = requests[j]
<1> DEFINE q == requests[i]
<1>1. Shaped(q)
  BY DEF BaseInv, Shapes
<1>2. q.reply = "none" /\ conf' = conf
  BY DEF LookupFails, NotFound, Lock, Running
<1>3. PICK p : /\ requests' = [requests EXCEPT ![i] = p]
               /\ \/ p = [q EXCEPT !.reply = "error"]
                  \/ p = [q EXCEPT !.locked = TRUE] /\ q.todo = {}
  BY DEF LookupFails, NotFound, Lock
<1> HIDE DEF q
<1>4. /\ Shaped(p) /\ Asks(q, p) /\ Settled(q, p) /\ p.left = q.left
      /\ p.reply \in {"none", "error"}
  BY <1>1, <1>2, <1>3 DEF Shaped, Asks, Settled
<1> QED  BY <1>2, <1>3, <1>4, OneChanges DEF q

LEMMA FailDoes ==
    ASSUME BaseInv, NEW i \in DOMAIN requests, ExecuteFails(i)
    PROVE  /\ Served(i) /\ Settled(requests[i], requests'[i]) /\ requests'[i].reply = "error"
           /\ (conf' = conf /\ ~requests'[i].left) \/ requests'[i].left
           /\ \A j \in DOMAIN requests : j # i => requests'[j].torn = requests[j].torn
<1> DEFINE q == requests[i]
           failed(left, hit) ==
             [j \in DOMAIN requests |->
                IF j = i THEN [q EXCEPT !.reply = "error", !.left = left]
                ELSE [requests[j] EXCEPT !.lost = @ \/ j \in hit]]
<1>1. \A j \in DOMAIN requests : Shaped(requests[j])
  BY DEF BaseInv, Shapes
<1>2. PICK left, hit : left \in BOOLEAN /\ requests' = failed(left, hit) /\ (left \/ conf' = conf)
  BY DEF ExecuteFails
<1>3. q.reply = "none"
  BY DEF ExecuteFails, Running
<1>4. /\ DOMAIN requests' = DOMAIN requests
      /\ requests' = [k \in DOMAIN requests |-> requests'[k]]
      /\ requests'[i] = [q EXCEPT !.reply = "error", !.left = left]
      /\ \A j \in DOMAIN requests :
            j # i => requests'[j] = [requests[j] EXCEPT !.lost = @ \/ j \in hit]
  BY <1>2
<1> HIDE DEF failed, q
<1>5. /\ Shaped(requests'[i]) /\ Asks(q, requests'[i]) /\ Settled(q, requests'[i])
      /\ requests'[i].reply = "error" /\ requests'[i].left = left
  BY <1>1, <1>4 DEF Shaped, Asks, Settled, q
<1>6. ASSUME NEW j \in DOMAIN requests, j # i
      PROVE  /\ Shaped(requests'[j]) /\ SameFor(requests[j], requests'[j])
             /\ requests'[j].torn = requests[j].torn
  BY <1>1, <1>4, <1>6 DEF Shaped, SameFor, Asks
<1>7. Served(i)
  <2>1. \A j \in DOMAIN requests : Shaped(requests'[j]) /\ Asks(requests[j], requests'[j])
    BY <1>5, <1>6 DEF SameFor, q
  <2> QED  BY <1>3, <1>4, <1>6, <2>1 DEF Served, q
<1> QED  BY <1>2, <1>5, <1>6, <1>7 DEF q

LEMMA ApplyDoes ==
    ASSUME BaseInv, NEW i \in DOMAIN requests, ExecuteApplies(i)
    PROVE  /\ Served(i) /\ Settled(requests[i], requests'[i]) /\ requests[i].todo = {}
           /\ requests'[i].reply \in {"ok", "unsaid"} /\ requests'[i].left = requests[i].left
           /\ \A r \in Touched(requests[i]) : Accepts(conf[r], requests[i].ops[r])
           /\ conf' = [r \in Routers |-> IF r \in Touched(requests[i])
                                         THEN After(conf[r], requests[i].ops[r]) ELSE conf[r]]
           /\ \A j \in DOMAIN requests :
                 j # i => requests'[j].torn = (requests[j].torn \/ BetweenLookups(requests[j]))
<1> DEFINE q == requests[i]
<1>1. \A j \in DOMAIN requests : Shaped(requests[j])
  BY DEF BaseInv, Shapes
<1>2. PICK reply \in {"ok", "unsaid"} :
        requests' = [j \in DOMAIN requests |->
                       IF j = i THEN [q EXCEPT !.reply = reply]
                       ELSE [requests[j] EXCEPT !.torn = @ \/ BetweenLookups(requests[j])]]
  BY DEF ExecuteApplies
<1>3. /\ q.reply = "none" /\ q.todo = {}
      /\ \A r \in Touched(q) : Accepts(conf[r], q.ops[r])
      /\ conf' = [r \in Routers |-> IF r \in Touched(q) THEN After(conf[r], q.ops[r]) ELSE conf[r]]
  BY <1>1 DEF ExecuteApplies, Running, Shaped
<1>4. /\ DOMAIN requests' = DOMAIN requests
      /\ requests' = [k \in DOMAIN requests |-> requests'[k]]
      /\ requests'[i] = [q EXCEPT !.reply = reply]
      /\ \A j \in DOMAIN requests : j # i =>
            requests'[j] = [requests[j] EXCEPT !.torn = @ \/ BetweenLookups(requests[j])]
  BY <1>2
<1> HIDE DEF q
<1>5. /\ Shaped(requests'[i]) /\ Asks(q, requests'[i]) /\ Settled(q, requests'[i])
      /\ requests'[i].reply = reply /\ requests'[i].left = q.left
  BY <1>1, <1>4 DEF Shaped, Asks, Settled, q
<1>6. ASSUME NEW j \in DOMAIN requests, j # i
      PROVE  /\ Shaped(requests'[j]) /\ SameFor(requests[j], requests'[j])
             /\ requests'[j].torn = (requests[j].torn \/ BetweenLookups(requests[j]))
  BY <1>1, <1>4, <1>6 DEF Shaped, SameFor, Asks
<1>7. Served(i)
  <2>1. \A j \in DOMAIN requests : Shaped(requests'[j]) /\ Asks(requests[j], requests'[j])
    BY <1>5, <1>6 DEF SameFor, q
  <2> QED  BY <1>3, <1>4, <1>6, <2>1 DEF Served, q
<1> QED  BY <1>2, <1>3, <1>5, <1>6, <1>7 DEF q

\* An answer that is taken.
LEMMA AnswerDoes ==
    ASSUME BaseInv, NEW i \in DOMAIN requests, Answer(i)
    PROVE  /\ requests' = [requests EXCEPT ![i].by = "answered"] /\ conf' = conf
           /\ DOMAIN requests' = DOMAIN requests /\ requests[i].reply # "none"
           /\ \A j \in DOMAIN requests : j # i => requests'[j] = requests[j]
           /\ Shaped(requests'[i]) /\ Settled(requests[i], requests'[i])
           /\ requests'[i].by = "answered" /\ requests[i].by = "page"
           /\ requests'[i].op = requests[i].op /\ requests'[i].name = requests[i].name
           /\ requests'[i].body = requests[i].body /\ requests'[i].reply = requests[i].reply
           /\ requests'[i].left = requests[i].left /\ requests'[i].locked = requests[i].locked
<1> DEFINE q == requests[i]
<1>1. Shaped(q)
  BY DEF BaseInv, Shapes
<1>2. /\ requests' = [requests EXCEPT ![i].by = "answered"] /\ conf' = conf
      /\ q.reply # "none" /\ q.by = "page"
  BY DEF Answer
<1>3. /\ DOMAIN requests' = DOMAIN requests /\ requests'[i] = [q EXCEPT !.by = "answered"]
      /\ \A j \in DOMAIN requests : j # i => requests'[j] = requests[j]
  BY <1>2
<1> HIDE DEF q
<1> QED  BY <1>1, <1>2, <1>3 DEF Shaped, Settled, q

\* The fields a request starts with.
LEMMA NewRequest ==
    ASSUME NEW op, NEW name, NEW body, NEW by
    PROVE  LET q == Request(op, name, body, by) IN
           /\ Shaped(q) /\ q.op = op /\ q.name = name /\ q.body = body /\ q.by = by
           /\ q.reply = (IF op = "create" /\ body.endpoints = {} THEN "error" ELSE "none")
           /\ q.todo = (IF op = "create" THEN {} ELSE Routers)
           /\ q.ops = [r \in Routers |-> IF op = "create" /\ r \in body.endpoints
                                         THEN CreateOps(body, name, Len(requests) + 1)
                                         ELSE Nothing]
           /\ q.missed = {} /\ ~q.left /\ ~q.torn /\ ~Applied(q)
<1> DEFINE q == Request(op, name, body, by)
<1>1. /\ DOMAIN q = {"op", "name", "body", "by", "todo", "ops", "reply",
                     "locked", "lost", "torn", "missed", "left"}
      /\ q.op = op /\ q.name = name /\ q.body = body /\ q.by = by
      /\ q.reply = (IF op = "create" /\ body.endpoints = {} THEN "error" ELSE "none")
      /\ q.todo = (IF op = "create" THEN {} ELSE Routers)
      /\ q.ops = [r \in Routers |-> IF op = "create" /\ r \in body.endpoints
                                    THEN CreateOps(body, name, Len(requests) + 1)
                                    ELSE Nothing]
      /\ q.missed = {} /\ q.left = FALSE /\ q.torn = FALSE /\ q.locked = FALSE
  BY DEF Request
<1> HIDE DEF q
<1>2. Shaped(q) /\ ~Applied(q)
  BY <1>1 DEF Shaped, Applied
<1> QED  BY <1>1, <1>2 DEF q

LEMMA ArriveDoes ==
    ASSUME BaseInv, NEW op, NEW name, NEW body, NEW by, Arrive(op, name, body, by)
    PROVE  /\ DOMAIN requests' = DOMAIN requests \cup {Len(requests) + 1}
           /\ requests'[Len(requests) + 1] = Request(op, name, body, by)
           /\ \A k \in DOMAIN requests : requests'[k] = requests[k]
           /\ Len(requests) + 1 \notin DOMAIN requests
           /\ Shapes'
<1> DEFINE q == Request(op, name, body, by)
           n == Len(requests) + 1
<1>1. requests' = Append(requests, q)
  BY DEF Arrive
<1>2. Shaped(q)
  BY NewRequest
<1> HIDE DEF q
<1>3. /\ DOMAIN requests' = DOMAIN requests \cup {n}
      /\ requests'[n] = q
      /\ \A k \in DOMAIN requests : requests'[k] = requests[k]
      /\ n \notin DOMAIN requests
  BY <1>1, AppendToSequence DEF BaseInv, FormInv
<1>4. Shapes'
  BY <1>2, <1>3 DEF Shapes, BaseInv
<1> QED  BY <1>3, <1>4 DEF q

\* Every step of the service works on one request.
LEMMA ServeOne ==
    ASSUME BaseInv, NEW i \in DOMAIN requests, ServeStep(i)
    PROVE  Served(i)
  BY LookupDoes, QuietDoes, FailDoes, ApplyDoes DEF ServeStep

-----------------------------------------------------------------------------
(* What a step of the system does to the requests.                         *)

\* So has what the other administrator sends and what there was before.
LEMMA BodiesAreCreatable ==
    ASSUME NEW b \in OtherBodies \cup Existing
    PROVE  Creatable(b)
<1>1. SUFFICES ASSUME b.type # "gre", b.mode = "policy" PROVE 1 \in 1..Len(b.locals)
  BY DEF Creatable
<1>2. b.type = "ipsec" /\ b.locals # <<>> /\ b.locals \in SubnetList
  BY <1>1, BodiesAssumption DEF CreateGRETunnelPayload, CreateIPsecTunnelPayload, Body, Types
<1> QED  BY <1>2 DEF SubnetList

\* The form for a tunnel in policy mode has a subnet when it sends a create.
LEMMA SubmitCreates ==
    ASSUME FormInv, Submit, form.edit = NoTunnel
    PROVE  Creatable(Payload(form)) /\ Payload(form).endpoints \in {{}, Routers}
<1>1. ASSUME form.type # "gre", form.mode = "policy" PROVE 1 \in 1..Len(form.locals)
  <2>1. form.locals \in Seq(Nets)
    BY DEF Submit, FormInv, FormOK
  <2>2. form.locals # <<>>
    BY <1>1 DEF Submit, LastStep, ValidStep, ValidNetworks
  <2> QED  BY <2>1, <2>2
<1>2. form.endpoints \in {{}, Routers}
  BY DEF Submit, FormInv, FormOK
<1> QED  BY <1>1, <1>2 DEF Creatable, Payload

\* A request arrives: a create for all routers, or for none.
Sends ==
    /\ OtherRequest \/ ConfirmDelete \/ Submit
    /\ \E op, name, body, by :
        /\ Arrive(op, name, body, by) /\ conf' = conf
        /\ op = "create" => Creatable(body) /\ body.endpoints \in {{}, Routers}
        /\ by \in {"page", "other"}
        /\ body.type \in Types \/ (target # NoTunnel /\ body.type = target.type)

ListsKept == UNCHANGED <<list, fetching, reading, doubt, here>>
Turns == UNCHANGED <<conf, requests>> /\ (Fetch \/ LeaveCluster \/ ReturnToCluster)

\* A step serves a request, answers one, sends one, turns to another cluster
\* or fetches a list, or leaves all of that alone.
LEMMA StepCases ==
    ASSUME FormInv, [Next]_vars
    PROVE  \/ UNCHANGED <<conf, requests>> /\ ListsKept
           \/ Turns
           \/ \E i \in DOMAIN requests : ServeStep(i) /\ ListsKept
           \/ \E i \in DOMAIN requests : Answer(i)
           \/ Sends /\ ListsKept
<1> DEFINE Goal == \/ UNCHANGED <<conf, requests>> /\ ListsKept
                   \/ Turns
                   \/ \E i \in DOMAIN requests : ServeStep(i) /\ ListsKept
                   \/ \E i \in DOMAIN requests : Answer(i)
                   \/ Sends /\ ListsKept
<1> SUFFICES Goal
  OBVIOUS
<1>1. DOMAIN requests = 1..Len(requests)
  BY DEF FormInv, IsSequence
<1>2. ASSUME Fetch \/ LeaveCluster \/ ReturnToCluster PROVE Goal
  BY <1>2 DEF Fetch, FetchRouter, ListArrives, LeaveCluster, ReturnToCluster, Turns
<1>3. ASSUME ClusterLoads \/ UNCHANGED vars PROVE Goal
  BY <1>3 DEF ClusterLoads, vars, ListsKept
<1>4. ASSUME \E i \in 1..Len(requests) : Answer(i) PROVE Goal
  BY <1>1, <1>4
<1>5. ASSUME OtherRequest PROVE Goal
  <2>1. PICK op, name, b : b \in OtherBodies /\ Arrive(op, name, b, "other")
    BY <1>5 DEF OtherRequest
  <2>2. Creatable(b) /\ b.endpoints = Routers /\ b.type \in Types
    BY <2>1, BodiesAreCreatable, BodiesAssumption
      DEF CreateGRETunnelPayload, CreateIPsecTunnelPayload, Types
  <2>3. conf' = conf /\ ListsKept
    BY <1>5 DEF OtherRequest, ListsKept, queryVars
  <2> QED  BY <1>5, <2>1, <2>2, <2>3 DEF Sends
<1>6. ASSUME Serve PROVE Goal
  BY <1>1, <1>6 DEF Serve, ListsKept, queryVars
<1>7. ASSUME ConfirmDelete PROVE Goal
  <2>1. /\ Arrive("delete", target.name, DeleteBody(target.type), "page") /\ conf' = conf
        /\ target # NoTunnel /\ ListsKept
    BY <1>7 DEF ConfirmDelete, ListsKept, queryVars
  <2>2. DeleteBody(target.type).type = target.type
    BY DEF DeleteBody
  <2> QED  BY <1>7, <2>1, <2>2 DEF Sends
<1>8. ASSUME Submit PROVE Goal
  <2> DEFINE op == IF form.edit = NoTunnel THEN "create" ELSE "update"
  <2>1. Arrive(op, form.name, Payload(form), "page") /\ conf' = conf /\ ListsKept
    BY <1>8 DEF Submit, ListsKept, queryVars
  <2>2. op = "create" => Creatable(Payload(form)) /\ Payload(form).endpoints \in {{}, Routers}
    BY <1>8, SubmitCreates
  <2>3. Payload(form).type \in Types
    BY <1>8 DEF Payload, Submit, FormInv, FormOK
  <2> HIDE DEF op
  <2> QED  BY <1>8, <2>1, <2>2, <2>3 DEF Sends
<1>9. ASSUME AddTunnelButton \/ TableRow \/ DetailsDrawer \/ CancelDelete
      PROVE  Goal
  BY <1>9 DEF AddTunnelButton, TableRow, DetailsDrawer, CancelDelete, Add, Edit, AskDelete,
              ShowDetails, ListsKept, queryVars
<1>10. ASSUME \/ GREFields \/ IPsecConnectionStep \/ IPsecPhase1Step \/ IPsecPhase2Step
              \/ IPsecNetworksStep \/ HandleNext \/ HandleBack \/ Close
       PROVE  Goal
  BY <1>10 DEF GREFields, IPsecConnectionStep, IPsecPhase1Step, IPsecPhase2Step,
               IPsecNetworksStep, Typed, HandleNext, HandleBack, Close, ListsKept, queryVars
<1> HIDE DEF Goal
<1> QED
  BY <1>2, <1>3, <1>4, <1>5, <1>6, <1>7, <1>8, <1>9, <1>10 DEF Next, User, TunnelForm

\* Every step keeps the requests in shape.
LEMMA NextKeepsBase ==
    ASSUME BaseInv, [Next]_vars
    PROVE  BaseInv'
<1>1. FormInv'
  BY NextKeeps DEF BaseInv
<1>2. ASSUME UNCHANGED <<conf, requests>> PROVE Shapes'
  BY <1>2 DEF BaseInv, Shapes
<1>3. ASSUME NEW i \in DOMAIN requests, ServeStep(i) PROVE Shapes'
  <2>1. Served(i)
    BY <1>3, ServeOne
  <2> QED  BY <2>1 DEF Served, Shapes
<1>4. ASSUME NEW i \in DOMAIN requests, Answer(i) PROVE Shapes'
  <2>1. /\ DOMAIN requests' = DOMAIN requests /\ Shaped(requests'[i])
        /\ \A j \in DOMAIN requests : j # i => requests'[j] = requests[j]
    BY <1>4, AnswerDoes
  <2>2. \A j \in DOMAIN requests : Shaped(requests[j])
    BY DEF BaseInv, Shapes
  <2> QED  BY <2>1, <2>2 DEF Shapes
<1>5. ASSUME Sends PROVE Shapes'
  BY <1>5, ArriveDoes DEF Sends
<1>6. Shapes'
  BY <1>2, <1>3, <1>4, <1>5, StepCases DEF BaseInv, Turns
<1> QED  BY <1>1, <1>6 DEF BaseInv

-----------------------------------------------------------------------------
(* Tunnels stay whole.                                                     *)

\* Waiting for others to be applied, with more generations settled by then.
LEMMA WaitingKeeps ==
    ASSUME NEW g, NEW i, NEW name, NEW ids, NEW gens, Waits(g, i, name, ids, gens),
           NEW more, gens \subseteq more,
           NEW after, NEW other, NEW j, j \notin gens, Change(ids, after, other, j)
    PROVE  Waits(g, i, name, after, more)
<1>1. GroupOK(g, i)
  BY DEF Waits, GroupOK
<1>2. ASSUME Removal(g, name, ids, gens) PROVE Removal(g, name, after, more)
  <2>1. PICK p \in g.del : /\ p[1] = "peer" /\ p[2] = name /\ p[4] \in gens
                           /\ p \in ids => Parts(g.del) = Of(ids, name)
    BY <1>2 DEF Removal
  <2>2. p \in after => Parts(g.del) = Of(after, name)
    BY <2>1, ChangeKeepsFound
  <2> QED  BY <1>2, <2>1, <2>2 DEF Removal
<1> QED  BY <1>1, <1>2 DEF Waits

\* A step that applies no group and asks for nothing new.
LEMMA QuietKeepsWhole ==
    ASSUME WholeInv, conf' = conf, DOMAIN requests' = DOMAIN requests,
           NEW i \in DOMAIN requests,
           \A j \in DOMAIN requests : j # i => SameFor(requests[j], requests'[j]),
           Applied(requests'[i]) <=> Applied(requests[i]),
           requests'[i].op = requests[i].op, requests[i].missed \subseteq requests'[i].missed,
           requests[i].left => requests'[i].left,
           RequestsOK => RequestOK(requests'[i], i, conf, Gens) \/ ~ConfOK
    PROVE  WholeOK'
<1>1. SUFFICES ASSUME Unmisled' PROVE ConfOK' /\ RequestsOK'
  BY DEF WholeOK
<1>2. \A j \in DOMAIN requests :
        /\ Applied(requests'[j]) <=> Applied(requests[j])
        /\ requests'[j].op = requests[j].op /\ requests[j].missed \subseteq requests'[j].missed
        /\ requests[j].left => requests'[j].left
  BY DEF SameFor, Asks, Applied
<1>3. Unmisled
  BY <1>1, <1>2 DEF Unmisled, NothingLeft, DeletesSawAll
<1>4. ConfOK /\ RequestsOK
  BY <1>3 DEF WholeInv, WholeOK
<1>5. Gens' = Gens
  BY <1>2 DEF Gens
<1>6. ASSUME NEW j \in DOMAIN requests PROVE RequestOK(requests'[j], j, conf, Gens)
  <2>1. CASE j = i
    BY <1>4, <2>1
  <2>2. CASE j # i
    BY <1>4, <2>2 DEF RequestsOK, RequestOK, SameFor, Asks, Misled
  <2> QED  BY <2>1, <2>2
<1> QED  BY <1>4, <1>5, <1>6 DEF ConfOK, RequestsOK

\* A request arrives.
LEMMA ArriveKeepsWhole ==
    ASSUME WholeInv, NEW op, NEW name, NEW body, NEW by, Arrive(op, name, body, by),
           op = "create" => Creatable(body), conf' = conf
    PROVE  WholeOK'
<1> DEFINE q == Request(op, name, body, by)
           n == Len(requests) + 1
<1>1. /\ DOMAIN requests' = DOMAIN requests \cup {n} /\ requests'[n] = q
      /\ \A k \in DOMAIN requests : requests'[k] = requests[k]
      /\ n \notin DOMAIN requests
  BY ArriveDoes DEF WholeInv
<1>2. /\ q.name = name /\ q.missed = {} /\ ~q.left /\ ~Applied(q)
      /\ q.todo = (IF op = "create" THEN {} ELSE Routers)
      /\ q.ops = [r \in Routers |-> IF op = "create" /\ r \in body.endpoints
                                    THEN CreateOps(body, name, n) ELSE Nothing]
  BY NewRequest
<1> HIDE DEF q, n
<1>3. ASSUME NEW r \in Routers \ q.todo
      PROVE  q.ops[r] = Nothing \/ Waits(q.ops[r], n, q.name, PartIds(conf[r]), Gens)
  <2>1. op = "create"
    BY <1>2, <1>3
  <2>2. q.ops[r] = IF r \in body.endpoints THEN CreateOps(body, name, n) ELSE Nothing
    BY <1>2, <2>1
  <2>3. Waits(CreateOps(body, name, n), n, name, PartIds(conf[r]), Gens)
    BY <2>1, CreateWaits
  <2> QED  BY <1>2, <2>2, <2>3
<1>4. RequestOK(q, n, conf, Gens)
  BY <1>3 DEF RequestOK
<1>5. SUFFICES ASSUME Unmisled' PROVE ConfOK' /\ RequestsOK'
  BY DEF WholeOK
<1>6. Unmisled
  BY <1>1, <1>5 DEF Unmisled, NothingLeft, DeletesSawAll
<1>7. ConfOK /\ RequestsOK
  BY <1>6 DEF WholeInv, WholeOK
<1>8. Gens' = Gens
  BY <1>1, <1>2 DEF Gens
<1> QED  BY <1>1, <1>4, <1>7, <1>8 DEF ConfOK, RequestsOK

\* Looking the tunnel up on the next router.
LEMMA LookupKeepsWhole ==
    ASSUME WholeInv, NEW i \in DOMAIN requests, NEW r \in Routers, Lookup(i, r)
    PROVE  WholeOK'
<1> DEFINE q == requests[i]
           p == requests'[i]
           tagged == Tagged(conf[r], q.body.type, q.name)
<1>1. /\ Served(i) /\ conf' = conf
      /\ \A j \in DOMAIN requests : j # i => requests'[j] = requests[j]
  BY LookupDoes DEF WholeInv
<1>2. PICK objects \in Answers(r, q.body.type) :
        LookedUp(q, p, r, i, Tagged(objects, q.body.type, q.name))
  BY LookupDoes DEF WholeInv
<1> DEFINE seen == Tagged(objects, q.body.type, q.name)
<1>3. /\ p.todo = q.todo \ {r} /\ p.missed = q.missed \cup Differ(seen, tagged)
      /\ \A s \in Routers : p.ops[s] = IF s = r THEN OpsFor(seen, q, i) ELSE q.ops[s]
      /\ p.reply = "none" /\ q.reply = "none" /\ p.left = q.left
      /\ p.op = q.op /\ p.name = q.name
  BY <1>1, <1>2 DEF LookedUp, Served, Asks
<1>4. ASSUME RequestsOK, ConfOK PROVE RequestOK(p, i, conf, Gens)
  <2>1. SUFFICES ASSUME ~Misled(p), NEW s \in Routers \ p.todo
                 PROVE  p.ops[s] = Nothing \/ Waits(p.ops[s], i, p.name, PartIds(conf[s]), Gens)
    BY DEF RequestOK
  <2>2. CASE s = r
    <3>1. ObjectsOK(conf[r], Gens)
      BY <1>4 DEF ConfOK
    <3>2. \A id \in seen : id[1] = "gre" <=> q.body.type = "gre"
      BY TaggedPaths
    <3>3. q.op = "delete" => Differ(seen, tagged) \subseteq {"route"}
      BY <1>3, <2>1 DEF Misled
    <3>4. \/ OpsFor(seen, q, i) = Nothing
          \/ Waits(OpsFor(seen, q, i), i, q.name, PartIds(conf[r]), Gens)
      <4> HIDE DEF q, p, seen
      <4> QED  BY <3>1, <3>2, <3>3, LookupWaits DEF tagged
    <3> QED  BY <1>3, <2>2, <3>4
  <2>3. CASE s # r
    <3>1. ~Misled(q) /\ s \in Routers \ q.todo
      BY <1>3, <2>1, <2>3 DEF Misled
    <3>2. RequestOK(q, i, conf, Gens)
      BY <1>4 DEF RequestsOK
    <3>3. q.ops[s] = Nothing \/ Waits(q.ops[s], i, q.name, PartIds(conf[s]), Gens)
      BY <1>3, <3>1, <3>2 DEF RequestOK
    <3> QED  BY <1>3, <2>3, <3>3
  <2> QED  BY <2>2, <2>3
<1>5. Applied(p) <=> Applied(q)
  BY <1>3 DEF Applied
<1>6. \A j \in DOMAIN requests : j # i => SameFor(requests[j], requests'[j])
  BY <1>1 DEF Served
<1> QED  BY <1>1, <1>3, <1>4, <1>5, <1>6, QuietKeepsWhole DEF Served

\* A request that is refused or locked, and an answer that is taken.
LEMMA SettledKeepsWhole ==
    ASSUME WholeInv, NEW i \in DOMAIN requests, conf' = conf,
           DOMAIN requests' = DOMAIN requests,
           \A j \in DOMAIN requests : j # i => SameFor(requests[j], requests'[j]),
           Settled(requests[i], requests'[i]), requests'[i].op = requests[i].op,
           requests'[i].name = requests[i].name,
           \/ requests'[i].reply = requests[i].reply
           \/ requests[i].reply = "none" /\ requests'[i].reply = "error",
           requests[i].left => requests'[i].left
    PROVE  WholeOK'
<1>1. Applied(requests'[i]) <=> Applied(requests[i])
  BY DEF Applied
<1>2. ASSUME RequestsOK PROVE RequestOK(requests'[i], i, conf, Gens)
  <2>1. RequestOK(requests[i], i, conf, Gens)
    BY <1>2 DEF RequestsOK
  <2> QED  BY <2>1 DEF RequestOK, Settled, Misled
<1> QED  BY <1>1, <1>2, QuietKeepsWhole DEF Settled

\* A group that fails leaves the routers as they are, or something in force.
LEMMA FailKeepsWhole ==
    ASSUME WholeInv, NEW i \in DOMAIN requests, ExecuteFails(i)
    PROVE  WholeOK'
<1>1. /\ Served(i) /\ Settled(requests[i], requests'[i]) /\ requests'[i].reply = "error"
      /\ (conf' = conf /\ ~requests'[i].left) \/ requests'[i].left
  BY FailDoes DEF WholeInv
<1>2. CASE requests'[i].left
  BY <1>1, <1>2 DEF WholeOK, Unmisled, NothingLeft, Served
<1>3. CASE ~requests'[i].left
  <2>1. Shaped(requests[i]) /\ requests[i].reply = "none"
    BY <1>1 DEF WholeInv, BaseInv, Shapes, Served
  <2>2. ~requests[i].left
    BY <2>1 DEF Shaped
  <2> QED  BY <1>1, <1>3, <2>2, SettledKeepsWhole DEF Served, Asks
<1> QED  BY <1>2, <1>3

\* Execute applies the group of one request on every router it concerns.
LEMMA ExecuteKeepsWhole ==
    ASSUME WholeInv, NEW i \in DOMAIN requests, ExecuteApplies(i)
    PROVE  WholeOK'
<1> DEFINE q == requests[i]
<1>1. /\ Served(i) /\ Settled(q, requests'[i]) /\ q.todo = {} /\ q.reply = "none"
      /\ requests'[i].reply \in {"ok", "unsaid"} /\ requests'[i].left = q.left
      /\ requests'[i].op = q.op /\ requests'[i].missed = q.missed
      /\ \A r \in Touched(q) : Accepts(conf[r], q.ops[r])
      /\ conf' = [r \in Routers |-> IF r \in Touched(q) THEN After(conf[r], q.ops[r]) ELSE conf[r]]
  BY ApplyDoes DEF WholeInv, Served, Settled, Asks
<1>2. /\ DOMAIN requests' = DOMAIN requests
      /\ \A j \in DOMAIN requests : j # i => SameFor(requests[j], requests'[j])
  BY <1>1 DEF Served
<1>3. SUFFICES ASSUME Unmisled' PROVE ConfOK' /\ RequestsOK'
  BY DEF WholeOK
<1>4. Unmisled /\ ~Misled(q)
  <2>1. Applied(requests'[i])
    BY <1>1 DEF Applied
  <2>2. NothingLeft
    BY <1>1, <1>2, <1>3 DEF Unmisled, NothingLeft, SameFor
  <2>3. DeletesSawAll
    BY <1>1, <1>2, <1>3, <2>1 DEF Unmisled, DeletesSawAll, SameFor, Asks, Applied
  <2>4. ~Misled(q)
    BY <1>1, <1>2, <1>3, <2>1 DEF Unmisled, DeletesSawAll, Misled
  <2> QED  BY <2>2, <2>3, <2>4 DEF Unmisled
<1>5. ConfOK /\ RequestsOK
  BY <1>4 DEF WholeInv, WholeOK
<1>6. Gens' = Gens \cup {i} /\ i \notin Gens
  <2>1. DOMAIN requests = 1..Len(requests) /\ Len(requests) \in Nat
    BY DEF WholeInv, BaseInv, FormInv, IsSequence
  <2>2. i # 0
    BY <2>1
  <2>3. Applied(requests'[i]) /\ ~Applied(q)
    BY <1>1 DEF Applied
  <2>4. \A j \in DOMAIN requests : j # i => (Applied(requests'[j]) <=> Applied(requests[j]))
    BY <1>2 DEF SameFor, Applied
  <2> QED  BY <1>2, <2>2, <2>3, <2>4 DEF Gens
<1>7. ASSUME NEW r \in Routers
      PROVE  /\ Change(PartIds(conf[r]), PartIds(conf'[r]), q.name, i)
             /\ OneEach(conf'[r])
             /\ \A o \in conf'[r] : IsObject(o) /\ o.gen \in Gens'
  <2>1. ObjectsOK(conf[r], Gens)
    BY <1>5 DEF ConfOK
  <2>2. CASE r \notin Touched(q)
    <3>1. conf'[r] = conf[r]
      BY <1>1, <2>2
    <3> QED  BY <2>1, <3>1, <1>6 DEF Change, ObjectsOK
  <2>3. CASE r \in Touched(q)
    <3>1. Waits(q.ops[r], i, q.name, PartIds(conf[r]), Gens)
      BY <1>1, <1>4, <1>5, <2>3 DEF Touched, RequestsOK, RequestOK
    <3>2. Accepts(conf[r], q.ops[r]) /\ conf'[r] = After(conf[r], q.ops[r])
      BY <1>1, <2>3
    <3> DEFINE g == q.ops[r]
    <3> HIDE DEF g, q
    <3>3. ASSUME NEW o \in conf'[r] PROVE IsObject(o) /\ o.gen \in Gens'
      <4>1. o \in conf[r] \/ o \in g.set \/ o \in g.add
        BY <3>2, <3>3, AfterMembers DEF g
      <4>2. CASE o \in g.set
        <5>1. IsObject(o)
          BY <3>1, <4>2 DEF g, Waits, GroupOK
        <5>2. PICK p \in conf[r] : Id(p) = Id(o)
          BY <3>2, <4>2 DEF g, Accepts, Named, Ids
        <5>3. o.gen = p.gen
          BY <5>2, SameId
        <5> QED  BY <1>6, <2>1, <5>1, <5>3 DEF ObjectsOK
      <4>3. CASE o \in g.add
        BY <1>6, <3>1, <4>3 DEF g, Waits, GroupOK
      <4> QED  BY <1>6, <2>1, <4>1, <4>2, <4>3 DEF ObjectsOK
    <3>4. Whole(Of(PartIds(conf[r]), q.name))
      BY <2>1, WholeByName DEF ObjectsOK
    <3> QED  BY <2>1, <3>1, <3>2, <3>3, <3>4, AppliedGroup DEF g, ObjectsOK
  <2> QED  BY <2>2, <2>3
<1>8. ConfOK'
  <2>1. ASSUME NEW r \in Routers, NEW n PROVE Whole(Of(PartIds(conf'[r]), n))
    <3>1. Whole(Of(PartIds(conf[r]), n))
      BY <1>5, WholeByName DEF ConfOK, ObjectsOK
    <3> QED  BY <1>7, <3>1, ChangeKeepsWhole
  <2>2. ASSUME NEW r \in Routers PROVE ObjectsOK(conf'[r], Gens')
    <3>1. \A id \in PartIds(conf'[r]) : Complete(Of(PartIds(conf'[r]), id[2]))
      BY <2>1, WholeByName
    <3> QED  BY <1>7, <3>1 DEF ObjectsOK
  <2> QED  BY <2>2 DEF ConfOK
<1>9. RequestsOK'
  <2>1. ASSUME NEW j \in DOMAIN requests PROVE RequestOK(requests'[j], j, conf', Gens')
    <3>1. CASE j = i
      BY <1>1, <3>1 DEF RequestOK
    <3>2. CASE j # i
      <4>1. ASSUME NEW r \in Routers \ requests[j].todo, requests[j].reply = "none",
                   ~Misled(requests[j]), requests[j].ops[r] # Nothing
            PROVE  Waits(requests[j].ops[r], j, requests[j].name, PartIds(conf'[r]), Gens')
        <5>1. Waits(requests[j].ops[r], j, requests[j].name, PartIds(conf[r]), Gens)
          BY <1>5, <4>1 DEF RequestsOK, RequestOK
        <5> QED  BY <1>6, <1>7, <5>1, WaitingKeeps
      <4>2. SameFor(requests[j], requests'[j])
        BY <1>2, <3>2
      <4> QED  BY <4>1, <4>2 DEF RequestOK, SameFor, Asks, Misled
    <3> QED  BY <3>1, <3>2
  <2> QED  BY <1>2, <2>1 DEF RequestsOK
<1> QED  BY <1>8, <1>9

\* Every step keeps tunnels whole.
LEMMA NextKeepsWhole ==
    ASSUME WholeInv, [Next]_vars
    PROVE  WholeInv'
<1>1. BaseInv'
  BY NextKeepsBase DEF WholeInv
<1>2. ASSUME UNCHANGED <<conf, requests>> PROVE WholeOK'
  <2>1. /\ Unmisled' = Unmisled /\ Gens' = Gens
    BY <1>2 DEF Unmisled, NothingLeft, DeletesSawAll, Gens
  <2>2. Unmisled' => ConfOK' /\ RequestsOK'
    BY <1>2, <2>1 DEF WholeInv, WholeOK, ConfOK, RequestsOK
  <2> QED  BY <2>2 DEF WholeOK
<1>3. ASSUME NEW i \in DOMAIN requests, ServeStep(i) PROVE WholeOK'
  <2>1. ASSUME LookupFails(i) \/ NotFound(i) \/ Lock(i) PROVE WholeOK'
    <3>1. /\ Served(i) /\ conf' = conf /\ Settled(requests[i], requests'[i])
          /\ requests'[i].left = requests[i].left /\ requests'[i].reply \in {"none", "error"}
      BY <2>1, QuietDoes DEF WholeInv
    <3>2. /\ requests'[i].op = requests[i].op /\ requests'[i].name = requests[i].name
          /\ DOMAIN requests' = DOMAIN requests /\ requests[i].reply = "none"
          /\ \A j \in DOMAIN requests : j # i => SameFor(requests[j], requests'[j])
      BY <3>1 DEF Served, Asks
    <3> QED  BY <3>1, <3>2, SettledKeepsWhole
  <2> QED  BY <1>3, <2>1, LookupKeepsWhole, FailKeepsWhole, ExecuteKeepsWhole DEF ServeStep
<1>4. ASSUME NEW i \in DOMAIN requests, Answer(i) PROVE WholeOK'
  <2>1. /\ conf' = conf /\ DOMAIN requests' = DOMAIN requests
        /\ \A j \in DOMAIN requests : j # i => SameFor(requests[j], requests'[j])
        /\ Settled(requests[i], requests'[i]) /\ requests'[i].op = requests[i].op
        /\ requests'[i].name = requests[i].name /\ requests'[i].reply = requests[i].reply
        /\ requests'[i].left = requests[i].left
    BY <1>4, AnswerDoes DEF WholeInv, SameFor, Asks
  <2> QED  BY <2>1, SettledKeepsWhole
<1>5. ASSUME Sends PROVE WholeOK'
  BY <1>5, ArriveKeepsWhole DEF Sends
<1>6. WholeOK'
  BY <1>2, <1>3, <1>4, <1>5, StepCases DEF WholeInv, BaseInv, Turns
<1> QED  BY <1>1, <1>6 DEF WholeInv

\* At the start every router has nothing or one created tunnel.
LEMMA InitWhole == Init => WholeInv
<1> SUFFICES ASSUME Init PROVE WholeInv
  OBVIOUS
<1>1. FormInv
  BY DEF Init, FormInv, FormOK, ClosedForm, IsSequence
<1>2. requests = <<>> /\ 0 \in Gens
  BY DEF Init, Gens
<1>3. PICK before \in {{}} \cup {CreateOps(b, name, 0).add : b \in Existing, name \in Names} :
        conf = [r \in Routers |-> before]
  BY DEF Init
<1>4. ObjectsOK(before, Gens)
  <2>2. CASE before = {}
    <3>1. PartIds({}) = {}
      BY PartIdsMembers
    <3> QED  BY <2>2, <3>1 DEF ObjectsOK, OneEach
  <2>3. ASSUME NEW b \in Existing, NEW name, before = CreateOps(b, name, 0).add
        PROVE  ObjectsOK(before, Gens)
    <3> DEFINE g == CreateOps(b, name, 0)
    <3>1. Waits(g, 0, name, {}, Gens)
      BY BodiesAreCreatable, CreateWaits
    <3>2. g.set = {} /\ g.del = {}
      BY DEF CreateOps, Group
    <3> HIDE DEF g
    <3>3. (\A o \in before : IsObject(o) /\ o.gen \in Gens) /\ OneEach(before)
      BY <1>2, <2>3, <3>1 DEF Waits, GroupOK, g
    <3>4. CASE Neutral(g)
      <4>1. PartIds(before) = {}
        BY <2>3, <3>4, PartIdsMembers DEF g, Neutral
      <4> QED  BY <3>3, <4>1 DEF ObjectsOK
    <3>5. CASE Creation(g, name)
      <4>1. \A id \in PartIds(before) : id[2] = name
        BY <2>3, <3>5, PartIdsMembers, SameId DEF g, Creation
      <4>2. Of(PartIds(before), name) = PartIds(before)
        BY <4>1 DEF Of
      <4>3. Complete(PartIds(before))
        BY <2>3, <3>5 DEF g, Creation
      <4> QED  BY <3>3, <4>1, <4>2, <4>3 DEF ObjectsOK
    <3>6. ~Removal(g, name, {}, Gens)
      BY <3>2 DEF Removal
    <3> QED  BY <3>1, <3>4, <3>5, <3>6 DEF Waits
  <2> QED  BY <1>3, <2>2, <2>3
<1>5. ConfOK
  BY <1>3, <1>4 DEF ConfOK
<1>6. RequestsOK /\ Shapes
  BY <1>2 DEF RequestsOK, Shapes
<1> QED  BY <1>1, <1>5, <1>6 DEF WholeInv, BaseInv, WholeOK

\* What the invariant says of the objects that carry the name of a tunnel.
LEMMA WholeTunnel ==
    ASSUME NEW objects, NEW gens, ObjectsOK(objects, gens), NEW name
    PROVE  WholeOn(Tagged(objects, "ipsec", name))
<1> DEFINE tagged == Tagged(objects, "ipsec", name)
           ids == Of(PartIds(objects), name)
<1>1. Parts(tagged) = ids
  BY TaggedParts
<1>2. \A id \in tagged : id[1] # "gre"
  BY TaggedPaths
<1>3. Whole(ids)
  BY WholeByName DEF ObjectsOK
<1> HIDE DEF tagged, ids
<1>4. \A path : path \notin Loose => {id \in tagged : id[1] = path} = {id \in ids : id[1] = path}
  BY <1>1 DEF Parts
<1>5. CASE Has(tagged, "peer")
  <2>1. Complete(ids)
    BY <1>1, <1>3, <1>5 DEF Whole, Has, Parts, Loose
  <2>2. ASSUME NEW p \in Core PROVE Cardinality({id \in tagged : id[1] = p}) = 1
    <3>1. PICK id \in ids : id[1] = p /\ \A jd \in ids : jd[1] = p => jd = id
      BY <2>1 DEF Complete
    <3>2. {jd \in tagged : jd[1] = p} = {id}
      BY <1>4, <3>1 DEF Core, Loose
    <3> QED  BY <3>2, FS_Singleton
  <2>3. \A path \in {"policy", "bridge", "address"} :
          Has(tagged, path) <=> (\E id \in ids : id[1] = path)
    BY <1>4 DEF Has, Loose
  <2> QED  BY <1>5, <2>1, <2>2, <2>3 DEF Complete, WholeOn, tagged
<1>6. CASE ~Has(tagged, "peer")
  <2>1. ids = {}
    BY <1>1, <1>3, <1>6 DEF Whole, Complete, Core, Has, Parts
  <2>2. \A id \in tagged : id[1] = "route"
    BY <1>1, <1>2, <2>1 DEF Parts, Loose
  <2> QED  BY <1>6, <2>2 DEF WholeOn, tagged
<1> QED  BY <1>5, <1>6

\* The parts of an IPsec tunnel come and go together on every router
\* (BuildIPsecCreateOps, BuildIPsecDeleteOps), whatever other requests were
\* served between a request's lookups and its group, unless a delete was
\* shown a part of it only or a rollback left something.
THEOREM TunnelsAreWhole == Spec => []TunnelIsWhole
<1>1. WholeInv => TunnelIsWhole
  BY WholeTunnel DEF WholeInv, WholeOK, Unmisled, ConfOK, TunnelIsWhole
<1>2. WholeInv /\ [Next]_vars => WholeInv'
  BY NextKeepsWhole
<1> QED  BY <1>1, <1>2, InitWhole, PTL DEF Spec

-----------------------------------------------------------------------------
(* The routers agree.                                                      *)

Clean ==
    NothingLeft /\ \A i \in DOMAIN requests :
                      Applied(requests[i]) => ~requests[i].torn /\ requests[i].missed = {}

\* A group whose lookups no other group fell between, and saw all, is the
\* same on every router, and what the next lookup would say again.
InStep(q, i, config) ==
    q.reply = "none" /\ ~q.torn /\ q.missed = {} =>
        /\ \A r, s \in Routers \ q.todo : q.ops[r] = q.ops[s]
        /\ q.todo # {} =>
              \A r \in Routers \ q.todo :
                  q.ops[r] = OpsFor(Tagged(config[r], q.body.type, q.name), q, i)

AllInStep ==
    /\ \A r, s \in Routers : conf[r] = conf[s]
    /\ \A i \in DOMAIN requests : InStep(requests[i], i, conf)
InStepInv == BaseInv /\ (Clean => AllInStep)

\* What a lookup makes of an answer depends on what was asked only.
LEMMA SameQuestion ==
    ASSUME NEW q, NEW p, p.op = q.op, p.name = q.name, p.body = q.body, NEW ids, NEW i
    PROVE  OpsFor(ids, p, i) = OpsFor(ids, q, i)
  BY DEF OpsFor

\* A lookup that saw all there was.
LEMMA SawAll ==
    ASSUME NEW ids, NEW jds, Differ(ids, jds) = {}
    PROVE  ids = jds
<1>1. \A id : id \notin ids \ jds /\ id \notin jds \ ids
  <2>1. ASSUME NEW id \in (ids \ jds) \cup (jds \ ids) PROVE id[1] \in Differ(ids, jds)
    BY DEF Differ
  <2> QED  BY <2>1
<1> QED  BY <1>1

\* Requests that go on as they were are as much in step.
LEMMA SameInStep ==
    ASSUME NEW q, NEW p, SameFor(q, p), p.torn => q.torn \/ BetweenLookups(q),
           q.torn => p.torn, NEW i, NEW config, InStep(q, i, config)
    PROVE  InStep(p, i, config)
<1>1. \A ids : OpsFor(ids, p, i) = OpsFor(ids, q, i)
  BY SameQuestion DEF SameFor, Asks
<1> QED  BY <1>1 DEF InStep, SameFor, Asks

\* A step that applies no group and looks nothing up.
LEMMA QuietStaysInStep ==
    ASSUME InStepInv, BaseInv', conf' = conf, DOMAIN requests' = DOMAIN requests,
           NEW i \in DOMAIN requests,
           \A j \in DOMAIN requests : j # i =>
               SameFor(requests[j], requests'[j]) /\ requests'[j].torn = requests[j].torn,
           Settled(requests[i], requests'[i]), Asks(requests[i], requests'[i]) \/ requests'[i].reply # "none",
           \/ requests'[i].reply = requests[i].reply
           \/ requests[i].reply = "none" /\ requests'[i].reply \in {"none", "error"},
           requests[i].left => requests'[i].left
    PROVE  InStepInv'
<1>1. SUFFICES ASSUME Clean' PROVE AllInStep'
  BY DEF InStepInv
<1>2. Applied(requests[i]) => Applied(requests'[i])
  BY DEF Applied
<1>3. Clean
  BY <1>1, <1>2 DEF Clean, NothingLeft, Settled, SameFor, Applied
<1>4. AllInStep
  BY <1>3 DEF InStepInv
<1>5. ASSUME NEW j \in DOMAIN requests PROVE InStep(requests'[j], j, conf)
  <2>1. InStep(requests[j], j, conf)
    BY <1>4 DEF AllInStep
  <2>2. CASE j # i
    BY <2>1, <2>2, SameInStep
  <2>3. CASE j = i
    <3>1. CASE requests'[i].reply # "none"
      BY <2>3, <3>1 DEF InStep
    <3>2. CASE requests'[i].reply = "none"
      <4>1. requests[i].reply = "none" /\ Asks(requests[i], requests'[i])
        BY <3>2
      <4>2. \A ids : OpsFor(ids, requests'[i], i) = OpsFor(ids, requests[i], i)
        BY <4>1, SameQuestion DEF Asks
      <4> QED  BY <2>1, <2>3, <4>1, <4>2 DEF InStep, Settled, Asks
    <3> QED  BY <3>1, <3>2
  <2> QED  BY <2>2, <2>3
<1> QED  BY <1>4, <1>5 DEF AllInStep

\* A new request is in step: a create has a group for every router.
LEMMA ArriveInStep ==
    ASSUME InStepInv, BaseInv', Sends
    PROVE  InStepInv'
<1>1. PICK op, name, body, by :
        /\ Arrive(op, name, body, by) /\ conf' = conf
        /\ op = "create" => body.endpoints \in {{}, Routers}
  BY DEF Sends
<1> DEFINE q == Request(op, name, body, by)
           n == Len(requests) + 1
<1>2. /\ DOMAIN requests' = DOMAIN requests \cup {n} /\ requests'[n] = q
      /\ \A k \in DOMAIN requests : requests'[k] = requests[k]
      /\ n \notin DOMAIN requests
  BY <1>1, ArriveDoes DEF InStepInv
<1>3. /\ q.reply = (IF op = "create" /\ body.endpoints = {} THEN "error" ELSE "none")
      /\ q.todo = (IF op = "create" THEN {} ELSE Routers)
      /\ q.ops = [r \in Routers |-> IF op = "create" /\ r \in body.endpoints
                                    THEN CreateOps(body, name, n) ELSE Nothing]
  BY NewRequest
<1> HIDE DEF q, n
<1>4. InStep(q, n, conf)
  <2>1. SUFFICES ASSUME q.reply = "none" PROVE
          (\A r, s \in Routers \ q.todo : q.ops[r] = q.ops[s]) /\ (q.todo # {} => Routers \ q.todo = {})
    BY DEF InStep
  <2>2. CASE op = "create"
    BY <1>1, <1>3, <2>1, <2>2
  <2>3. CASE op # "create"
    BY <1>3, <2>3
  <2> QED  BY <2>2, <2>3
<1>5. SUFFICES ASSUME Clean' PROVE AllInStep'
  BY DEF InStepInv
<1>6. Clean
  BY <1>2, <1>5 DEF Clean, NothingLeft
<1> QED  BY <1>1, <1>2, <1>4, <1>6 DEF InStepInv, AllInStep

\* A lookup asks a router that has what the others had.
LEMMA LookupInStep ==
    ASSUME InStepInv, BaseInv', NEW i \in DOMAIN requests, NEW r \in Routers, Lookup(i, r)
    PROVE  InStepInv'
<1> DEFINE q == requests[i]
           p == requests'[i]
           has(s) == Tagged(conf[s], q.body.type, q.name)
<1>1. /\ Served(i) /\ conf' = conf /\ r \in q.todo
      /\ \A j \in DOMAIN requests : j # i => requests'[j] = requests[j]
  BY LookupDoes DEF InStepInv
<1>2. PICK objects \in Answers(r, q.body.type) :
        LookedUp(q, p, r, i, Tagged(objects, q.body.type, q.name))
  BY LookupDoes DEF InStepInv
<1> DEFINE seen == Tagged(objects, q.body.type, q.name)
<1>3. /\ p.todo = q.todo \ {r} /\ p.missed = q.missed \cup Differ(seen, has(r))
      /\ \A s \in Routers : p.ops[s] = IF s = r THEN OpsFor(seen, q, i) ELSE q.ops[s]
      /\ p.reply = "none" /\ q.reply = "none" /\ p.left = q.left /\ p.torn = q.torn
      /\ p.op = q.op /\ p.name = q.name /\ p.body = q.body
  BY <1>1, <1>2 DEF LookedUp, Served, Asks
<1>4. SUFFICES ASSUME Clean' PROVE AllInStep'
  BY DEF InStepInv
<1>5. Clean
  <2>1. ASSUME NEW j \in DOMAIN requests
        PROVE  ~requests[j].left /\ (Applied(requests[j]) => ~requests[j].torn /\ requests[j].missed = {})
    <3>1. CASE j = i
      BY <1>1, <1>3, <1>4, <3>1 DEF Clean, NothingLeft, Served, Applied
    <3>2. CASE j # i
      BY <1>1, <1>4, <3>2 DEF Clean, NothingLeft, Served
    <3> QED  BY <3>1, <3>2
  <2> QED  BY <2>1 DEF Clean, NothingLeft
<1>6. AllInStep
  BY <1>5 DEF InStepInv
<1>7. ASSUME ~p.torn, p.missed = {} PROVE
        /\ \A s, t \in Routers \ p.todo : p.ops[s] = p.ops[t]
        /\ \A s \in Routers \ p.todo : p.ops[s] = OpsFor(has(s), p, i)
  <2>1. seen = has(r) /\ q.missed = {} /\ ~q.torn
    BY <1>3, <1>7, SawAll
  <2>2. InStep(q, i, conf) /\ \A s, t \in Routers : has(s) = has(t)
    BY <1>6 DEF AllInStep
  <2> HIDE DEF seen, has, p
  <2>3. \A s : OpsFor(has(s), p, i) = OpsFor(has(s), q, i)
    BY <1>3, SameQuestion
  <2>4. ASSUME NEW s \in Routers \ p.todo PROVE p.ops[s] = OpsFor(has(s), q, i)
    <3>1. CASE s = r
      BY <1>3, <2>1, <3>1
    <3>2. CASE s # r
      <4>1. s \in Routers \ q.todo /\ p.ops[s] = q.ops[s]
        BY <1>3, <3>2
      <4> QED  BY <1>1, <1>3, <2>1, <2>2, <4>1 DEF InStep, has
    <3> QED  BY <3>1, <3>2
  <2>5. \A s, t \in Routers : OpsFor(has(s), q, i) = OpsFor(has(t), q, i)
    BY <2>2
  <2> QED  BY <2>3, <2>4, <2>5
<1>8. InStep(p, i, conf)
  BY <1>3, <1>7 DEF InStep
<1>9. ASSUME NEW j \in DOMAIN requests PROVE InStep(requests'[j], j, conf)
  BY <1>1, <1>6, <1>8 DEF AllInStep
<1> QED  BY <1>1, <1>6, <1>9 DEF AllInStep, Served

\* A group that is applied is the same on every router, unless it is torn;
\* the requests it falls between the lookups of are torn from then on.
LEMMA ExecuteInStep ==
    ASSUME InStepInv, BaseInv', NEW i \in DOMAIN requests, ExecuteApplies(i)
    PROVE  InStepInv'
<1> DEFINE q == requests[i]
<1>1. /\ Served(i) /\ Settled(q, requests'[i]) /\ q.todo = {} /\ q.reply = "none"
      /\ requests'[i].reply \in {"ok", "unsaid"} /\ requests'[i].left = q.left
      /\ conf' = [r \in Routers |-> IF r \in Touched(q) THEN After(conf[r], q.ops[r]) ELSE conf[r]]
      /\ \A j \in DOMAIN requests :
            j # i => requests'[j].torn = (requests[j].torn \/ BetweenLookups(requests[j]))
  BY ApplyDoes DEF InStepInv, Served
<1>2. /\ DOMAIN requests' = DOMAIN requests
      /\ \A j \in DOMAIN requests : j # i => SameFor(requests[j], requests'[j])
  BY <1>1 DEF Served
<1>3. SUFFICES ASSUME Clean' PROVE AllInStep'
  BY DEF InStepInv
<1>4. Clean /\ ~q.torn /\ q.missed = {}
  <2>1. ~q.torn /\ q.missed = {}
    BY <1>1, <1>2, <1>3 DEF Clean, Applied, Settled
  <2>2. ASSUME NEW j \in DOMAIN requests
        PROVE  ~requests[j].left /\ (Applied(requests[j]) => ~requests[j].torn /\ requests[j].missed = {})
    <3>1. CASE j = i
      BY <1>1, <1>2, <1>3, <2>1, <3>1 DEF Clean, NothingLeft
    <3>2. CASE j # i
      BY <1>1, <1>2, <1>3, <3>2 DEF Clean, NothingLeft, SameFor, Applied
    <3> QED  BY <3>1, <3>2
  <2> QED  BY <2>1, <2>2 DEF Clean, NothingLeft
<1>5. AllInStep
  BY <1>4 DEF InStepInv
<1>6. \A r, s \in Routers : conf'[r] = conf'[s]
  <2>1. \A r, s \in Routers : q.ops[r] = q.ops[s] /\ conf[r] = conf[s]
    BY <1>1, <1>4, <1>5 DEF AllInStep, InStep
  <2> QED  BY <1>1, <2>1 DEF Touched
<1>7. ASSUME NEW j \in DOMAIN requests PROVE InStep(requests'[j], j, conf')
  <2>1. CASE j = i
    BY <1>1, <2>1 DEF InStep
  <2>2. CASE j # i
    <3>1. SUFFICES ASSUME requests'[j].reply = "none", ~requests'[j].torn, requests'[j].missed = {}
                   PROVE  /\ \A r, s \in Routers \ requests'[j].todo :
                                requests'[j].ops[r] = requests'[j].ops[s]
                          /\ requests'[j].todo = {} \/ requests'[j].todo = Routers
      BY DEF InStep
    <3>2. ~requests[j].torn /\ ~BetweenLookups(requests[j])
      BY <1>1, <2>2, <3>1
    <3>3. SameFor(requests[j], requests'[j]) /\ InStep(requests[j], j, conf)
      BY <1>2, <1>5, <2>2 DEF AllInStep
    <3> QED  BY <3>1, <3>2, <3>3 DEF InStep, SameFor, BetweenLookups, Running
  <2> QED  BY <2>1, <2>2
<1> QED  BY <1>2, <1>6, <1>7 DEF AllInStep

\* A group that fails leaves the routers as they are, or something in force.
LEMMA FailInStep ==
    ASSUME InStepInv, BaseInv', NEW i \in DOMAIN requests, ExecuteFails(i)
    PROVE  InStepInv'
<1>1. /\ Served(i) /\ Settled(requests[i], requests'[i]) /\ requests'[i].reply = "error"
      /\ (conf' = conf /\ ~requests'[i].left) \/ requests'[i].left
      /\ \A j \in DOMAIN requests : j # i => requests'[j].torn = requests[j].torn
  BY FailDoes DEF InStepInv
<1>2. CASE requests'[i].left
  BY <1>1, <1>2 DEF InStepInv, Clean, NothingLeft, Served
<1>3. CASE ~requests'[i].left
  <2>1. Shaped(requests[i]) /\ requests[i].reply = "none"
    BY <1>1 DEF InStepInv, BaseInv, Shapes, Served
  <2>2. ~requests[i].left
    BY <2>1 DEF Shaped
  <2>3. /\ DOMAIN requests' = DOMAIN requests /\ conf' = conf
        /\ \A j \in DOMAIN requests : j # i =>
              SameFor(requests[j], requests'[j]) /\ requests'[j].torn = requests[j].torn
    BY <1>1, <1>3 DEF Served
  <2> QED  BY <1>1, <2>1, <2>2, <2>3, QuietStaysInStep
<1> QED  BY <1>2, <1>3

\* Every step keeps the routers in agreement.
LEMMA NextInStep ==
    ASSUME InStepInv, [Next]_vars
    PROVE  InStepInv'
<1>1. BaseInv'
  BY NextKeepsBase DEF InStepInv
<1>2. ASSUME UNCHANGED <<conf, requests>> PROVE InStepInv'
  <2>1. Clean' = Clean /\ AllInStep' = AllInStep
    BY <1>2 DEF Clean, NothingLeft, AllInStep
  <2> QED  BY <1>1, <2>1 DEF InStepInv
<1>3. ASSUME NEW i \in DOMAIN requests, ServeStep(i) PROVE InStepInv'
  <2>1. ASSUME LookupFails(i) \/ NotFound(i) \/ Lock(i) PROVE InStepInv'
    <3>1. /\ Served(i) /\ conf' = conf /\ Settled(requests[i], requests'[i])
          /\ requests'[i].left = requests[i].left /\ requests'[i].reply \in {"none", "error"}
          /\ \A j \in DOMAIN requests : j # i => requests'[j] = requests[j]
      BY <2>1, QuietDoes DEF InStepInv
    <3>2. /\ DOMAIN requests' = DOMAIN requests /\ requests[i].reply = "none"
          /\ \A j \in DOMAIN requests : j # i =>
                SameFor(requests[j], requests'[j]) /\ requests'[j].torn = requests[j].torn
          /\ Asks(requests[i], requests'[i])
      BY <3>1 DEF Served
    <3> QED  BY <1>1, <3>1, <3>2, QuietStaysInStep
  <2> QED  BY <1>1, <1>3, <2>1, LookupInStep, FailInStep, ExecuteInStep DEF ServeStep
<1>4. ASSUME NEW i \in DOMAIN requests, Answer(i) PROVE InStepInv'
  <2>1. /\ conf' = conf /\ DOMAIN requests' = DOMAIN requests
        /\ \A j \in DOMAIN requests : j # i =>
              SameFor(requests[j], requests'[j]) /\ requests'[j].torn = requests[j].torn
        /\ Settled(requests[i], requests'[i])
        /\ requests'[i].reply = requests[i].reply /\ requests[i].reply # "none"
        /\ requests'[i].left = requests[i].left
    BY <1>4, AnswerDoes DEF InStepInv, SameFor, Asks
  <2> QED  BY <1>1, <2>1, QuietStaysInStep
<1>5. ASSUME Sends PROVE InStepInv'
  BY <1>1, <1>5, ArriveInStep
<1> QED  BY <1>2, <1>3, <1>4, <1>5, StepCases DEF InStepInv, BaseInv, Turns

\* The routers of a cluster hold the same tunnels unless an applied request
\* was torn or missed something, or a rollback left something: the lookups
\* of UpdateGRE, DeleteGRE, UpdateIPsec and DeleteIPsec and what is left of
\* a failed group are the only places where they can come apart.
THEOREM RoutersAgree == Spec => []AgreeUnlessTorn
<1>1. Init => InStepInv
  <2>1. ASSUME Init PROVE requests = <<>> /\ \A r, s \in Routers : conf[r] = conf[s]
    BY <2>1 DEF Init
  <2> QED  BY <2>1, InitWhole DEF InStepInv, AllInStep, WholeInv
<1>2. InStepInv => AgreeUnlessTorn
  BY DEF InStepInv, AllInStep, AgreeUnlessTorn, Clean
<1>3. InStepInv /\ [Next]_vars => InStepInv'
  BY NextInStep
<1> QED  BY <1>1, <1>2, <1>3, PTL DEF Spec

-----------------------------------------------------------------------------
(* The lists show what was acknowledged.                                   *)

\* A group works on objects of one type of tunnel.
OfSort(g, type) ==
    /\ \A o \in g.add \cup g.set : (o.path = "gre") <=> (type = "gre")
    /\ \A id \in g.del : (id[1] = "gre") <=> (type = "gre")

\* Requests are about one type each.
RequestSorted(q) ==
    /\ q.body.type \in Types
    /\ q.reply = "none" =>
          /\ q.by # "answered"
          /\ \A r \in Routers \ q.todo : q.ops[r] = Nothing \/ OfSort(q.ops[r], q.body.type)

\* The rows are of one type each.
TypeKnown(t) == t # NoTunnel => t.type \in Types
PageSorted ==
    /\ DOMAIN list = Types /\ \A type \in Types : \A t \in list[type] : TypeKnown(t)
    /\ TypeKnown(details) /\ TypeKnown(target)

\* A group of which the page was not told is in force.
Untold(type) ==
    \E i \in DOMAIN requests :
        /\ requests[i].body.type = type /\ ~ToldOf(requests[i])
        /\ Applied(requests[i]) \/ requests[i].left

\* What a fetch has read so far, and what the last one has shown.
ReadsTrue(type) ==
    type \notin doubt =>
        \A r \in DOMAIN reading[type] : reading[type][r] = OfType(conf[r], type) \/ Untold(type)
ListTrue(type) ==
    here /\ list[type] # Unloaded /\ type \notin fetching \cup doubt =>
        list[type] = Listed(Conf(type), type) \/ Untold(type)
FetchOK(type) ==
    /\ reading[type] = [r \in DOMAIN reading[type] |-> reading[type][r]]
    /\ DOMAIN reading[type] \subseteq Routers
    /\ type \in fetching \/ DOMAIN reading[type] = {}

ShownInv ==
    /\ BaseInv /\ PageSorted
    /\ DOMAIN conf = Routers /\ DOMAIN reading = Types /\ fetching \subseteq Types
    /\ \A i \in DOMAIN requests : RequestSorted(requests[i])
    /\ \A type \in Types : FetchOK(type) /\ ReadsTrue(type) /\ ListTrue(type)

\* A new tunnel is of its type.
LEMMA CreateSorts ==
    ASSUME NEW b, NEW name, NEW gen
    PROVE  OfSort(CreateOps(b, name, gen), b.type)
<1> DEFINE add == IF b.type = "gre" THEN {GREObject(b, name, gen)} ELSE IPsecObjects(b, name, gen)
           g == CreateOps(b, name, gen)
<1>1. g.add = add /\ g.set = {} /\ g.del = {}
  BY DEF CreateOps, Group
<1>2. CASE b.type = "gre"
  <2>1. \A o \in add : o.path = "gre"
    BY <1>2, ObjectFields DEF GREObject
  <2> QED  BY <1>1, <1>2, <2>1 DEF OfSort
<1>3. CASE b.type # "gre"
  <2> DEFINE core(p) == Object(p, name, Only, gen, IF p = "peer" THEN <<b.settings, b.disabled>>
                                                                 ELSE b.settings)
             cores == {core(p) : p \in Core}
  <2>1. \A o \in cores : o.path # "gre"
    BY ObjectFields DEF Core
  <2>2. ASSUME NEW o \in SubnetPolicies(b, name, gen) PROVE o.path # "gre"
    <3>1. PICK key, val : o = Object("policy", name, key, gen, val)
      BY DEF SubnetPolicies
    <3> QED  BY <3>1, ObjectFields
  <2>3. \A o \in TransitObjects(b, name, gen) : o.path # "gre"
    BY ObjectFields DEF TransitObjects
  <2>4. \A o \in RouteObjects(Nets, b.routes, name, gen) : o.path # "gre"
    BY RoutesAreLoose
  <2>5. \A o \in add : \/ o \in cores
                       \/ o \in SubnetPolicies(b, name, gen)
                       \/ o \in TransitObjects(b, name, gen)
                       \/ o \in RouteObjects(Nets, b.routes, name, gen)
    BY <1>3 DEF IPsecObjects
  <2> HIDE DEF add, cores
  <2> QED  BY <1>1, <1>3, <2>1, <2>2, <2>3, <2>4, <2>5 DEF OfSort
<1> QED  BY <1>2, <1>3

\* So is what a lookup leads to.
LEMMA LookupSorts ==
    ASSUME NEW q, NEW i, NEW ids, \A id \in ids : (id[1] = "gre") <=> (q.body.type = "gre")
    PROVE  OpsFor(ids, q, i) = Nothing \/ OfSort(OpsFor(ids, q, i), q.body.type)
<1> DEFINE b == q.body
           found == Found(ids)
           g == OpsFor(ids, q, i)
<1>1. \/ g = Nothing
      \/ g = DeleteOps(found)
      \/ b.type = "gre" /\ g = UpdateGREOps(found, b)
      \/ b.type # "gre" /\ g = UpdateIPsecOps(found, b, q.name, i)
  BY DEF OpsFor
<1>2. \A id \in found : (id[1] = "gre") <=> (b.type = "gre")
  BY DEF Found
<1> SUFFICES g = Nothing \/ OfSort(g, b.type)
  OBVIOUS
<1> HIDE DEF b, found, g
<1>3. CASE g = DeleteOps(found)
  <2>1. g.add = {} /\ g.set = {} /\ g.del = found
    BY <1>3 DEF DeleteOps, Group
  <2> QED  BY <1>2, <2>1 DEF OfSort
<1>4. CASE b.type = "gre" /\ g = UpdateGREOps(found, b)
  <2>1. g.add = {} /\ g.del = {} /\ g.set = {Changed(id, <<b.settings, b.disabled>>) : id \in found}
    BY <1>4 DEF UpdateGREOps, Group
  <2>2. \A p \in g.set : p.path = "gre"
    BY <1>2, <1>4, <2>1, Modified
  <2> QED  BY <1>4, <2>1, <2>2 DEF OfSort
<1>5. CASE b.type # "gre" /\ g = UpdateIPsecOps(found, b, q.name, i)
  <2> DEFINE core(id) == IF id[1] = "peer" THEN <<b.settings, b.disabled>> ELSE b.settings
             pair == <<b.transit, {b.transit}>>
  <2>1. /\ g.add = RouteObjects(Missing(found, b), b.routes, q.name, i)
        /\ g.set = NewCore(found, b) \cup NewTransit(found, b)
        /\ g.del = Undesired(found, b)
    BY <1>5 DEF UpdateIPsecOps, Group
  <2>2. \A o \in g.add : o.path = "route"
    BY <2>1, RoutesAreLoose
  <2>3. ASSUME NEW p \in NewCore(found, b) PROVE p.path # "gre"
    <3>1. PICK id \in found : id[1] \in Core /\ p = Changed(id, core(id))
      BY <2>3 DEF NewCore
    <3> HIDE DEF core
    <3> QED  BY <3>1, Modified DEF Core
  <2>4. ASSUME NEW p \in NewTransit(found, b) PROVE p.path # "gre"
    <3>1. PICK id \in found : \/ id[1] \in {"bridge", "address"} /\ p = Changed(id, b.transit)
                              \/ id[1] = "policy" /\ p = Changed(id, pair)
      BY <2>4 DEF NewTransit
    <3> HIDE DEF pair
    <3> QED  BY <3>1, Modified
  <2>5. \A id \in g.del : id[1] = "route"
    BY <2>1 DEF Undesired, RoutesTo
  <2>6. \A p \in g.set : p.path # "gre"
    BY <2>1, <2>3, <2>4
  <2> QED  BY <1>5, <2>2, <2>5, <2>6 DEF OfSort
<1> QED  BY <1>1, <1>3, <1>4, <1>5

\* A group, or a part of it, leaves the other type of tunnel alone.
LEMMA OtherTypeStays ==
    ASSUME NEW g, NEW sort \in Types, OfSort(g, sort), NEW type \in Types, type # sort, NEW objects,
           NEW h, h.add \subseteq g.add, h.set \subseteq g.set, h.del \subseteq g.del
    PROVE  OfType(After(objects, h), type) = OfType(objects, type)
<1> DEFINE mine(path) == (path = "gre") <=> (type = "gre")
<1>1. \A path : mine(path) <=> ~((path = "gre") <=> (sort = "gre"))
  BY DEF Types
<1>2. ASSUME NEW o, mine(o.path), Id(o) \in Named(h) PROVE FALSE
  <2>1. CASE Id(o) \in h.del
    <3>1. Id(o)[1] = o.path
      BY DEF Id
    <3> QED  BY <1>1, <1>2, <2>1, <3>1 DEF OfSort
  <2>2. CASE Id(o) \in Ids(h.set)
    <3>1. PICK p \in h.set : Id(p) = Id(o)
      BY <2>2 DEF Ids
    <3>2. p.path = o.path
      BY <3>1, SameId
    <3> QED  BY <1>1, <1>2, <3>1, <3>2 DEF OfSort
  <2> QED  BY <1>2, <2>1, <2>2 DEF Named
<1>3. ASSUME NEW o \in h.add \cup h.set PROVE ~mine(o.path)
  BY <1>1, <1>3 DEF OfSort
<1>4. \A o : o \in OfType(After(objects, h), type) <=> o \in OfType(objects, type)
  BY <1>2, <1>3 DEF OfType, After
<1> QED  BY <1>4

\* What a step of the page leaves in the details and in the dialog.
LEMMA OverlaysComeFromRows ==
    ASSUME [Next]_vars
    PROVE  /\ details' \in {details, NoTunnel} \cup Rows
           /\ target' \in {target, details, NoTunnel} \cup Rows
<1> DEFINE Goal == /\ details' \in {details, NoTunnel} \cup Rows
                   /\ target' \in {target, details, NoTunnel} \cup Rows
<1>1. ASSUME UNCHANGED vars PROVE Goal
  BY <1>1 DEF vars
<1>2. ASSUME Fetch \/ ClusterLoads \/ OtherRequest \/ Serve PROVE Goal
  BY <1>2 DEF Fetch, FetchRouter, ListArrives, ClusterLoads, OtherRequest, Serve, overlays
<1>3. ASSUME NEW i, Answer(i) PROVE Goal
  BY <1>3 DEF Answer, AnswerDelete, AnswerForm
<1>4. ASSUME AddTunnelButton PROVE Goal
  BY <1>4 DEF AddTunnelButton, Add
<1>5. ASSUME TableRow PROVE Goal
  <2>1. PICK t \in Rows : Edit(t) \/ AskDelete(t) \/ ShowDetails(t)
    BY <1>5 DEF TableRow
  <2> QED  BY <2>1 DEF Edit, AskDelete, ShowDetails
<1>6. ASSUME DetailsDrawer PROVE Goal
  BY <1>6 DEF DetailsDrawer, Edit, AskDelete, ShowDetails
<1>7. ASSUME \/ GREFields \/ IPsecConnectionStep \/ IPsecPhase1Step \/ IPsecPhase2Step
             \/ IPsecNetworksStep \/ HandleNext \/ HandleBack \/ Close \/ Submit
      PROVE  Goal
  BY <1>7 DEF GREFields, IPsecConnectionStep, IPsecPhase1Step, IPsecPhase2Step,
              IPsecNetworksStep, Typed, HandleNext, HandleBack, Close, Submit
<1>8. ASSUME ConfirmDelete \/ CancelDelete \/ LeaveCluster \/ ReturnToCluster PROVE Goal
  BY <1>8 DEF ConfirmDelete, CancelDelete, LeaveCluster, ReturnToCluster, overlays
<1> HIDE DEF Goal
<1>9. Goal
  BY <1>1, <1>2, <1>3, <1>4, <1>5, <1>6, <1>7, <1>8 DEF Next, User, TunnelForm
<1> QED  BY <1>9 DEF Goal

\* A list that arrives is of its type.
LEMMA ListedTypes ==
    ASSUME NEW seen, NEW type, NEW t \in Listed(seen, type)
    PROVE  t.type = type
<1>1. PICK name : t = MergedTunnel(seen, type, name)
  BY DEF Listed
<1>2. MergedTunnel(seen, type, name).type = type
  BY DEF MergedTunnel
<1> QED  BY <1>1, <1>2

LEMMA PageStaysSorted ==
    ASSUME PageSorted, [Next]_vars, list' = list \/ \E type \in Types : ListArrives(type)
    PROVE  PageSorted'
<1>1. ASSUME NEW t \in Rows PROVE t.type \in Types
  <2>1. PICK type \in Types : \E s \in list[type] \ Unloaded : t.type = s.type
    BY DEF Rows, MergedGREToDisplay, MergedIPsecToDisplay, DisplayTunnel, Types
  <2> QED  BY <2>1 DEF PageSorted, TypeKnown, Unloaded
<1>2. TypeKnown(details)' /\ TypeKnown(target)'
  BY <1>1, OverlaysComeFromRows DEF PageSorted, TypeKnown
<1>3. ASSUME NEW type \in Types, ListArrives(type)
      PROVE  DOMAIN list' = Types /\ \A other \in Types : \A t \in list'[other] : TypeKnown(t)
  <2>1. list' = [list EXCEPT ![type] = Listed(reading[type], type)]
    BY <1>3 DEF ListArrives
  <2>2. \A t \in Listed(reading[type], type) : TypeKnown(t)
    BY ListedTypes DEF TypeKnown
  <2> HIDE DEF PageSorted
  <2> QED  BY <2>1, <2>2 DEF PageSorted
<1>4. DOMAIN list' = Types /\ \A other \in Types : \A t \in list'[other] : TypeKnown(t)
  BY <1>3 DEF PageSorted
<1> QED  BY <1>2, <1>4 DEF PageSorted, TypeKnown

\* What a step does to the requests, as far as it matters to the lists.
Kept(q, p) == p.body = q.body /\ p.by = q.by /\ p.reply = q.reply /\ p.left = q.left

\* A step that leaves the requests others were not told of.
LEMMA UntoldStays ==
    ASSUME NEW type, Untold(type), NEW i, DOMAIN requests \subseteq DOMAIN requests',
           \A j \in DOMAIN requests : j # i => Kept(requests[j], requests'[j]),
           i \in DOMAIN requests =>
              \/ Kept(requests[i], requests'[i])
              \/ requests[i].body.type # type
              \/ ToldOf(requests[i])
              \/ ~Applied(requests[i]) /\ ~requests[i].left
    PROVE  Untold(type)'
<1>1. PICK j \in DOMAIN requests : /\ requests[j].body.type = type /\ ~ToldOf(requests[j])
                                   /\ Applied(requests[j]) \/ requests[j].left
  BY DEF Untold
<1>2. Kept(requests[j], requests'[j])
  BY <1>1
<1> QED  BY <1>1, <1>2 DEF Untold, Kept, ToldOf, Applied

\* A fetch has read routers of the cluster only.
LEMMA ConfOfType ==
    ASSUME NEW type, \A r \in Routers : OfType(conf'[r], type) = OfType(conf[r], type)
    PROVE  Conf(type)' = Conf(type)
  BY DEF Conf

\* The lists stay true when neither they nor the objects of their type
\* change, or the page is not told.
LEMMA FetchesStayTrue ==
    ASSUME ShownInv, ListsKept, NEW type \in Types, Untold(type) => Untold(type)',
           \/ Untold(type)'
           \/ \A r \in Routers : OfType(conf'[r], type) = OfType(conf[r], type)
    PROVE  FetchOK(type)' /\ ReadsTrue(type)' /\ ListTrue(type)'
<1>1. /\ list' = list /\ fetching' = fetching /\ reading' = reading /\ doubt' = doubt /\ here' = here
      /\ FetchOK(type) /\ ReadsTrue(type) /\ ListTrue(type)
  BY DEF ListsKept, ShownInv
<1>2. FetchOK(type)'
  BY <1>1 DEF FetchOK
<1>3. CASE Untold(type)'
  BY <1>1, <1>2, <1>3 DEF ReadsTrue, ListTrue
<1>4. CASE ~Untold(type)'
  <2>1. \A r \in Routers : OfType(conf'[r], type) = OfType(conf[r], type)
    BY <1>4
  <2>2. Conf(type)' = Conf(type)
    BY <2>1, ConfOfType
  <2>3. ListTrue(type)'
    BY <1>1, <1>4, <2>2 DEF ListTrue
  <2>4. ReadsTrue(type)'
    BY <1>1, <1>4, <2>1 DEF ReadsTrue, FetchOK
  <2> QED  BY <1>2, <2>3, <2>4
<1> QED  BY <1>3, <1>4

\* A fetch reads one more router, or its list arrives.
LEMMA FetchesRead ==
    ASSUME ShownInv, Fetch
    PROVE  /\ DOMAIN reading' = Types /\ fetching' \subseteq Types
           /\ \A type \in Types : FetchOK(type)' /\ ReadsTrue(type)' /\ ListTrue(type)'
<1>1. PICK sort \in Types : ListArrives(sort) \/ \E r \in Routers : FetchRouter(sort, r)
  BY DEF Fetch
<1>2. /\ conf' = conf /\ requests' = requests /\ here' = here
      /\ \A type : Untold(type)' <=> Untold(type)
      /\ \A type : Conf(type)' = Conf(type)
  <2>1. conf' = conf /\ requests' = requests /\ here' = here
    BY <1>1 DEF FetchRouter, ListArrives
  <2> QED  BY <2>1 DEF Untold, Conf
<1>3. /\ DOMAIN reading = Types /\ DOMAIN list = Types /\ fetching \subseteq Types
      /\ \A type \in Types : FetchOK(type) /\ ReadsTrue(type) /\ ListTrue(type)
  BY DEF ShownInv, PageSorted
<1>4. ASSUME NEW r \in Routers, FetchRouter(sort, r)
      PROVE  /\ DOMAIN reading' = Types /\ fetching' \subseteq Types
             /\ \A type \in Types : FetchOK(type)' /\ ReadsTrue(type)' /\ ListTrue(type)'
  <2>1. PICK seen :
          /\ reading' = [reading EXCEPT ![sort] =
                [s \in DOMAIN reading[sort] \cup {r} |->
                   IF s = r THEN seen ELSE reading[sort][s]]]
          /\ doubt' = IF seen = OfType(conf[r], sort) THEN doubt ELSE doubt \cup {sort}
    BY <1>4 DEF FetchRouter
  <2>2. sort \in fetching /\ fetching' = fetching /\ list' = list
    BY <1>4 DEF FetchRouter
  <2> DEFINE f == [s \in DOMAIN reading[sort] \cup {r} |-> IF s = r THEN seen ELSE reading[sort][s]]
  <2>3. /\ reading'[sort] = f /\ DOMAIN reading' = Types
        /\ \A type \in Types : type # sort => reading'[type] = reading[type]
    BY <1>3, <2>1
  <2>4. ASSUME NEW type \in Types PROVE FetchOK(type)' /\ ReadsTrue(type)' /\ ListTrue(type)'
    <3>1. CASE type # sort
      <4>1. reading'[type] = reading[type] /\ (type \in doubt' <=> type \in doubt)
        BY <2>1, <2>3, <3>1
      <4>2. FetchOK(type)'
        BY <1>3, <2>2, <4>1 DEF FetchOK
      <4>3. ReadsTrue(type)'
        BY <1>2, <1>3, <4>1 DEF ReadsTrue
      <4>4. ListTrue(type)'
        BY <1>2, <1>3, <2>2, <4>1 DEF ListTrue
      <4> QED  BY <4>2, <4>3, <4>4
    <3>2. CASE type = sort
      <4>1. FetchOK(sort)'
        <5>1. f = [s \in DOMAIN f |-> f[s]] /\ DOMAIN f \subseteq Routers
          BY <1>3, <1>4 DEF FetchOK
        <5> HIDE DEF f
        <5> QED  BY <2>2, <2>3, <5>1 DEF FetchOK
      <4>2. ReadsTrue(sort)'
        <5>1. SUFFICES ASSUME sort \notin doubt', NEW s \in DOMAIN f
                       PROVE  f[s] = OfType(conf[s], sort) \/ Untold(sort)
          BY <1>2, <2>3 DEF ReadsTrue
        <5>2. sort \notin doubt /\ seen = OfType(conf[r], sort)
          BY <2>1, <5>1
        <5>3. CASE s = r
          BY <5>2, <5>3
        <5>4. CASE s # r
          <6>1. s \in DOMAIN reading[sort] /\ f[s] = reading[sort][s]
            BY <5>1, <5>4
          <6> QED  BY <1>3, <5>2, <6>1 DEF ReadsTrue
        <5> QED  BY <5>3, <5>4
      <4>3. ListTrue(sort)'
        BY <2>2 DEF ListTrue
      <4> QED  BY <3>2, <4>1, <4>2, <4>3
    <3> QED  BY <3>1, <3>2
  <2> QED  BY <1>3, <2>2, <2>3, <2>4
<1>5. ASSUME ListArrives(sort)
      PROVE  /\ DOMAIN reading' = Types /\ fetching' \subseteq Types
             /\ \A type \in Types : FetchOK(type)' /\ ReadsTrue(type)' /\ ListTrue(type)'
  <2>1. /\ DOMAIN reading[sort] = Routers /\ sort \in fetching
        /\ list' = [list EXCEPT ![sort] = Listed(reading[sort], sort)]
        /\ fetching' = fetching \ {sort} /\ doubt' = doubt
        /\ reading' = [reading EXCEPT ![sort] = NoAnswers]
    BY <1>5 DEF ListArrives
  <2>2. /\ list'[sort] = Listed(reading[sort], sort) /\ reading'[sort] = NoAnswers
        /\ DOMAIN reading' = Types
        /\ \A type \in Types : type # sort => list'[type] = list[type] /\ reading'[type] = reading[type]
    BY <1>3, <2>1
  <2>3. ASSUME NEW type \in Types PROVE FetchOK(type)' /\ ReadsTrue(type)' /\ ListTrue(type)'
    <3>1. CASE type # sort
      <4>1. /\ reading'[type] = reading[type] /\ list'[type] = list[type]
            /\ type \in fetching' <=> type \in fetching
        BY <2>1, <2>2, <3>1
      <4>2. FetchOK(type)'
        BY <1>3, <4>1 DEF FetchOK
      <4>3. ReadsTrue(type)'
        BY <1>2, <1>3, <2>1, <4>1 DEF ReadsTrue
      <4>4. ListTrue(type)'
        BY <1>2, <1>3, <2>1, <4>1 DEF ListTrue
      <4> QED  BY <4>2, <4>3, <4>4
    <3>2. CASE type = sort
      <4>1. FetchOK(sort)' /\ ReadsTrue(sort)'
        BY <2>2 DEF FetchOK, ReadsTrue, NoAnswers
      <4>2. ListTrue(sort)'
        <5>1. SUFFICES ASSUME sort \notin doubt, ~Untold(sort)
                       PROVE  Listed(reading[sort], sort) = Listed(Conf(sort), sort)
          BY <1>2, <2>1, <2>2 DEF ListTrue
        <5>2. \A r \in Routers : reading[sort][r] = OfType(conf[r], sort)
          BY <1>3, <2>1, <5>1 DEF ReadsTrue
        <5>3. reading[sort] = [r \in Routers |-> reading[sort][r]]
          BY <1>3, <2>1 DEF FetchOK
        <5>4. reading[sort] = Conf(sort)
          BY <5>2, <5>3 DEF Conf
        <5> QED  BY <5>4
      <4> QED  BY <3>2, <4>1, <4>2
    <3> QED  BY <3>1, <3>2
  <2> QED  BY <1>3, <2>1, <2>2, <2>3
<1> QED  BY <1>1, <1>4, <1>5

\* The page turns to another cluster, or back, which fetches the lists anew.
LEMMA TurnsKeepShown ==
    ASSUME ShownInv, LeaveCluster \/ ReturnToCluster
    PROVE  /\ DOMAIN reading' = Types /\ fetching' \subseteq Types
           /\ \A type \in Types : FetchOK(type)' /\ ReadsTrue(type)' /\ ListTrue(type)'
<1>1. /\ conf' = conf /\ requests' = requests /\ list' = list /\ reading' = reading
      /\ \/ ~here' /\ doubt' = doubt /\ fetching' = fetching
         \/ fetching' = Types /\ doubt' = doubt \cap fetching
  BY DEF LeaveCluster, ReturnToCluster
<1>2. /\ DOMAIN reading = Types /\ fetching \subseteq Types
      /\ \A type \in Types : FetchOK(type) /\ ReadsTrue(type)
  BY DEF ShownInv
<1>3. \A type : Untold(type)' <=> Untold(type)
  BY <1>1 DEF Untold
<1>4. ASSUME NEW type \in Types PROVE FetchOK(type)' /\ ReadsTrue(type)' /\ ListTrue(type)'
  <2>1. FetchOK(type)'
    BY <1>1, <1>2 DEF FetchOK
  <2>2. ListTrue(type)'
    BY <1>1 DEF ListTrue
  <2>3. ReadsTrue(type)'
    <3>1. CASE type \in fetching
      BY <1>1, <1>2, <1>3, <3>1 DEF ReadsTrue
    <3>2. CASE type \notin fetching
      BY <1>1, <1>2, <3>2 DEF ReadsTrue, FetchOK
    <3> QED  BY <3>1, <3>2
  <2> QED  BY <2>1, <2>2, <2>3
<1> QED  BY <1>1, <1>2, <1>4

\* The page takes an answer and, told of a change, fetches the list anew.
LEMMA AnswerKeepsShown ==
    ASSUME ShownInv, NEW i \in DOMAIN requests, Answer(i)
    PROVE  /\ DOMAIN reading' = Types /\ fetching' \subseteq Types
           /\ \A type \in Types : FetchOK(type)' /\ ReadsTrue(type)' /\ ListTrue(type)'
<1> DEFINE q == requests[i]
           sort == requests[i].body.type
<1>1. /\ conf' = conf /\ DOMAIN requests' = DOMAIN requests
      /\ \A j \in DOMAIN requests : j # i => requests'[j] = requests[j]
      /\ requests'[i].by = "answered" /\ q.by = "page" /\ q.reply # "none"
      /\ requests'[i].body = q.body /\ requests'[i].reply = q.reply
      /\ requests'[i].left = q.left
  BY AnswerDoes DEF ShownInv
<1>2. Invalidate(q) /\ list' = list /\ here' = here
  BY DEF Answer
<1>3. /\ DOMAIN reading = Types /\ fetching \subseteq Types /\ sort \in Types
      /\ \A type \in Types : FetchOK(type) /\ ReadsTrue(type) /\ ListTrue(type)
  BY DEF ShownInv, RequestSorted
<1>4. \A type : Conf(type)' = Conf(type)
  BY <1>1 DEF Conf
<1>5. ASSUME NEW type, q.reply # "ok" \/ type # sort, Untold(type) PROVE Untold(type)'
  <2>1. PICK j \in DOMAIN requests : /\ requests[j].body.type = type /\ ~ToldOf(requests[j])
                                     /\ Applied(requests[j]) \/ requests[j].left
    BY <1>5 DEF Untold
  <2>2. CASE j # i
    BY <1>1, <2>1, <2>2 DEF Untold
  <2>3. CASE j = i
    <3>1. q.reply # "ok" /\ requests'[i].body.type = type
      BY <1>1, <1>5, <2>1, <2>3
    <3>2. ~ToldOf(requests'[i]) /\ (Applied(requests'[i]) \/ requests'[i].left)
      BY <1>1, <2>1, <2>3, <3>1 DEF ToldOf, Applied
    <3> QED  BY <1>1, <3>1, <3>2 DEF Untold
  <2> QED  BY <2>2, <2>3
<1> HIDE DEF q, sort
<1>6. ASSUME q.reply # "ok"
      PROVE  /\ DOMAIN reading' = Types /\ fetching' \subseteq Types
             /\ \A type \in Types : FetchOK(type)' /\ ReadsTrue(type)' /\ ListTrue(type)'
  <2>1. fetching' = fetching /\ reading' = reading /\ doubt' = doubt
    BY <1>2, <1>6 DEF Invalidate
  <2>2. \A type : Untold(type) => Untold(type)'
    BY <1>5, <1>6
  <2>3. ASSUME NEW type \in Types PROVE FetchOK(type)' /\ ReadsTrue(type)' /\ ListTrue(type)'
    <3>1. FetchOK(type)'
      BY <1>3, <2>1 DEF FetchOK
    <3>2. ReadsTrue(type)'
      BY <1>1, <1>3, <2>1, <2>2 DEF ReadsTrue
    <3>3. ListTrue(type)'
      BY <1>2, <1>3, <1>4, <2>1, <2>2 DEF ListTrue
    <3> QED  BY <3>1, <3>2, <3>3
  <2> QED  BY <1>3, <2>1, <2>3
<1>7. ASSUME q.reply = "ok", here
      PROVE  /\ DOMAIN reading' = Types /\ fetching' \subseteq Types
             /\ \A type \in Types : FetchOK(type)' /\ ReadsTrue(type)' /\ ListTrue(type)'
  <2>1. /\ fetching' = fetching \cup {sort} /\ reading' = [reading EXCEPT ![sort] = NoAnswers]
        /\ doubt' = doubt \ {sort}
    BY <1>2, <1>7 DEF Invalidate, q, sort
  <2>2. /\ reading'[sort] = NoAnswers /\ DOMAIN reading' = Types
        /\ \A type \in Types : type # sort => reading'[type] = reading[type]
    BY <1>3, <2>1
  <2>3. ASSUME NEW type \in Types PROVE FetchOK(type)' /\ ReadsTrue(type)' /\ ListTrue(type)'
    <3>1. CASE type # sort
      <4>1. Untold(type) => Untold(type)'
        BY <1>5, <3>1
      <4>2. /\ reading'[type] = reading[type] /\ (type \in doubt' <=> type \in doubt)
            /\ (type \in fetching' <=> type \in fetching)
        BY <2>1, <2>2, <3>1
      <4>3. FetchOK(type)'
        BY <1>3, <4>2 DEF FetchOK
      <4>4. ReadsTrue(type)'
        BY <1>1, <1>3, <4>1, <4>2 DEF ReadsTrue
      <4>5. ListTrue(type)'
        BY <1>2, <1>3, <1>4, <4>1, <4>2 DEF ListTrue
      <4> QED  BY <4>3, <4>4, <4>5
    <3>2. CASE type = sort
      BY <2>1, <2>2, <3>2 DEF FetchOK, ReadsTrue, ListTrue, NoAnswers
    <3> QED  BY <3>1, <3>2
  <2> QED  BY <1>3, <2>1, <2>2, <2>3
<1>8. ASSUME q.reply = "ok", ~here
      PROVE  /\ DOMAIN reading' = Types /\ fetching' \subseteq Types
             /\ \A type \in Types : FetchOK(type)' /\ ReadsTrue(type)' /\ ListTrue(type)'
  <2>1. fetching' = fetching /\ reading' = reading /\ doubt' = doubt \cup ({sort} \cap fetching)
    BY <1>2, <1>8 DEF Invalidate, q, sort
  <2>2. ASSUME NEW type \in Types PROVE FetchOK(type)' /\ ReadsTrue(type)' /\ ListTrue(type)'
    <3>1. FetchOK(type)'
      BY <1>3, <2>1 DEF FetchOK
    <3>2. ListTrue(type)'
      BY <1>2, <1>8 DEF ListTrue
    <3>3. ReadsTrue(type)'
      <4>1. CASE type # sort
        <5>1. Untold(type) => Untold(type)'
          BY <1>5, <4>1
        <5> QED  BY <1>1, <1>3, <2>1, <4>1, <5>1 DEF ReadsTrue
      <4>2. CASE type = sort
        BY <1>3, <2>1, <4>2 DEF ReadsTrue, FetchOK
      <4> QED  BY <4>1, <4>2
    <3> QED  BY <3>1, <3>2, <3>3
  <2> QED  BY <1>3, <2>1, <2>2
<1> QED  BY <1>6, <1>7, <1>8

\* What a group that fails may leave in force.
LEMMA FailLeaves ==
    ASSUME NEW i \in DOMAIN requests, ExecuteFails(i), conf' # conf
    PROVE  \E r \in Touched(requests[i]) : \E h :
              /\ h.add \subseteq requests[i].ops[r].add /\ h.set \subseteq requests[i].ops[r].set
              /\ h.del \subseteq requests[i].ops[r].del
              /\ conf' = [conf EXCEPT ![r] = After(@, h)]
<1> DEFINE q == requests[i]
           part(g, id) == Group({o \in g.add : Id(o) = id}, {o \in g.set : Id(o) = id}, g.del \cap {id})
<1>1. PICK r \in Touched(q) : \E id \in Named(q.ops[r]) \cup Ids(q.ops[r].add) :
        conf' = [conf EXCEPT ![r] = After(@, part(q.ops[r], id))]
  BY DEF ExecuteFails
<1>2. PICK id : conf' = [conf EXCEPT ![r] = After(@, part(q.ops[r], id))]
  BY <1>1
<1>3. \A g : /\ part(g, id).add \subseteq g.add /\ part(g, id).set \subseteq g.set
             /\ part(g, id).del \subseteq g.del
  BY DEF Group
<1> QED  BY <1>1, <1>2, <1>3

\* A step of the service changes objects of one type, and of those it
\* changes the page is not told yet.
LEMMA ServeKeepsShown ==
    ASSUME ShownInv, NEW i \in DOMAIN requests, ServeStep(i), ListsKept
    PROVE  /\ DOMAIN conf' = Routers
           /\ \A type \in Types : FetchOK(type)' /\ ReadsTrue(type)' /\ ListTrue(type)'
<1> DEFINE q == requests[i]
           p == requests'[i]
<1>1. /\ BaseInv /\ DOMAIN conf = Routers /\ RequestSorted(q) /\ Served(i)
      /\ Shaped(q) /\ Shaped(p) /\ Asks(q, p) /\ q.reply = "none" /\ DOMAIN requests' = DOMAIN requests
  BY ServeOne DEF ShownInv, BaseInv, Shapes, Served
<1>2. ~q.left /\ ~Applied(q) /\ q.by # "answered" /\ q.body.type \in Types /\ p.by = q.by /\ p.body = q.body
  BY <1>1 DEF Shaped, Applied, RequestSorted, Asks
<1>3. ASSUME NEW type, Untold(type) PROVE Untold(type)'
  <2>1. \A j \in DOMAIN requests : j # i => Kept(requests[j], requests'[j])
    BY <1>1 DEF Served, SameFor, Asks, Kept
  <2> QED  BY <1>1, <1>2, <1>3, <2>1, UntoldStays
<1>4. DOMAIN conf' = Routers /\ \A type \in Types :
        Untold(type)' \/ \A r \in Routers : OfType(conf'[r], type) = OfType(conf[r], type)
  <2>1. CASE conf' = conf
    BY <1>1, <2>1
  <2>2. CASE ExecuteApplies(i)
    <3>1. /\ q.todo = {} /\ p.reply \in {"ok", "unsaid"}
          /\ conf' = [r \in Routers |-> IF r \in Touched(q) THEN After(conf[r], q.ops[r]) ELSE conf[r]]
      BY <1>1, <2>2, ApplyDoes
    <3>2. \A type : type = q.body.type => Untold(type)'
      BY <1>1, <1>2, <3>1 DEF Untold, ToldOf, Applied
    <3>3. ASSUME NEW type \in Types, type # q.body.type, NEW r \in Routers
          PROVE  OfType(conf'[r], type) = OfType(conf[r], type)
      <4>1. CASE r \notin Touched(q)
        BY <3>1, <4>1
      <4>2. CASE r \in Touched(q)
        <5>1. OfSort(q.ops[r], q.body.type) /\ conf'[r] = After(conf[r], q.ops[r])
          BY <1>1, <3>1, <4>2 DEF RequestSorted, Touched
        <5> QED  BY <1>2, <3>3, <5>1, OtherTypeStays
      <4> QED  BY <4>1, <4>2
    <3> QED  BY <3>1, <3>2, <3>3
  <2>3. CASE ExecuteFails(i) /\ conf' # conf
    <3>1. p.left
      BY <1>1, <2>3, FailDoes
    <3>2. \A type : type = q.body.type => Untold(type)'
      BY <1>1, <1>2, <3>1 DEF Untold, ToldOf
    <3>3. PICK r \in Touched(q) : \E h :
            /\ h.add \subseteq q.ops[r].add /\ h.set \subseteq q.ops[r].set /\ h.del \subseteq q.ops[r].del
            /\ conf' = [conf EXCEPT ![r] = After(@, h)]
      BY <2>3, FailLeaves
    <3>4. PICK h :
            /\ h.add \subseteq q.ops[r].add /\ h.set \subseteq q.ops[r].set /\ h.del \subseteq q.ops[r].del
            /\ conf' = [conf EXCEPT ![r] = After(@, h)]
      BY <3>3
    <3>5. r \in Routers /\ OfSort(q.ops[r], q.body.type)
      BY <1>1, <2>3, <3>3 DEF ExecuteFails, RequestSorted, Touched, Shaped
    <3>6. ASSUME NEW type \in Types, type # q.body.type, NEW s \in Routers
          PROVE  OfType(conf'[s], type) = OfType(conf[s], type)
      <4>1. CASE s = r
        <5>1. conf'[s] = After(conf[r], h)
          BY <1>1, <3>4, <4>1
        <5> QED  BY <1>2, <3>5, <3>6, <3>4, <4>1, <5>1, OtherTypeStays
      <4>2. CASE s # r
        BY <1>1, <3>4, <4>2
      <4> QED  BY <4>1, <4>2
    <3> QED  BY <1>1, <3>2, <3>6, <3>4
  <2> QED  BY <1>1, <2>1, <2>2, <2>3, LookupDoes, QuietDoes DEF ServeStep
<1> QED  BY <1>3, <1>4, FetchesStayTrue

\* The requests stay of one type each.
LEMMA RequestsStaySorted ==
    ASSUME ShownInv, [Next]_vars
    PROVE  (\A i \in DOMAIN requests : RequestSorted(requests[i]))'
<1> DEFINE Goal == \A j \in DOMAIN requests' : RequestSorted(requests'[j])
<1>1. BaseInv /\ FormInv /\ \A j \in DOMAIN requests : RequestSorted(requests[j])
  BY DEF ShownInv, BaseInv
<1>2. ASSUME NEW i \in DOMAIN requests, ServeStep(i) PROVE Goal
  <2> DEFINE q == requests[i]
             p == requests'[i]
  <2>1. /\ DOMAIN requests' = DOMAIN requests /\ Asks(q, p) /\ q.reply = "none"
        /\ \A j \in DOMAIN requests : j # i => SameFor(requests[j], requests'[j])
    BY <1>1, <1>2, ServeOne DEF Served
  <2>2. ASSUME NEW j \in DOMAIN requests, j # i PROVE RequestSorted(requests'[j])
    BY <1>1, <2>1, <2>2 DEF RequestSorted, SameFor, Asks
  <2>3. q.body.type \in Types /\ p.body = q.body /\ p.by = q.by /\ q.by # "answered"
    BY <1>1, <2>1 DEF RequestSorted, Asks
  <2>4. ASSUME p.reply = "none", NEW s \in Routers \ p.todo
        PROVE  p.ops[s] = Nothing \/ OfSort(p.ops[s], p.body.type)
    <3>1. CASE Settled(q, p)
      BY <1>1, <2>1, <2>3, <2>4, <3>1 DEF RequestSorted, Settled
    <3>2. ASSUME NEW r \in Routers, Lookup(i, r)
          PROVE  p.ops[s] = Nothing \/ OfSort(p.ops[s], p.body.type)
      <4>1. PICK objects : LookedUp(q, p, r, i, Tagged(objects, q.body.type, q.name))
        BY <1>1, <3>2, LookupDoes
      <4> DEFINE ids == Tagged(objects, q.body.type, q.name)
      <4>2. p.todo = q.todo \ {r} /\ p.ops[s] = IF s = r THEN OpsFor(ids, q, i) ELSE q.ops[s]
        BY <4>1 DEF LookedUp
      <4>3. OpsFor(ids, q, i) = Nothing \/ OfSort(OpsFor(ids, q, i), q.body.type)
        <5>1. \A id \in ids : (id[1] = "gre") <=> (q.body.type = "gre")
          BY TaggedPaths
        <5> HIDE DEF ids, q
        <5> QED  BY <5>1, LookupSorts
      <4> HIDE DEF ids
      <4> QED  BY <1>1, <2>1, <2>3, <2>4, <4>2, <4>3 DEF RequestSorted
    <3> QED  BY <1>1, <1>2, <3>1, <3>2, QuietDoes, FailDoes, ApplyDoes DEF ServeStep
  <2>5. RequestSorted(p)
    BY <2>3, <2>4 DEF RequestSorted
  <2> QED  BY <2>1, <2>2, <2>5
<1>3. ASSUME NEW i \in DOMAIN requests, Answer(i) PROVE Goal
  <2>1. /\ DOMAIN requests' = DOMAIN requests /\ requests[i].reply # "none"
        /\ \A j \in DOMAIN requests : j # i => requests'[j] = requests[j]
        /\ requests'[i].body = requests[i].body /\ requests'[i].reply = requests[i].reply
    BY <1>1, <1>3, AnswerDoes
  <2>2. RequestSorted(requests'[i])
    BY <1>1, <2>1 DEF RequestSorted
  <2> QED  BY <1>1, <2>1, <2>2
<1>4. ASSUME Sends PROVE Goal
  <2>1. PICK op, name, body, by :
          /\ Arrive(op, name, body, by) /\ by \in {"page", "other"}
          /\ body.type \in Types \/ (target # NoTunnel /\ body.type = target.type)
    BY <1>4 DEF Sends
  <2> DEFINE n == Len(requests) + 1
             q == Request(op, name, body, by)
  <2>2. /\ DOMAIN requests' = DOMAIN requests \cup {n} /\ requests'[n] = q
        /\ \A k \in DOMAIN requests : requests'[k] = requests[k]
    BY <1>1, <2>1, ArriveDoes
  <2>3. body.type \in Types
    BY <2>1 DEF ShownInv, PageSorted, TypeKnown
  <2>4. /\ q.body = body /\ q.by = by /\ q.todo = (IF op = "create" THEN {} ELSE Routers)
        /\ q.ops = [r \in Routers |-> IF op = "create" /\ r \in body.endpoints
                                      THEN CreateOps(body, name, n) ELSE Nothing]
    BY NewRequest
  <2> HIDE DEF q, n
  <2>5. \A r \in Routers \ q.todo : q.ops[r] = Nothing \/ OfSort(q.ops[r], body.type)
    BY <2>4, CreateSorts
  <2>6. RequestSorted(q)
    BY <2>1, <2>3, <2>4, <2>5 DEF RequestSorted
  <2> QED  BY <1>1, <2>2, <2>6
<1>5. Goal
  BY <1>1, <1>2, <1>3, <1>4, StepCases DEF Turns
<1> QED  BY <1>5

\* Every step keeps the lists true.
LEMMA NextKeepsShown ==
    ASSUME ShownInv, [Next]_vars
    PROVE  ShownInv'
<1> DEFINE Queries == /\ DOMAIN reading' = Types /\ fetching' \subseteq Types
                      /\ DOMAIN conf' = Routers
                      /\ \A type \in Types : FetchOK(type)' /\ ReadsTrue(type)' /\ ListTrue(type)'
<1>1. BaseInv' /\ (\A i \in DOMAIN requests : RequestSorted(requests[i]))'
  BY NextKeepsBase, RequestsStaySorted DEF ShownInv
<1>2. DOMAIN reading = Types /\ fetching \subseteq Types /\ DOMAIN conf = Routers
  BY DEF ShownInv
<1>3. ASSUME ListsKept PROVE DOMAIN reading' = Types /\ fetching' \subseteq Types
  BY <1>2, <1>3 DEF ListsKept
<1>4. ASSUME ListsKept, UNCHANGED <<conf, requests>> PROVE Queries
  <2>1. \A type : Untold(type)' <=> Untold(type)
    BY <1>4 DEF Untold
  <2>2. \A type \in Types : FetchOK(type)' /\ ReadsTrue(type)' /\ ListTrue(type)'
    BY <1>4, <2>1, FetchesStayTrue
  <2> QED  BY <1>2, <1>3, <1>4, <2>2
<1>5. ASSUME Turns PROVE Queries
  BY <1>2, <1>5, FetchesRead, TurnsKeepShown DEF Turns
<1>6. ASSUME NEW i \in DOMAIN requests, ServeStep(i), ListsKept PROVE Queries
  BY <1>3, <1>6, ServeKeepsShown
<1>7. ASSUME NEW i \in DOMAIN requests, Answer(i) PROVE Queries
  BY <1>2, <1>7, AnswerKeepsShown DEF Answer
<1>8. ASSUME Sends, ListsKept PROVE Queries
  <2>1. PICK op, name, body, by : Arrive(op, name, body, by) /\ conf' = conf
    BY <1>8 DEF Sends
  <2>2. /\ DOMAIN requests \subseteq DOMAIN requests'
        /\ \A k \in DOMAIN requests : requests'[k] = requests[k]
    BY <2>1, ArriveDoes DEF ShownInv
  <2>3. \A type : Untold(type) => Untold(type)'
    BY <2>2 DEF Untold
  <2>4. \A type \in Types : FetchOK(type)' /\ ReadsTrue(type)' /\ ListTrue(type)'
    BY <1>8, <2>1, <2>3, FetchesStayTrue
  <2> QED  BY <1>2, <1>3, <1>8, <2>1, <2>4
<1> HIDE DEF Queries
<1>9. Queries
  BY <1>4, <1>5, <1>6, <1>7, <1>8, StepCases DEF ShownInv, BaseInv
<1>10. list' = list \/ \E type \in Types : ListArrives(type)
  BY StepCases DEF ShownInv, BaseInv, ListsKept, Turns, Fetch, FetchRouter, LeaveCluster,
                   ReturnToCluster, Answer
<1>11. PageSorted'
  BY <1>10, PageStaysSorted DEF ShownInv
<1> QED  BY <1>1, <1>9, <1>11 DEF ShownInv, Queries

LEMMA InitShown == Init => ShownInv
<1> SUFFICES ASSUME Init PROVE ShownInv
  OBVIOUS
<1>1. BaseInv
  BY InitWhole DEF WholeInv
<1>2. /\ requests = <<>> /\ list = [type \in Types |-> Unloaded] /\ fetching = Types
      /\ reading = [type \in Types |-> NoAnswers] /\ details = NoTunnel /\ target = NoTunnel
      /\ DOMAIN conf = Routers
  BY DEF Init
<1>3. PageSorted
  BY <1>2 DEF PageSorted, TypeKnown, Unloaded
<1>4. \A type \in Types : FetchOK(type) /\ ReadsTrue(type) /\ ListTrue(type)
  BY <1>2 DEF FetchOK, ReadsTrue, ListTrue, NoAnswers
<1> QED  BY <1>1, <1>2, <1>3, <1>4 DEF ShownInv

\* When nothing is under way the page shows what the routers have, if it was
\* told of every change (onSuccess of useCreate..., useUpdate... and
\* useDelete... invalidates the query): although lists are read router by
\* router without a mutex, in the middle of groups and while the page shows
\* another cluster.
THEOREM ShownIsAcknowledged == Spec => []AcknowledgedIsShown
<1>1. ShownInv => AcknowledgedIsShown
  <2> SUFFICES ASSUME ShownInv, NEW type \in Types, here, list[type] # Unloaded,
                      type \notin fetching \cup doubt,
                      \A i \in DOMAIN requests : requests[i].body.type = type => ToldOf(requests[i])
               PROVE  list[type] = Listed(Conf(type), type)
    BY DEF AcknowledgedIsShown
  <2>1. ~Untold(type)
    BY DEF Untold
  <2> QED  BY <2>1 DEF ShownInv, ListTrue
<1>2. ShownInv /\ [Next]_vars => ShownInv'
  BY NextKeepsShown
<1> QED  BY <1>1, <1>2, InitShown, PTL DEF Spec
-----------------------------------------------------------------------------
(* Types: what the routers, the requests, the lists and the forms are made *)
(* of. "n" bounds the generations.                                         *)

Values == Nets \cup Transits
ObjectTyped(o, n) ==
    /\ o.path \in Paths /\ o.name \in Names /\ o.gen \in 0..n
    /\ o.path \in {"gre", "peer"} => o.val \in Settings \X BOOLEAN
    /\ o.path = "bridge" => o.val \in Transits
    /\ o.path = "policy" /\ o.key[2] = "subnets" =>
          o.val[1] \in Values /\ o.val[2] \in SUBSET Values
ObjectsTyped(objects, n) ==
    /\ \A o \in objects : ObjectTyped(o, n)
    /\ \A m \in Nets : IsFiniteSet(RoutesTo(Ids(objects), m))
GroupTyped(g, n) ==
    /\ ObjectsTyped(g.add, n)
    /\ \A o \in g.set : ObjectTyped(o, n) /\ o.path # "route"

Payloads == CreateGRETunnelPayload \cup CreateIPsecTunnelPayload
RequestTyped(q, n) ==
    /\ q.op \in {"create", "update", "delete"}
    /\ q.name \in Names /\ q.body \in Payloads
    /\ q.todo \subseteq Routers
    /\ q.reply \in {"none", "ok", "unsaid", "error"}
    /\ q.by \in {"page", "answered", "other"}
    /\ q.reply = "none" =>
          \A r \in Routers \ q.todo : q.ops[r] = Nothing \/ GroupTyped(q.ops[r], n)

ServiceTyped ==
    /\ \A r \in Routers : ObjectsTyped(conf[r], Len(requests))
    /\ \A i \in DOMAIN requests : RequestTyped(requests[i], Len(requests))

\* A router without objects.
LEMMA NothingIsTyped ==
    ASSUME NEW n
    PROVE  ObjectsTyped({}, n)
<1>1. \A m : RoutesTo(Ids({}), m) = {}
  BY DEF RoutesTo, Ids
<1> QED  BY <1>1, FS_EmptySet DEF ObjectsTyped

\* What a router has of the objects of two sets.
LEMMA UnionTyped ==
    ASSUME NEW n, NEW A, NEW B, ObjectsTyped(A, n), ObjectsTyped(B, n), NEW C, C \subseteq A \cup B
    PROVE  ObjectsTyped(C, n)
<1>1. ASSUME NEW m \in Nets PROVE IsFiniteSet(RoutesTo(Ids(C), m))
  <2>1. IsFiniteSet(RoutesTo(Ids(A), m)) /\ IsFiniteSet(RoutesTo(Ids(B), m))
    BY DEF ObjectsTyped
  <2>2. IsFiniteSet(RoutesTo(Ids(A), m) \cup RoutesTo(Ids(B), m))
    BY <2>1, FS_Union
  <2>3. RoutesTo(Ids(C), m) \subseteq RoutesTo(Ids(A), m) \cup RoutesTo(Ids(B), m)
    BY DEF RoutesTo, Ids
  <2> QED  BY <2>2, <2>3, FS_Subset
<1> QED  BY <1>1 DEF ObjectsTyped

\* Objects none of which is a route.
LEMMA NoRouteTyped ==
    ASSUME NEW n, NEW A, \A o \in A : ObjectTyped(o, n) /\ o.path # "route"
    PROVE  ObjectsTyped(A, n)
<1>1. ASSUME NEW m PROVE RoutesTo(Ids(A), m) = {}
  BY SameId DEF RoutesTo, Ids
<1> QED  BY <1>1, FS_EmptySet DEF ObjectsTyped

\* What is left of the objects of a router after a group, or a part of one.
LEMMA AppliedTyped ==
    ASSUME NEW n, NEW objects, ObjectsTyped(objects, n), NEW g, GroupTyped(g, n)
    PROVE  ObjectsTyped(After(objects, g), n)
<1>1. ObjectsTyped(g.add, n) /\ ObjectsTyped(g.set, n)
  BY NoRouteTyped DEF GroupTyped
<1>2. ObjectsTyped(g.add \cup g.set, n)
  BY <1>1, UnionTyped
<1>3. After(objects, g) \subseteq objects \cup (g.add \cup g.set)
  BY DEF After
<1> QED  BY <1>2, <1>3, UnionTyped

LEMMA PartTyped ==
    ASSUME NEW n, NEW g, GroupTyped(g, n), NEW h, h.add \subseteq g.add, h.set \subseteq g.set
    PROVE  GroupTyped(h, n)
<1>1. ObjectsTyped(h.add, n)
  BY UnionTyped DEF GroupTyped
<1> QED  BY <1>1 DEF GroupTyped

\* Later requests have larger generations.
LEMMA MoreGenerations ==
    ASSUME NEW n \in Nat, NEW m \in Nat, n <= m
    PROVE  /\ \A objects : ObjectsTyped(objects, n) => ObjectsTyped(objects, m)
           /\ \A g : GroupTyped(g, n) => GroupTyped(g, m)
           /\ \A q : RequestTyped(q, n) => RequestTyped(q, m)
<1>1. \A o : ObjectTyped(o, n) => ObjectTyped(o, m)
  <2>1. 0..n \subseteq 0..m
    OBVIOUS
  <2> QED  BY <2>1 DEF ObjectTyped
<1>2. \A objects : ObjectsTyped(objects, n) => ObjectsTyped(objects, m)
  BY <1>1 DEF ObjectsTyped
<1>3. \A g : GroupTyped(g, n) => GroupTyped(g, m)
  BY <1>1, <1>2 DEF GroupTyped
<1>4. \A q : RequestTyped(q, n) => RequestTyped(q, m)
  BY <1>3 DEF RequestTyped
<1> QED  BY <1>2, <1>3, <1>4

\* The copies of a route.
LEMMA RoutesAreFinite ==
    ASSUME NEW dsts \in SUBSET Nets, NEW copies \in RouteList, NEW name, NEW gen, NEW n \in Nets
    PROVE  IsFiniteSet(RoutesTo(Ids(RouteObjects(dsts, copies, name, gen)), n))
<1> DEFINE copy(k) == Id(Object("route", name, <<k, n>>, gen, n))
           K == 1..copies[n]
           T == {copy(k) : k \in K}
           f == [k \in K |-> copy(k)]
<1>1. copies[n] \in Nat
  BY DEF RouteList
<1>2. IsFiniteSet(K)
  BY <1>1, FS_Interval
<1>3. f \in Surjection(K, T)
  BY DEF Surjection
<1>4. IsFiniteSet(T)
  BY <1>2, <1>3, FS_Surjection
<1>5. ASSUME NEW id \in RoutesTo(Ids(RouteObjects(dsts, copies, name, gen)), n) PROVE id \in T
  <2>1. PICK o \in RouteObjects(dsts, copies, name, gen) : id = Id(o) /\ id[3][2] = n
    BY <1>5 DEF RoutesTo, Ids
  <2>2. PICK m \in dsts : \E k \in 1..copies[m] : o = Object("route", name, <<k, m>>, gen, m)
    BY <2>1 DEF RouteObjects
  <2>3. PICK k \in 1..copies[m] : o = Object("route", name, <<k, m>>, gen, m)
    BY <2>2
  <2>4. id[3] = <<k, m>>
    BY <2>1, <2>3, ObjectFields DEF Id
  <2>5. m = n
    BY <2>1, <2>4
  <2> QED  BY <2>1, <2>3, <2>5
<1> QED  BY <1>4, <1>5, FS_Subset

LEMMA RoutesTyped ==
    ASSUME NEW dsts \in SUBSET Nets, NEW copies \in RouteList, NEW name \in Names,
           NEW n \in Nat, NEW gen \in 0..n
    PROVE  ObjectsTyped(RouteObjects(dsts, copies, name, gen), n)
<1>1. \A o \in RouteObjects(dsts, copies, name, gen) : ObjectTyped(o, n)
  BY RoutesAreLoose DEF ObjectTyped, Paths
<1> QED  BY <1>1, RoutesAreFinite DEF ObjectsTyped

\* The subnets of a body.
LEMMA SubnetsTyped ==
    ASSUME NEW b \in Body, NEW name \in Names, NEW n \in Nat, NEW gen \in 0..n,
           NEW o \in SubnetPolicies(b, name, gen)
    PROVE  ObjectTyped(o, n) /\ o.path = "policy"
<1>1. b.locals \in Seq(Values) /\ b.remotes \in Seq(Values)
  BY DEF Body, SubnetList, Values
<1> DEFINE val(i) == <<b.locals[i], IF i <= Len(b.remotes) THEN {b.remotes[i]} ELSE {}>>
<1>2. PICK i \in 1..Len(b.locals) : o = Object("policy", name, <<i, "subnets">>, gen, val(i))
  BY DEF SubnetPolicies
<1>3. val(i)[1] \in Values
  BY <1>1
<1>4. val(i)[2] \in SUBSET Values
  <2>1. CASE i <= Len(b.remotes)
    <3>1. b.remotes[i] \in Values
      BY <1>1, <2>1
    <3> QED  BY <2>1, <3>1
  <2>2. CASE ~(i <= Len(b.remotes))
    BY <2>2
  <2> QED  BY <2>1, <2>2
<1> HIDE DEF val
<1>5. o.path = "policy" /\ o.name = name /\ o.gen = gen /\ o.val = val(i)
  BY <1>2, ObjectFields
<1> QED  BY <1>3, <1>4, <1>5 DEF ObjectTyped, Paths

\* The template or the policy of a route-based tunnel, its bridge and its
\* address.
LEMMA TransitTyped ==
    ASSUME NEW b \in Body, NEW name \in Names, NEW n \in Nat, NEW gen \in 0..n,
           NEW o \in TransitObjects(b, name, gen)
    PROVE  ObjectTyped(o, n) /\ o.path \in {"policy", "bridge", "address"}
<1>1. b.transit \in Transits \cup {NoTransit}
  BY DEF Body
<1>2. PICK path, key, val :
        /\ o = Object(path, name, key, gen, val) /\ path \in {"policy", "bridge", "address"}
        /\ path = "bridge" => val \in Transits
        /\ path = "policy" => key[2] # "subnets"
  <2>1. <<0, "template">>[2] # "subnets" /\ <<0, "tunnel">>[2] # "subnets"
    OBVIOUS
  <2>2. \/ o = Object("policy", name, <<0, "template">>, gen, <<NoTransit, {}>>)
        \/ o = Object("policy", name, <<0, "tunnel">>, gen, <<b.transit, {b.transit}>>)
        \/ o = Object("bridge", name, Only, gen, b.transit) /\ b.transit # NoTransit
        \/ o = Object("address", name, Only, gen, b.transit)
    BY DEF TransitObjects
  <2> QED  BY <1>1, <2>1, <2>2
<1>3. /\ o.path = path /\ o.name = name /\ o.key = key /\ o.gen = gen /\ o.val = val
  BY <1>2, ObjectFields
<1> QED  BY <1>2, <1>3 DEF ObjectTyped, Paths

\* A new tunnel.
LEMMA CreateTyped ==
    ASSUME NEW b \in Body, NEW name \in Names, NEW n \in Nat, NEW gen \in 0..n
    PROVE  GroupTyped(CreateOps(b, name, gen), n)
<1> DEFINE add == IF b.type = "gre" THEN {GREObject(b, name, gen)} ELSE IPsecObjects(b, name, gen)
           g == CreateOps(b, name, gen)
<1>1. g.add = add /\ g.set = {} /\ g.del = {}
  BY DEF CreateOps, Group
<1> SUFFICES ObjectsTyped(add, n)
  BY <1>1 DEF GroupTyped
<1>2. <<b.settings, b.disabled>> \in Settings \X BOOLEAN /\ b.routes \in RouteList
  BY DEF Body
<1>3. CASE b.type = "gre"
  <2>1. \A o \in add : o.path = "gre" /\ o.name = name /\ o.gen = gen /\ o.val = <<b.settings, b.disabled>>
    BY <1>3, ObjectFields DEF GREObject
  <2> HIDE DEF add
  <2>2. \A o \in add : ObjectTyped(o, n) /\ o.path # "route"
    BY <1>2, <2>1 DEF ObjectTyped, Paths
  <2> QED  BY <1>3, <2>1, <2>2, NoRouteTyped
<1>4. CASE b.type # "gre"
  <2> DEFINE core(p) == Object(p, name, Only, gen, IF p = "peer" THEN <<b.settings, b.disabled>>
                                                                 ELSE b.settings)
             cores == {core(p) : p \in Core}
             nets == RouteObjects(Nets, b.routes, name, gen)
             links == IF b.mode = "policy" THEN SubnetPolicies(b, name, gen)
                      ELSE TransitObjects(b, name, gen)
  <2>1. add \subseteq (cores \cup links) \cup nets
    BY <1>4 DEF IPsecObjects
  <2>2. ASSUME NEW o \in cores PROVE ObjectTyped(o, n) /\ o.path # "route"
    <3>1. PICK p \in Core : o = core(p)
      BY <2>2
    <3>2. o.path = p /\ o.name = name /\ o.gen = gen /\ (p = "peer" => o.val = <<b.settings, b.disabled>>)
      BY <3>1, ObjectFields
    <3> QED  BY <1>2, <3>1, <3>2 DEF ObjectTyped, Paths, Core
  <2>3. \A o \in links : ObjectTyped(o, n) /\ o.path # "route"
    BY SubnetsTyped, TransitTyped
  <2>4. ObjectsTyped(nets, n)
    BY <1>2, RoutesTyped
  <2> HIDE DEF add, cores, links, nets
  <2>5. ObjectsTyped(cores \cup links, n)
    BY <2>2, <2>3, NoRouteTyped
  <2> QED  BY <2>1, <2>4, <2>5, UnionTyped
<1> QED  BY <1>3, <1>4

\* A payload is a body.
LEMMA PayloadIsBody ==
    ASSUME NEW b \in Payloads
    PROVE  b \in Body /\ b.type \in Types
  BY DEF Payloads, CreateGRETunnelPayload, CreateIPsecTunnelPayload, Types

\* What a lookup makes of the IDs it found.
LEMMA LookupTyped ==
    ASSUME NEW n \in Nat, NEW i \in 0..n, NEW q, q.name \in Names, q.body \in Body, NEW ids,
           \A id \in ids : /\ id[1] \in Paths /\ id[2] \in Names /\ id[4] \in 0..n
                           /\ (id[1] = "gre") <=> (q.body.type = "gre")
    PROVE  OpsFor(ids, q, i) = Nothing \/ GroupTyped(OpsFor(ids, q, i), n)
<1> DEFINE b == q.body
           found == Found(ids)
           g == OpsFor(ids, q, i)
<1>1. \/ g = Nothing
      \/ g = DeleteOps(found)
      \/ b.type = "gre" /\ g = UpdateGREOps(found, b)
      \/ b.type # "gre" /\ g = UpdateIPsecOps(found, b, q.name, i)
  BY DEF OpsFor
<1>2. \A id \in found : /\ id[1] \in Paths /\ id[2] \in Names /\ id[4] \in 0..n
                        /\ (id[1] = "gre") <=> (b.type = "gre")
  BY DEF Found
<1>3. b.routes \in RouteList /\ b.transit \in Transits \cup {NoTransit}
  BY DEF Body
<1>4. <<b.settings, b.disabled>> \in Settings \X BOOLEAN
  BY DEF Body
<1> SUFFICES g = Nothing \/ GroupTyped(g, n)
  OBVIOUS
<1> HIDE DEF b, found, g
<1>5. CASE g = DeleteOps(found)
  <2>1. g.add = {} /\ g.set = {} /\ g.del = found
    BY <1>5 DEF DeleteOps, Group
  <2> QED  BY <1>2, <2>1, NothingIsTyped DEF GroupTyped
<1>6. CASE b.type = "gre" /\ g = UpdateGREOps(found, b)
  <2>1. g.add = {} /\ g.del = {} /\ g.set = {Changed(id, <<b.settings, b.disabled>>) : id \in found}
    BY <1>6 DEF UpdateGREOps, Group
  <2>2. ASSUME NEW p \in g.set PROVE ObjectTyped(p, n) /\ p.path = "gre"
    <3>1. PICK id \in found : p = Changed(id, <<b.settings, b.disabled>>)
      BY <2>1
    <3>2. /\ p.path = "gre" /\ p.name = id[2] /\ p.gen = id[4] /\ p.val = <<b.settings, b.disabled>>
      BY <1>2, <1>6, <3>1, Modified
    <3> QED  BY <1>2, <1>4, <3>2 DEF ObjectTyped, Paths
  <2>3. ObjectsTyped(g.add, n)
    BY <2>1, NothingIsTyped
  <2> QED  BY <2>2, <2>3 DEF GroupTyped
<1>7. CASE b.type # "gre" /\ g = UpdateIPsecOps(found, b, q.name, i)
  <2> DEFINE dsts == Missing(found, b)
             core(id) == IF id[1] = "peer" THEN <<b.settings, b.disabled>> ELSE b.settings
  <2>1. /\ g.add = RouteObjects(dsts, b.routes, q.name, i)
        /\ g.set = NewCore(found, b) \cup NewTransit(found, b)
        /\ g.del = Undesired(found, b)
    BY <1>7 DEF UpdateIPsecOps, Group
  <2>2. dsts \in SUBSET Nets
    BY DEF Missing
  <2> HIDE DEF dsts
  <2>3. ObjectsTyped(g.add, n)
    BY <1>3, <2>1, <2>2, RoutesTyped
  <2>4. ASSUME NEW p \in NewCore(found, b)
        PROVE  ObjectTyped(p, n) /\ p.path # "route"
    <3>1. PICK id \in found : id[1] \in Core /\ p = Changed(id, core(id))
      BY <2>4 DEF NewCore
    <3>2. /\ p.path = id[1] /\ p.name = id[2] /\ p.gen = id[4]
          /\ p.path = "peer" => p.val = <<b.settings, b.disabled>>
      BY <3>1, Modified
    <3> QED  BY <1>2, <1>4, <3>1, <3>2 DEF ObjectTyped, Core
  <2>5. ASSUME NEW p \in NewTransit(found, b)
        PROVE  ObjectTyped(p, n) /\ p.path # "route"
    <3> DEFINE pair == <<b.transit, {b.transit}>>
    <3>1. b.transit \in Transits
      BY <1>3, <2>5 DEF NewTransit
    <3>2. PICK id \in found : \/ id[1] \in {"bridge", "address"} /\ p = Changed(id, b.transit)
                              \/ id[1] = "policy" /\ p = Changed(id, pair)
      BY <2>5 DEF NewTransit
    <3>3. pair[1] \in Values /\ pair[2] \in SUBSET Values
      BY <3>1 DEF Values
    <3> HIDE DEF pair
    <3>4. /\ p.path = id[1] /\ p.name = id[2] /\ p.gen = id[4]
          /\ p.path = "policy" => p.val = pair
          /\ p.path = "bridge" => p.val = b.transit
      BY <3>2, Modified
    <3> QED  BY <1>2, <3>1, <3>2, <3>3, <3>4 DEF ObjectTyped
  <2>6. \A p \in g.set : ObjectTyped(p, n) /\ p.path # "route"
    BY <2>1, <2>4, <2>5
  <2> QED  BY <2>3, <2>6 DEF GroupTyped
<1> QED  BY <1>1, <1>5, <1>6, <1>7


-----------------------------------------------------------------------------
(* Types: the steps of the service.                                        *)

\* What a form has to be for its payload to be one.
FormTyped(f) ==
    /\ Payload(f) \in Payloads
    /\ f.step \in 0..(IF f.type = "gre" THEN 0 ELSE 3)
    /\ f.edit \in {NoTunnel} \cup MergedGRETunnel \cup MergedIPsecTunnel
    /\ f.edit # NoTunnel \/ f.ready => f.name \in Names

MergedOf(type) == IF type = "gre" THEN MergedGRETunnel ELSE MergedIPsecTunnel
ListsTyped == \A type \in Types : list[type] = Unloaded \/ list[type] \subseteq MergedOf(type)
ReadTyped(objects, type, n) ==
    ObjectsTyped(objects, n) /\ \A o \in objects : (o.path = "gre") <=> (type = "gre")
ReadingTyped ==
    \A type \in Types : \A r \in DOMAIN reading[type] :
        ReadTyped(reading[type][r], type, Len(requests))
OverlaysOK ==
    /\ form.open => FormTyped(form) /\ target = NoTunnel /\ details = NoTunnel
    /\ target # NoTunnel => details = NoTunnel
    /\ \A t \in {details, target} : t # NoTunnel => t.name \in Names /\ t.type \in Types
FlagsTyped == doubt \subseteq Types /\ cluster \in BOOLEAN /\ here \in BOOLEAN
PageTyped == ListsTyped /\ ReadingTyped /\ OverlaysOK /\ FlagsTyped
TypesInv == ShownInv /\ ServiceTyped /\ PageTyped

\* The number of requests.
LEMMA RequestCount ==
    ASSUME BaseInv
    PROVE  DOMAIN requests = 1..Len(requests) /\ Len(requests) \in Nat
  BY DEF BaseInv, FormInv, IsSequence

LEMMA SameCount ==
    ASSUME BaseInv, BaseInv', DOMAIN requests' = DOMAIN requests
    PROVE  Len(requests') = Len(requests)
<1>1. DOMAIN requests = 1..Len(requests) /\ Len(requests) \in Nat
  BY RequestCount
<1>2. DOMAIN requests' = 1..Len(requests') /\ Len(requests') \in Nat
  BY DEF BaseInv, FormInv, IsSequence
<1> QED  BY <1>1, <1>2

\* The group of a request that looked its tunnel up.
LEMMA GroupIsTyped ==
    ASSUME BaseInv, ServiceTyped, NEW i \in DOMAIN requests, requests[i].reply = "none",
           requests[i].locked \/ requests[i].todo = {}, NEW r \in Touched(requests[i])
    PROVE  GroupTyped(requests[i].ops[r], Len(requests)) /\ r \in Routers
<1>1. Shaped(requests[i]) /\ RequestTyped(requests[i], Len(requests))
  BY DEF BaseInv, Shapes, ServiceTyped
<1>2. r \in Routers \ requests[i].todo /\ requests[i].ops[r] # Nothing
  BY <1>1 DEF Shaped, Touched
<1> QED  BY <1>1, <1>2 DEF RequestTyped

\* What the GETs of a router answer.
LEMMA AnswerTyped ==
    ASSUME BaseInv, ServiceTyped, NEW r \in Routers, NEW type, NEW objects \in Answers(r, type)
    PROVE  ObjectsTyped(objects, Len(requests))
<1>1. PICK view \in Views(r) : objects \subseteq view
  BY DEF Answers
<1>2. ObjectsTyped(conf[r], Len(requests))
  BY DEF ServiceTyped
<1>3. CASE view = conf[r]
  BY <1>1, <1>2, <1>3, UnionTyped
<1>4. CASE view # conf[r]
  <2>1. PICK g \in InProgress(r), paths \in Glimpses : view = After(conf[r], Part(g, paths))
    BY <1>4 DEF Views
  <2>2. PICK i \in DOMAIN requests :
          /\ requests[i].reply = "none" /\ requests[i].locked
          /\ r \in Touched(requests[i]) /\ g = requests[i].ops[r]
    BY <2>1 DEF InProgress, Running
  <2>3. GroupTyped(g, Len(requests))
    BY <2>2, GroupIsTyped
  <2>4. Part(g, paths).add \subseteq g.add /\ Part(g, paths).set \subseteq g.set
    BY DEF Part, Group
  <2>5. ObjectsTyped(view, Len(requests))
    BY <1>2, <2>1, <2>3, <2>4, PartTyped, AppliedTyped
  <2> QED  BY <1>1, <2>5, UnionTyped
<1> QED  BY <1>3, <1>4

\* The IDs a lookup finds.
LEMMA TaggedTyped ==
    ASSUME NEW objects, NEW n, ObjectsTyped(objects, n), NEW type, NEW name,
           NEW id \in Tagged(objects, type, name)
    PROVE  id[1] \in Paths /\ id[2] \in Names /\ id[4] \in 0..n
<1>1. PICK o \in objects : Id(o) = id
  BY DEF Tagged, Ids
<1>2. ObjectTyped(o, n)
  BY DEF ObjectsTyped
<1> QED  BY <1>1, <1>2, SameId DEF ObjectTyped

\* A step of the service.
LEMMA ServeTyped ==
    ASSUME TypesInv, BaseInv', NEW i \in DOMAIN requests, ServeStep(i)
    PROVE  ServiceTyped'
<1> DEFINE n == Len(requests)
           q == requests[i]
           p == requests'[i]
<1>1. BaseInv /\ ServiceTyped /\ n \in Nat /\ i \in 0..n /\ DOMAIN conf = Routers
  BY RequestCount DEF TypesInv, ShownInv
<1>2. /\ Served(i) /\ DOMAIN requests' = DOMAIN requests /\ Asks(q, p) /\ q.reply = "none"
      /\ \A j \in DOMAIN requests : j # i => SameFor(requests[j], requests'[j])
  BY <1>1, ServeOne DEF Served
<1>3. Len(requests') = n
  BY <1>1, <1>2, SameCount
<1>4. \A j \in DOMAIN requests : RequestTyped(requests[j], n) /\ Shaped(requests[j])
  BY <1>1 DEF ServiceTyped, BaseInv, Shapes
<1>5. ASSUME NEW j \in DOMAIN requests, j # i PROVE RequestTyped(requests'[j], n)
  <2>1. SameFor(requests[j], requests'[j]) /\ RequestTyped(requests[j], n)
    BY <1>2, <1>4, <1>5
  <2> HIDE DEF n
  <2> QED  BY <2>1 DEF RequestTyped, SameFor, Asks
<1>6. ASSUME Settled(q, p), p.reply \in {"none", "ok", "unsaid", "error"} PROVE RequestTyped(p, n)
  <2>1. RequestTyped(q, n)
    BY <1>4
  <2> HIDE DEF n, q, p
  <2> QED  BY <1>2, <1>6, <2>1 DEF RequestTyped, Settled, Asks
<1>7. ASSUME NEW r \in Routers, Lookup(i, r) PROVE ServiceTyped'
  <2>1. PICK objects \in Answers(r, q.body.type) :
          LookedUp(q, p, r, i, Tagged(objects, q.body.type, q.name))
    BY <1>1, <1>7, LookupDoes
  <2>2. conf' = conf
    BY <1>1, <1>7, LookupDoes
  <2> DEFINE ids == Tagged(objects, q.body.type, q.name)
  <2>3. /\ p.todo = q.todo \ {r} /\ p.reply = "none"
        /\ \A s \in Routers : p.ops[s] = IF s = r THEN OpsFor(ids, q, i) ELSE q.ops[s]
    BY <2>1 DEF LookedUp
  <2>4. \A id \in ids : /\ id[1] \in Paths /\ id[2] \in Names /\ id[4] \in 0..n
                        /\ (id[1] = "gre") <=> (q.body.type = "gre")
    BY <1>1, AnswerTyped, TaggedTyped, TaggedPaths
  <2>5. RequestTyped(q, n) /\ q.name \in Names /\ q.body \in Body
    BY <1>4, PayloadIsBody DEF RequestTyped
  <2> HIDE DEF ids, n, q, p
  <2>6. OpsFor(ids, q, i) = Nothing \/ GroupTyped(OpsFor(ids, q, i), n)
    BY <1>1, <2>4, <2>5, LookupTyped
  <2>7. ASSUME NEW s \in Routers \ p.todo PROVE p.ops[s] = Nothing \/ GroupTyped(p.ops[s], n)
    <3>1. CASE s = r
      BY <2>3, <2>6, <3>1
    <3>2. CASE s # r
      BY <1>2, <2>3, <2>5, <2>7, <3>2 DEF RequestTyped
    <3> QED  BY <3>1, <3>2
  <2>8. RequestTyped(p, n)
    BY <1>2, <2>3, <2>5, <2>7 DEF RequestTyped, Asks
  <2> QED  BY <1>1, <1>2, <1>3, <1>5, <2>2, <2>8 DEF ServiceTyped, p, n
<1>8. ASSUME LookupFails(i) \/ NotFound(i) \/ Lock(i) PROVE ServiceTyped'
  <2>1. conf' = conf /\ Settled(q, p) /\ p.reply \in {"none", "error"}
    BY <1>1, <1>8, QuietDoes
  <2>2. RequestTyped(p, n)
    BY <1>6, <2>1
  <2> QED  BY <1>1, <1>2, <1>3, <1>5, <2>1, <2>2 DEF ServiceTyped
<1>9. ASSUME ExecuteApplies(i) PROVE ServiceTyped'
  <2>1. /\ Settled(q, p) /\ p.reply \in {"ok", "unsaid"} /\ q.todo = {}
        /\ conf' = [r \in Routers |-> IF r \in Touched(q) THEN After(conf[r], q.ops[r]) ELSE conf[r]]
    BY <1>1, <1>9, ApplyDoes
  <2>2. RequestTyped(p, n)
    BY <1>6, <2>1
  <2>3. ASSUME NEW r \in Routers PROVE ObjectsTyped(conf'[r], n)
    <3>1. ObjectsTyped(conf[r], n)
      BY <1>1 DEF ServiceTyped
    <3>2. CASE r \in Touched(q)
      <4>1. GroupTyped(q.ops[r], n)
        BY <1>1, <1>2, <2>1, <3>2, GroupIsTyped
      <4> QED  BY <2>1, <3>1, <3>2, <4>1, AppliedTyped
    <3>3. CASE r \notin Touched(q)
      BY <2>1, <3>1, <3>3
    <3> QED  BY <3>2, <3>3
  <2> QED  BY <1>2, <1>3, <1>5, <2>2, <2>3 DEF ServiceTyped
<1>10. ASSUME ExecuteFails(i) PROVE ServiceTyped'
  <2>1. Settled(q, p) /\ p.reply = "error"
    BY <1>1, <1>10, FailDoes
  <2>2. RequestTyped(p, n)
    BY <1>6, <2>1
  <2>3. CASE conf' = conf
    BY <1>1, <1>2, <1>3, <1>5, <2>2, <2>3 DEF ServiceTyped
  <2>4. CASE conf' # conf
    <3>1. PICK r \in Touched(q) : \E h :
            /\ h.add \subseteq q.ops[r].add /\ h.set \subseteq q.ops[r].set
            /\ h.del \subseteq q.ops[r].del
            /\ conf' = [conf EXCEPT ![r] = After(@, h)]
      BY <1>10, <2>4, FailLeaves
    <3>2. PICK h : /\ h.add \subseteq q.ops[r].add /\ h.set \subseteq q.ops[r].set
                   /\ conf' = [conf EXCEPT ![r] = After(@, h)]
      BY <3>1
    <3>3. GroupTyped(q.ops[r], n) /\ r \in Routers /\ q.locked
      BY <1>1, <1>2, <1>10, GroupIsTyped DEF ExecuteFails
    <3>4. ObjectsTyped(After(conf[r], h), n)
      <4>1. GroupTyped(h, n)
        BY <3>2, <3>3, PartTyped
      <4> QED  BY <1>1, <3>3, <4>1, AppliedTyped DEF ServiceTyped
    <3>5. \A s \in Routers : conf'[s] = IF s = r THEN After(conf[r], h) ELSE conf[s]
      BY <1>1, <3>2
    <3>6. \A s \in Routers : ObjectsTyped(conf'[s], n)
      BY <1>1, <3>4, <3>5 DEF ServiceTyped
    <3> QED  BY <1>2, <1>3, <1>5, <2>2, <3>6 DEF ServiceTyped
  <2> QED  BY <2>3, <2>4
<1> QED  BY <1>7, <1>8, <1>9, <1>10 DEF ServeStep

\* An answer that is taken.
LEMMA TakenTyped ==
    ASSUME TypesInv, BaseInv', NEW i \in DOMAIN requests, Answer(i)
    PROVE  ServiceTyped'
<1> DEFINE n == Len(requests)
           p == requests'[i]
<1>1. BaseInv /\ ServiceTyped
  BY DEF TypesInv, ShownInv
<1>2. /\ conf' = conf /\ DOMAIN requests' = DOMAIN requests
      /\ \A j \in DOMAIN requests : j # i => requests'[j] = requests[j]
      /\ Settled(requests[i], p) /\ p.by = "answered" /\ p.op = requests[i].op
      /\ p.name = requests[i].name /\ p.body = requests[i].body /\ p.reply = requests[i].reply
  BY <1>1, AnswerDoes
<1>3. Len(requests') = n
  BY <1>1, <1>2, SameCount
<1>4. RequestTyped(p, n)
  <2>1. RequestTyped(requests[i], n)
    BY <1>1 DEF ServiceTyped
  <2> HIDE DEF n, p
  <2> QED  BY <1>2, <2>1 DEF RequestTyped, Settled
<1> QED  BY <1>1, <1>2, <1>3, <1>4 DEF ServiceTyped

\* A request that arrives.
LEMMA ArriveTyped ==
    ASSUME BaseInv, BaseInv', ServiceTyped, NEW op \in {"create", "update", "delete"},
           NEW name \in Names, NEW body \in Payloads, NEW by \in {"page", "other"},
           Arrive(op, name, body, by), conf' = conf
    PROVE  ServiceTyped' /\ Len(requests') = Len(requests) + 1
<1> DEFINE n == Len(requests)
           q == Request(op, name, body, by)
<1>1. /\ DOMAIN requests = 1..n /\ n \in Nat
      /\ DOMAIN requests' = 1..Len(requests') /\ Len(requests') \in Nat
  BY RequestCount DEF BaseInv, FormInv, IsSequence
<1>2. /\ DOMAIN requests' = DOMAIN requests \cup {n + 1} /\ requests'[n + 1] = q
      /\ \A k \in DOMAIN requests : requests'[k] = requests[k]
  BY ArriveDoes
<1>3. Len(requests') = n + 1
  <2> DEFINE m == Len(requests')
  <2>1. \A k : k \in 1..m <=> k \in 1..n \/ k = n + 1
    BY <1>1, <1>2
  <2>2. m \in Nat
    BY <1>1
  <2> HIDE DEF m, n
  <2>3. n + 1 \in 1..m /\ (m = 0 \/ m \in 1..n \/ m = n + 1)
    BY <1>1, <2>1, <2>2
  <2>4. m = n + 1
    BY <1>1, <2>2, <2>3
  <2> QED  BY <2>4 DEF m
<1>4. /\ q.op = op /\ q.name = name /\ q.body = body /\ q.by = by
      /\ q.reply = (IF op = "create" /\ body.endpoints = {} THEN "error" ELSE "none")
      /\ q.todo = (IF op = "create" THEN {} ELSE Routers)
      /\ q.ops = [r \in Routers |-> IF op = "create" /\ r \in body.endpoints
                                    THEN CreateOps(body, name, n + 1) ELSE Nothing]
  BY NewRequest
<1> HIDE DEF q, n
<1>5. GroupTyped(CreateOps(body, name, n + 1), n + 1)
  BY <1>1, PayloadIsBody, CreateTyped
<1>6. RequestTyped(q, n + 1)
  BY <1>4, <1>5 DEF RequestTyped
<1>7. /\ \A objects : ObjectsTyped(objects, n) => ObjectsTyped(objects, n + 1)
      /\ \A p : RequestTyped(p, n) => RequestTyped(p, n + 1)
  BY <1>1, MoreGenerations
<1>8. \A r \in Routers : ObjectsTyped(conf'[r], n + 1)
  BY <1>7 DEF ServiceTyped, n
<1>9. \A j \in DOMAIN requests' : RequestTyped(requests'[j], n + 1)
  BY <1>2, <1>6, <1>7 DEF ServiceTyped, n
<1> QED  BY <1>3, <1>8, <1>9 DEF ServiceTyped, n

-----------------------------------------------------------------------------
(* Types: what the list endpoints merge.                                   *)

\* An order of policies is a sequence of them.
LEMMA OrderedTyped ==
    ASSUME NEW policies
    PROVE  InOrder(policies) \in Seq(policies)
<1>1. CASE Orders(policies) = {}
  <2>1. InOrder(policies) = <<>>
    BY <1>1 DEF InOrder
  <2> QED  BY <2>1
<1>2. CASE Orders(policies) # {}
  <2> DEFINE s == CHOOSE t \in Orders(policies) : TRUE
  <2>1. InOrder(policies) = s /\ s \in Orders(policies)
    BY <1>2 DEF InOrder
  <2> HIDE DEF s
  <2>2. PICK n \in 0..Cardinality(policies) : s \in [1..n -> policies]
    BY <2>1 DEF Orders
  <2>3. n \in Nat
    BY <2>2
  <2>4. s \in Seq(policies)
    BY <2>2, <2>3
  <2> QED  BY <2>1, <2>4
<1> QED  BY <1>1, <1>2

\* The subnets the merged tunnel shows.
Locals(policies) ==
    [k \in DOMAIN InOrder(policies) |-> InOrder(policies)[k].val[1]]
Remotes(policies) ==
    LET remotes == InOrder({o \in policies : o.val[2] # {}})
    IN  [k \in DOMAIN remotes |-> CHOOSE m \in remotes[k].val[2] : TRUE]

LEMMA ShownSubnets ==
    ASSUME NEW policies, \A o \in policies : o.val[1] \in Values /\ o.val[2] \in SUBSET Values
    PROVE  Locals(policies) \in SubnetList /\ Remotes(policies) \in SubnetList
<1> DEFINE paired == {o \in policies : o.val[2] # {}}
           locals == InOrder(policies)
           remotes == InOrder(paired)
           l == [k \in DOMAIN locals |-> locals[k].val[1]]
           r == [k \in DOMAIN remotes |-> CHOOSE m \in remotes[k].val[2] : TRUE]
<1>1. locals \in Seq(policies) /\ remotes \in Seq(paired)
  BY OrderedTyped
<1>2. l \in Seq(Values)
  <2> HIDE DEF locals
  <2>1. DOMAIN locals = 1..Len(locals) /\ Len(locals) \in Nat
    BY <1>1
  <2>2. \A k \in 1..Len(locals) : locals[k].val[1] \in Values
    BY <1>1
  <2>3. l \in [1..Len(locals) -> Values]
    BY <2>1, <2>2
  <2> QED  BY <2>1, <2>3
<1>3. r \in Seq(Values)
  <2>1. \A o \in paired : (CHOOSE m \in o.val[2] : TRUE) \in Values
    OBVIOUS
  <2> HIDE DEF remotes, paired
  <2>2. DOMAIN remotes = 1..Len(remotes) /\ Len(remotes) \in Nat
    BY <1>1
  <2>3. \A k \in 1..Len(remotes) : remotes[k] \in paired
    BY <1>1
  <2>4. \A k \in 1..Len(remotes) : r[k] \in Values
    BY <2>1, <2>2, <2>3
  <2>5. r \in [1..Len(remotes) -> Values]
    BY <2>2, <2>4
  <2> QED  BY <2>2, <2>5
<1>4. SubnetList = Seq(Values)
  BY DEF SubnetList, Values
<1>5. Locals(policies) = l /\ Remotes(policies) = r
  BY DEF Locals, Remotes
<1> HIDE DEF l, r
<1> QED  BY <1>2, <1>3, <1>4, <1>5

\* A tunnel that a router answered with is listed with the attributes of one.
LEMMA MergedTyped ==
    ASSUME NEW type \in Types, NEW n, NEW seen, \A r \in Routers : ReadTyped(seen[r], type, n),
           NEW name \in Names, \E r \in Routers : Exists(seen[r], type, name)
    PROVE  MergedTunnel(seen, type, name) \in MergedOf(type)
<1> DEFINE s == Shower(seen, type, name)
           objects == {o \in seen[s] : o.name = name}
           has(path) == \E o \in objects : o.path = path
           val == ValueOf(objects, Anchor(type))
           policies == {o \in objects : o.path = "policy" /\ o.key[2] = "subnets"}
           ls == InOrder(policies)
           rs == InOrder({o \in policies : o.val[2] # {}})
           mode == IF policies # {} THEN "policy" ELSE "route"
           transit == IF has("bridge") /\ has("address") THEN ValueOf(objects, "bridge")
                                                          ELSE NoTransit
           routes == [m \in Nets |-> Cardinality(RoutesTo(Ids(objects), m))]
           locals == [k \in DOMAIN ls |-> ls[k].val[1]]
           remotes == [k \in DOMAIN rs |-> CHOOSE m \in rs[k].val[2] : TRUE]
           ends == {r \in Routers : Exists(seen[r], type, name)}
           merged == [name |-> name, type |-> type, settings |-> val[1], disabled |-> val[2],
                      mode |-> mode, transit |-> transit, routes |-> routes,
                      locals |-> locals, remotes |-> remotes, endpoints |-> ends]
<1>1. MergedTunnel(seen, type, name) = merged
  BY DEF MergedTunnel
<1>2. s \in Routers /\ Exists(seen[s], type, name)
  BY MasterAssumption DEF Shower
<1> HIDE DEF s
<1>3. /\ ObjectsTyped(seen[s], n)
      /\ \A o \in objects : ObjectTyped(o, n) /\ o \in seen[s] /\ ((o.path = "gre") <=> (type = "gre"))
  BY <1>2 DEF ReadTyped, ObjectsTyped
<1>4. has(Anchor(type))
  <2>1. PICK id \in Tagged(seen[s], type, name) : id[1] = Anchor(type)
    BY <1>2 DEF Exists, Has
  <2>2. PICK o \in seen[s] : o.name = name /\ Id(o) = id
    BY <2>1 DEF Tagged, Ids
  <2> QED  BY <2>1, <2>2, SameId
<1>5. ObjectsTyped(objects, n)
  BY <1>3, UnionTyped
<1> HIDE DEF objects
<1>6. val \in Settings \X BOOLEAN
  <2> DEFINE chosen == CHOOSE o \in objects : o.path = Anchor(type)
  <2>1. chosen \in objects /\ chosen.path = Anchor(type)
    BY <1>4
  <2>2. val = chosen.val
    BY DEF ValueOf
  <2> HIDE DEF chosen
  <2>3. chosen.path \in {"gre", "peer"}
    BY <2>1 DEF Anchor
  <2> QED  BY <1>3, <2>1, <2>2, <2>3 DEF ObjectTyped
<1>7. val[1] \in Settings /\ val[2] \in BOOLEAN
  BY <1>6
<1>8. transit \in Transits \cup {NoTransit}
  <2>1. ASSUME has("bridge") PROVE ValueOf(objects, "bridge") \in Transits
    <3> DEFINE chosen == CHOOSE o \in objects : o.path = "bridge"
    <3>1. chosen \in objects /\ chosen.path = "bridge"
      BY <2>1
    <3>2. ValueOf(objects, "bridge") = chosen.val
      BY DEF ValueOf
    <3> HIDE DEF chosen
    <3> QED  BY <1>3, <3>1, <3>2 DEF ObjectTyped
  <2> QED  BY <2>1
<1>9. ends \in SUBSET Routers
  OBVIOUS
<1>10. locals \in SubnetList /\ remotes \in SubnetList
  <2>1. \A o \in policies : o.val[1] \in Values /\ o.val[2] \in SUBSET Values
    BY <1>3 DEF ObjectTyped
  <2> HIDE DEF policies
  <2>2. Locals(policies) \in SubnetList /\ Remotes(policies) \in SubnetList
    BY <2>1, ShownSubnets
  <2>3. locals = Locals(policies) /\ remotes = Remotes(policies)
    BY DEF Locals, Remotes
  <2> QED  BY <2>2, <2>3
<1>11. routes \in RouteList
  <2>1. \A m \in Nets : Cardinality(RoutesTo(Ids(objects), m)) \in Nat
    BY <1>5, FS_CardinalityType DEF ObjectsTyped
  <2> QED  BY <2>1 DEF RouteList
<1>12. mode \in {"route", "policy"}
  OBVIOUS
<1> HIDE DEF val, ends
<1>13. CASE type = "gre"
  <2>1. \A o \in objects : o.path = "gre"
    BY <1>3, <1>13
  <2>2. policies = {} /\ {o \in policies : o.val[2] # {}} = {}
    BY <2>1
  <2>3. locals = <<>> /\ remotes = <<>>
    <3>1. InOrder({}) = <<>>
      <4>1. InOrder({}) \in Seq({})
        BY OrderedTyped
      <4>2. Len(InOrder({})) = 0
        BY <4>1
      <4> QED  BY <4>1, <4>2
    <3>2. ls = <<>> /\ rs = <<>>
      BY <2>2, <3>1
    <3> HIDE DEF ls, rs
    <3> QED  BY <3>2
  <2>4. mode = "route" /\ transit = NoTransit
    BY <2>1, <2>2
  <2>5. \A m \in Nets : RoutesTo(Ids(objects), m) = {}
    BY <2>1, SameId DEF RoutesTo, Ids
  <2>6. routes = NoRoutes
    BY <2>5, FS_EmptySet DEF NoRoutes
  <2> HIDE DEF mode, transit, routes, locals, remotes
  <2>7. merged \in MergedGRETunnel
    BY <1>7, <1>9, <1>13, <2>3, <2>4, <2>6 DEF MergedGRETunnel
  <2> QED  BY <1>1, <1>13, <2>7 DEF MergedOf
<1>14. CASE type = "ipsec"
  <2> HIDE DEF mode, transit, routes, locals, remotes
  <2>1. merged \in MergedIPsecTunnel
    BY <1>7, <1>8, <1>9, <1>10, <1>11, <1>12, <1>14 DEF MergedIPsecTunnel
  <2> QED  BY <1>1, <1>14, <2>1 DEF MergedOf
<1> QED  BY <1>13, <1>14 DEF Types

-----------------------------------------------------------------------------
(* Types: the form and what it sends.                                      *)

\* What SubnetList.tsx makes of a list stays one.
LEMMA EditedList ==
    ASSUME NEW s \in SubnetList, NEW l \in EditSubnets(s)
    PROVE  l \in SubnetList
<1>1. s \in Seq(Values) /\ SubnetList = Seq(Values) /\ Nets \subseteq Values
  BY DEF SubnetList, Values
<1>2. ASSUME NEW n \in Nets, l = Append(s, n) PROVE l \in Seq(Values)
  BY <1>1, <1>2
<1>3. ASSUME NEW i \in 1..Len(s), l = RemoveAt(s, i) PROVE l \in Seq(Values)
  <2>1. SubSeq(s, 1, i - 1) \in Seq(Values) /\ SubSeq(s, i + 1, Len(s)) \in Seq(Values)
    BY <1>1
  <2> QED  BY <1>3, <2>1 DEF RemoveAt
<1> QED  BY <1>1, <1>2, <1>3 DEF EditSubnets

\* The fields of a payload.
FieldsTyped(f) ==
    /\ f.type \in Types /\ f.settings \in Settings /\ f.mode \in {"route", "policy"}
    /\ f.transit \in Transits \cup {NoTransit}
    /\ f.routes \in RouteList /\ f.locals \in SubnetList /\ f.remotes \in SubnetList
    /\ f.endpoints \in SUBSET Routers
    /\ f.type = "gre" => /\ f.mode = "route" /\ f.transit = NoTransit
                         /\ f.routes = NoRoutes /\ f.locals = <<>> /\ f.remotes = <<>>

LEMMA PayloadTyped ==
    ASSUME NEW f
    PROVE  Payload(f) \in Payloads <=> FieldsTyped(f)
<1> DEFINE b == Payload(f)
<1>1. b = [type |-> f.type, settings |-> f.settings, disabled |-> FALSE, mode |-> f.mode,
           transit |-> f.transit, routes |-> f.routes, locals |-> f.locals,
           remotes |-> f.remotes, endpoints |-> f.endpoints]
  BY DEF Payload
<1>2. b \in Body <=>
        /\ f.type \in Types /\ f.settings \in Settings /\ f.mode \in {"route", "policy"}
        /\ f.transit \in Transits \cup {NoTransit}
        /\ f.routes \in RouteList /\ f.locals \in SubnetList /\ f.remotes \in SubnetList
        /\ f.endpoints \in SUBSET Routers
  BY <1>1 DEF Body
<1>3. /\ b.type = f.type /\ b.mode = f.mode /\ b.transit = f.transit /\ b.routes = f.routes
      /\ b.locals = f.locals /\ b.remotes = f.remotes
  BY <1>1
<1> HIDE DEF b
<1>4. b \in Payloads <=> FieldsTyped(f)
  BY <1>2, <1>3 DEF Payloads, CreateGRETunnelPayload, CreateIPsecTunnelPayload, FieldsTyped, Types
<1> QED  BY <1>4 DEF b

\* What the fields are without a tunnel to edit.
LEMMA DefaultFields ==
    /\ Defaults.settings \in Settings /\ Defaults.mode = "route"
    /\ Defaults.transit = NoTransit /\ Defaults.routes = NoRoutes
    /\ Defaults.locals = <<>> /\ Defaults.remotes = <<>>
    /\ NoRoutes \in RouteList /\ <<>> \in SubnetList
<1>1. <<>> \in SubnetList
  BY DEF SubnetList
<1>2. NoRoutes \in RouteList
  BY DEF NoRoutes, RouteList
<1>3. (CHOOSE s \in Settings : TRUE) \in Settings
  BY SettingsAssumption
<1> QED  BY <1>1, <1>2, <1>3 DEF Defaults

\* A form that is opened or reset.
Tunnels == MergedGRETunnel \cup MergedIPsecTunnel

LEMMA InitialTyped ==
    ASSUME NEW type \in Types, NEW edit \in {NoTunnel} \cup Tunnels, NEW rs \in SUBSET Routers
    PROVE  FormTyped(InitialForm(type, edit, rs))
<1>1. edit # NoTunnel => /\ edit.name \in Names /\ edit.type \in Types
                         /\ FieldsTyped(edit)
  <2>1. ASSUME edit \in MergedGRETunnel
        PROVE  edit.name \in Names /\ edit.type \in Types /\ FieldsTyped(edit)
    BY <2>1, DefaultFields DEF MergedGRETunnel, FieldsTyped, Types
  <2>2. ASSUME edit \in MergedIPsecTunnel
        PROVE  edit.name \in Names /\ edit.type \in Types /\ FieldsTyped(edit)
    BY <2>2 DEF MergedIPsecTunnel, FieldsTyped, Types
  <2> QED  BY <2>1, <2>2 DEF Tunnels
<1>2. ASSUME NEW ready, NEW v, NEW ends \in SUBSET Routers,
             \/ v = Defaults
             \/ edit # NoTunnel /\ v = edit /\ edit.type = type,
             edit = NoTunnel => ready = FALSE
      PROVE  FormTyped(Form(type, edit, ready, v, ends))
  <2> DEFINE f == Form(type, edit, ready, v, ends)
  <2>1. /\ f.type = type /\ f.settings = v.settings /\ f.mode = v.mode /\ f.transit = v.transit
        /\ f.routes = v.routes /\ f.locals = v.locals /\ f.remotes = v.remotes
        /\ f.endpoints = ends /\ f.step = 0 /\ f.edit = edit /\ f.ready = ready
        /\ edit # NoTunnel => f.name = edit.name
    BY DEF Form
  <2> HIDE DEF f
  <2>2. FieldsTyped(f)
    BY <1>1, <1>2, <2>1, DefaultFields DEF FieldsTyped
  <2>3. FormTyped(f)
    BY <1>1, <1>2, <2>1, <2>2, PayloadTyped DEF FormTyped, Tunnels
  <2> QED  BY <2>3 DEF f
<1>3. ASSUME edit # NoTunnel PROVE edit.endpoints \in SUBSET Routers
  BY <1>1, <1>3 DEF FieldsTyped
<1>4. CASE type = "gre"
  BY <1>2, <1>3, <1>4 DEF InitialForm, InitialGREForm
<1>5. CASE type = "ipsec"
  BY <1>2, <1>3, <1>5 DEF InitialForm, InitialIPsecForm
<1> QED  BY <1>4, <1>5 DEF Types

\* Typing into one field or another.
LEMMA TypingTyped ==
    ASSUME FormInv, form.open => FormTyped(form),
           \/ GREFields
           \/ IPsecConnectionStep
           \/ IPsecPhase1Step
           \/ IPsecPhase2Step
           \/ IPsecNetworksStep
    PROVE  FormTyped(form') /\ form.open
<1>1. form.open
  BY DEF GREFields, IPsecConnectionStep, IPsecPhase1Step, IPsecPhase2Step, IPsecNetworksStep
<1>2. IsForm(form) /\ FormTyped(form) /\ FieldsTyped(form)
  BY <1>1, PayloadTyped DEF FormInv, FormOK, FormTyped
<1>3. ASSUME FieldsTyped(form'), form'.type = form.type, form'.step = form.step,
             form'.edit = form.edit, form'.edit # NoTunnel \/ form'.ready => form'.name \in Names
      PROVE  FormTyped(form')
  BY <1>2, <1>3, PayloadTyped DEF FormTyped
<1>4. CASE Typed(SettingFields(form))
  <2>1. PICK s \in Settings : form' = [form EXCEPT !.settings = s]
    BY <1>4 DEF Typed, SettingFields
  <2>2. FieldsTyped(form')
    BY <1>2, <2>1 DEF FieldsTyped, IsForm
  <2>3. /\ form'.type = form.type /\ form'.step = form.step /\ form'.edit = form.edit
        /\ form'.ready = form.ready /\ form'.name = form.name
    BY <1>2, <2>1 DEF IsForm
  <2> QED  BY <1>1, <1>2, <1>3, <2>2, <2>3 DEF FormTyped
<1>5. ASSUME NEW f \in NameField(form)
      PROVE  /\ IsForm(f) /\ f.type = form.type /\ f.step = form.step /\ f.edit = form.edit
             /\ f.name \in Names /\ FieldsTyped(f)
  <2>1. CASE form.edit = NoTunnel
    <3>1. PICK n \in Names : f = [form EXCEPT !.name = n]
      BY <1>5, <2>1 DEF NameField
    <3> QED  BY <1>2, <3>1 DEF IsForm, FieldsTyped
  <2>2. CASE form.edit # NoTunnel
    BY <1>2, <1>5, <2>2 DEF NameField, FormTyped
  <2> QED  BY <2>1, <2>2
<1>6. ASSUME NEW f, IsForm(f), f.type = form.type, f.step = form.step, f.edit = form.edit,
             f.name \in Names, FieldsTyped(f), NEW show \in BOOLEAN, f.type = "gre" => ~show,
             Typed(RouterEndpointCards(f, show))
      PROVE  FormTyped(form')
  <2> DEFINE A == IF Blank(f) THEN {FALSE} ELSE BOOLEAN
             B == IF show THEN Transits \cup {NoTransit} ELSE {f.transit}
  <2>1. form' \in RouterEndpointCards(f, show)
    BY <1>6 DEF Typed
  <2>2. RouterEndpointCards(f, show) = {UpdateEndpoint(f, a, b) : a \in A, b \in B}
    BY SMT DEF RouterEndpointCards, A, B
  <2> HIDE DEF A
  <2>3. PICK a, x : form' = UpdateEndpoint(f, a, x) /\ x \in B
    <3> HIDE DEF B
    <3> QED  BY <2>1, <2>2
  <2>4. x \in Transits \cup {NoTransit} /\ (f.type = "gre" => x = f.transit)
    BY <1>6, <2>3 DEF FieldsTyped
  <2>5. /\ form'.type = f.type /\ form'.step = f.step /\ form'.edit = f.edit
        /\ form'.name = f.name /\ FieldsTyped(form')
    BY <1>6, <2>3, <2>4 DEF UpdateEndpoint, IsForm, FieldsTyped
  <2> QED  BY <1>3, <1>6, <2>5
<1>7. CASE GREFields
  BY <1>1, <1>4, <1>5, <1>6, <1>7 DEF GREFields
<1>8. CASE IPsecConnectionStep
  <2>1. PICK f \in NameField(form), mode \in {"route", "policy"} :
          Typed(RouterEndpointCards([f EXCEPT !.mode = mode], mode = "route"))
    BY <1>8 DEF IPsecConnectionStep
  <2> DEFINE g == [f EXCEPT !.mode = mode]
  <2>2. f.type = "ipsec"
    BY <1>5, <1>8 DEF IPsecConnectionStep
  <2>3. /\ IsForm(g) /\ g.type = form.type /\ g.step = form.step /\ g.edit = form.edit
        /\ g.name \in Names /\ FieldsTyped(g) /\ g.type # "gre"
    BY <1>5, <2>2 DEF IsForm, FieldsTyped
  <2> HIDE DEF g
  <2>4. (mode = "route") \in BOOLEAN
    OBVIOUS
  <2> QED  BY <1>1, <1>6, <2>1, <2>3, <2>4 DEF g
<1>9. CASE IPsecPhase1Step \/ IPsecPhase2Step
  BY <1>1, <1>4, <1>9 DEF IPsecPhase1Step, IPsecPhase2Step
<1>10. CASE IPsecNetworksStep
  <2>1. form.type = "ipsec"
    BY <1>1, <1>10 DEF IPsecNetworksStep, FormInv, FormOK, Types
  <2>2. ASSUME NEW l, NEW field \in {"routes", "locals", "remotes"},
               form' = [form EXCEPT ![field] = l],
               field = "routes" => l \in RouteList,
               field # "routes" => l \in SubnetList
        PROVE  FormTyped(form')
    <3>1. FieldsTyped(form')
      BY <1>2, <2>1, <2>2 DEF FieldsTyped, IsForm
    <3>2. /\ form'.type = form.type /\ form'.step = form.step /\ form'.edit = form.edit
          /\ form'.ready = form.ready /\ form'.name = form.name
      BY <1>2, <2>2 DEF IsForm
    <3> QED  BY <1>2, <1>3, <3>1, <3>2 DEF FormTyped
  <2>3. \/ \E l \in RouteEdits : form' = [form EXCEPT !.routes = l]
        \/ \E l \in EditSubnets(form.locals) : form' = [form EXCEPT !.locals = l]
        \/ \E l \in EditSubnets(form.remotes) : form' = [form EXCEPT !.remotes = l]
    BY <1>10 DEF IPsecNetworksStep, Typed
  <2>4. ASSUME NEW l \in RouteEdits PROVE l \in RouteList
    <3>1. form.routes \in [Nets -> Nat]
      BY <1>2 DEF FieldsTyped, RouteList
    <3>2. \/ \E n \in Nets : l = [form.routes EXCEPT ![n] = @ + 1]
          \/ \E n \in Nets : form.routes[n] > 0 /\ l = [form.routes EXCEPT ![n] = @ - 1]
      BY DEF RouteEdits
    <3> QED  BY <3>1, <3>2 DEF RouteList
  <2>5. \A l \in EditSubnets(form.locals) \cup EditSubnets(form.remotes) : l \in SubnetList
    BY <1>2, EditedList DEF FieldsTyped
  <2> QED  BY <1>1, <2>2, <2>3, <2>4, <2>5
<1> QED  BY <1>1, <1>7, <1>8, <1>9, <1>10

\* The buttons that move between the steps.
LEMMA StepsTyped ==
    ASSUME FormInv, form.open => FormTyped(form), HandleNext \/ HandleBack
    PROVE  FormTyped(form') /\ form.open
<1>1. form.open /\ IsForm(form) /\ FormTyped(form) /\ form.step \in Nat
  BY DEF HandleNext, HandleBack, FormInv, FormOK
<1>2. \E d : form' = [form EXCEPT !.step = d] /\ d \in 0..(IF form.type = "gre" THEN 0 ELSE 3)
  <2>1. form.step \in 0..(IF form.type = "gre" THEN 0 ELSE 3)
    BY <1>1 DEF FormTyped
  <2>2. CASE HandleNext
    BY <2>1, <2>2 DEF HandleNext, LastStep
  <2>3. CASE HandleBack
    BY <2>1, <2>3 DEF HandleBack
  <2> QED  BY <2>2, <2>3
<1>3. PICK d : form' = [form EXCEPT !.step = d] /\ d \in 0..(IF form.type = "gre" THEN 0 ELSE 3)
  BY <1>2
<1>4. /\ Payload(form') = Payload(form) /\ form'.step = d /\ form'.type = form.type
      /\ form'.edit = form.edit /\ form'.ready = form.ready /\ form'.name = form.name
  BY <1>1, <1>3 DEF IsForm, Payload
<1> QED  BY <1>1, <1>3, <1>4 DEF FormTyped

\* A form that starts or ends saving.
LEMMA SavingTyped ==
    ASSUME IsForm(form), FormTyped(form), NEW saving, form' = [form EXCEPT !.saving = saving]
    PROVE  FormTyped(form')
<1>1. /\ Payload(form') = Payload(form) /\ form'.step = form.step /\ form'.type = form.type
      /\ form'.edit = form.edit /\ form'.ready = form.ready /\ form'.name = form.name
  BY DEF IsForm, Payload
<1> QED  BY <1>1 DEF FormTyped

\* What the page and the other administrator send are payloads with a name.
LEMMA SentTyped ==
    ASSUME TypesInv, BaseInv', Submit \/ ConfirmDelete \/ OtherRequest
    PROVE  ServiceTyped' /\ Len(requests') = Len(requests) + 1
<1>1. BaseInv /\ FormInv /\ ServiceTyped /\ PageTyped
  BY DEF TypesInv, ShownInv, BaseInv
<1>2. CASE Submit
  <2> DEFINE op == IF form.edit = NoTunnel THEN "create" ELSE "update"
  <2>1. Arrive(op, form.name, Payload(form), "page") /\ conf' = conf
    BY <1>2 DEF Submit
  <2>2. FormTyped(form)
    BY <1>1, <1>2 DEF Submit, PageTyped, OverlaysOK
  <2>3. form.ready
    BY <1>1, <1>2 DEF Submit, LastStep, ValidStep, ValidConnection, FormInv, FormOK
  <2>4. form.name \in Names /\ Payload(form) \in Payloads
    BY <2>2, <2>3 DEF FormTyped
  <2>5. op \in {"create", "update", "delete"}
    OBVIOUS
  <2> HIDE DEF op
  <2> QED  BY <1>1, <2>1, <2>4, <2>5, ArriveTyped
<1>3. CASE ConfirmDelete
  <2> DEFINE b == DeleteBody(target.type)
  <2>1. Arrive("delete", target.name, b, "page") /\ conf' = conf /\ target # NoTunnel
    BY <1>3 DEF ConfirmDelete
  <2>2. target.name \in Names /\ target.type \in Types
    BY <1>1, <2>1 DEF PageTyped, OverlaysOK
  <2>3. b \in Body
    <3>1. NoTransit \in Transits \cup {NoTransit} /\ {} \in SUBSET Routers
      OBVIOUS
    <3> QED  BY <2>2, <3>1, DefaultFields DEF DeleteBody, Body
  <2>4. /\ b.type = target.type /\ b.mode = "route" /\ b.transit = NoTransit
        /\ b.routes = NoRoutes /\ b.locals = <<>> /\ b.remotes = <<>>
    BY DEF DeleteBody
  <2> HIDE DEF b
  <2>5. b \in Payloads
    BY <2>2, <2>3, <2>4 DEF Payloads, CreateGRETunnelPayload, CreateIPsecTunnelPayload, Types
  <2> QED  BY <1>1, <2>1, <2>2, <2>5, ArriveTyped
<1>4. CASE OtherRequest
  <2>1. PICK op \in {"create", "update", "delete"}, name \in Names, b \in OtherBodies :
          Arrive(op, name, b, "other")
    BY <1>4 DEF OtherRequest
  <2>2. b \in Payloads /\ conf' = conf
    BY <1>4, BodiesAssumption DEF OtherRequest, Payloads
  <2> QED  BY <1>1, <2>1, <2>2, ArriveTyped
<1> QED  BY <1>2, <1>3, <1>4

\* Every step of the service and of those who ask it.
LEMMA NextServiceTyped ==
    ASSUME TypesInv, [Next]_vars, BaseInv'
    PROVE  ServiceTyped' /\ Len(requests') \in {Len(requests), Len(requests) + 1}
<1>1. BaseInv /\ FormInv /\ ServiceTyped
  BY DEF TypesInv, ShownInv, BaseInv
<1>2. ASSUME UNCHANGED <<conf, requests>>
      PROVE  ServiceTyped' /\ Len(requests') = Len(requests)
  BY <1>1, <1>2 DEF ServiceTyped
<1>3. ASSUME NEW i \in DOMAIN requests, ServeStep(i) \/ Answer(i)
      PROVE  ServiceTyped' /\ Len(requests') = Len(requests)
  <2>1. DOMAIN requests' = DOMAIN requests
    BY <1>1, <1>3, ServeOne, AnswerDoes DEF Served
  <2> QED  BY <1>1, <1>3, <2>1, ServeTyped, TakenTyped, SameCount
<1>4. ASSUME Sends PROVE ServiceTyped' /\ Len(requests') = Len(requests) + 1
  BY <1>4, SentTyped DEF Sends
<1> QED  BY <1>1, <1>2, <1>3, <1>4, StepCases DEF Turns

-----------------------------------------------------------------------------
(* Types: the page.                                                        *)

\* What the page knows of a tunnel by its name, and what its rows show.
LEMMA ShownTyped ==
    ASSUME ListsTyped
    PROVE  /\ \A name : MergedByName(name) \in {NoTunnel} \cup Tunnels
           /\ \A t \in Rows : t.name \in Names /\ t.type \in Types
<1>1. ASSUME NEW type \in Types, NEW t \in list[type] \ Unloaded
      PROVE  t \in Tunnels /\ t.name \in Names /\ t.type \in Types
  <2>1. t \in MergedOf(type)
    BY <1>1 DEF ListsTyped
  <2> QED  BY <2>1 DEF MergedOf, Tunnels, MergedGRETunnel, MergedIPsecTunnel, Types
<1>2. ASSUME NEW name PROVE MergedByName(name) \in {NoTunnel} \cup Tunnels
  <2> DEFINE named(type) == {t \in list[type] \ Unloaded : t.name = name}
  <2>1. ASSUME NEW type \in Types, named(type) # {}
        PROVE  (CHOOSE t \in named(type) : TRUE) \in Tunnels
    <3>1. (CHOOSE t \in named(type) : TRUE) \in named(type)
      BY <2>1
    <3>2. \A t \in named(type) : t \in Tunnels
      BY <1>1
    <3> QED  BY <3>1, <3>2
  <2> QED  BY <2>1 DEF MergedByName, Types
<1>3. ASSUME NEW t \in Rows PROVE t.name \in Names /\ t.type \in Types
  <2>1. \E type \in Types : \E u \in list[type] \ Unloaded :
          t = DisplayTunnel(u, u.settings) \/ t = DisplayTunnel(u, u.mode)
    BY <1>3 DEF Rows, MergedGREToDisplay, MergedIPsecToDisplay, Types
  <2>2. PICK type \in Types : \E u \in list[type] \ Unloaded :
          t = DisplayTunnel(u, u.settings) \/ t = DisplayTunnel(u, u.mode)
    BY <2>1
  <2>3. PICK u \in list[type] \ Unloaded :
          t = DisplayTunnel(u, u.settings) \/ t = DisplayTunnel(u, u.mode)
    BY <2>2
  <2>4. t.name = u.name /\ t.type = u.type
    BY <2>3 DEF DisplayTunnel
  <2> QED  BY <1>1, <2>4
<1> QED  BY <1>2, <1>3

\* A step that leaves one of form and dialog open at most.
LEMMA OverlaysSuffice ==
    ASSUME form'.open => FormTyped(form') /\ target' = NoTunnel /\ details' = NoTunnel,
           target' # NoTunnel => details' = NoTunnel,
           \A t \in {details', target'} : t # NoTunnel => t.name \in Names /\ t.type \in Types
    PROVE  OverlaysOK'
<1>1. NoTunnel' = NoTunnel
  BY DEF NoTunnel
<1> QED  BY <1>1 DEF OverlaysOK, FormTyped

\* What opens and closes over the list.
LEMMA OverlayStepTyped ==
    ASSUME TypesInv,
           \/ AddTunnelButton \/ TableRow \/ DetailsDrawer \/ CancelDelete \/ ConfirmDelete
    PROVE  OverlaysOK'
<1>1. /\ form.open => FormTyped(form) /\ target = NoTunnel /\ details = NoTunnel
      /\ target # NoTunnel => details = NoTunnel
      /\ \A t \in {details, target} : t # NoTunnel => t.name \in Names /\ t.type \in Types
  BY DEF TypesInv, PageTyped, OverlaysOK
<1>2. ClusterRouters \in SUBSET Routers
  BY DEF ClusterRouters
<1>3. /\ \A name : MergedByName(name) \in {NoTunnel} \cup Tunnels
      /\ \A t \in Rows : t.name \in Names /\ t.type \in Types
  BY ShownTyped DEF TypesInv, PageTyped
<1>4. ASSUME NEW t, t.name \in Names, t.type \in Types, Edit(t), target = NoTunnel
      PROVE  OverlaysOK'
  <2>1. FormTyped(form')
    BY <1>2, <1>3, <1>4, InitialTyped DEF Edit
  <2> QED  BY <1>4, <2>1, OverlaysSuffice DEF Edit
<1>5. ASSUME NEW t, t.name \in Names, t.type \in Types, AskDelete(t), ~form.open
      PROVE  OverlaysOK'
  BY <1>5, OverlaysSuffice DEF AskDelete
<1>6. ASSUME NEW t, t # NoTunnel => t.name \in Names /\ t.type \in Types, ShowDetails(t),
             ~form.open, target = NoTunnel
      PROVE  OverlaysOK'
  BY <1>6, OverlaysSuffice DEF ShowDetails
<1>7. CASE AddTunnelButton
  <2>1. PICK type \in Types : Add(type)
    BY <1>7 DEF AddTunnelButton
  <2>2. FormTyped(form')
    BY <1>2, <2>1, InitialTyped DEF Add
  <2>3. target = NoTunnel /\ details = NoTunnel
    BY <1>7 DEF AddTunnelButton, Buttons, Uncovered
  <2> QED  BY <2>1, <2>2, <2>3, OverlaysSuffice DEF Add
<1>8. CASE TableRow
  <2>1. PICK t \in Rows : Edit(t) \/ AskDelete(t) \/ ShowDetails(t)
    BY <1>8 DEF TableRow
  <2>2. ~form.open /\ target = NoTunnel
    BY <1>8 DEF TableRow, Buttons, Uncovered
  <2> QED  BY <1>3, <1>4, <1>5, <1>6, <2>1, <2>2
<1>9. CASE DetailsDrawer
  <2>1. /\ ~form.open /\ target = NoTunnel /\ details # NoTunnel
        /\ Edit(details) \/ AskDelete(details) \/ ShowDetails(NoTunnel)
    BY <1>9 DEF DetailsDrawer, Uncovered
  <2>2. details.name \in Names /\ details.type \in Types
    BY <1>1, <2>1
  <2> QED  BY <1>4, <1>5, <1>6, <2>1, <2>2
<1>10. CASE CancelDelete \/ ConfirmDelete
  <2>1. target' = NoTunnel /\ form' = form /\ details' = details
    BY <1>10 DEF CancelDelete, ConfirmDelete
  <2> QED  BY <1>1, <2>1, OverlaysSuffice
<1> QED  BY <1>7, <1>8, <1>9, <1>10

\* The form and its buttons.
LEMMA FormStepTyped ==
    ASSUME TypesInv, TunnelForm
    PROVE  OverlaysOK'
<1>1. details' = details /\ target' = target
  BY DEF TunnelForm, GREFields, IPsecConnectionStep, IPsecPhase1Step, IPsecPhase2Step,
         IPsecNetworksStep, Typed, HandleNext, HandleBack, Close, Submit
<1>2. /\ form.open => FormTyped(form) /\ target = NoTunnel /\ details = NoTunnel
      /\ target # NoTunnel => details = NoTunnel
      /\ \A t \in {details, target} : t # NoTunnel => t.name \in Names /\ t.type \in Types
  BY DEF TypesInv, PageTyped, OverlaysOK
<1>3. FormInv
  BY DEF TypesInv, ShownInv, BaseInv
<1>4. ASSUME FormTyped(form'), form.open PROVE OverlaysOK'
  BY <1>1, <1>2, <1>4, OverlaysSuffice
<1>5. CASE GREFields \/ IPsecConnectionStep \/ IPsecPhase1Step \/ IPsecPhase2Step \/ IPsecNetworksStep
  BY <1>2, <1>3, <1>4, <1>5, TypingTyped
<1>6. CASE HandleNext \/ HandleBack
  BY <1>2, <1>3, <1>4, <1>6, StepsTyped
<1>7. CASE Close
  <2>1. ~form'.open
    BY <1>7 DEF Close, ClosedForm
  <2> QED  BY <1>1, <1>2, <2>1, OverlaysSuffice
<1>8. CASE Submit
  <2>1. form.open /\ form' = [form EXCEPT !.saving = TRUE]
    BY <1>8 DEF Submit
  <2>2. IsForm(form)
    BY <1>3, <2>1 DEF FormInv, FormOK
  <2>3. FormTyped(form')
    BY <1>2, <2>1, <2>2, SavingTyped
  <2> QED  BY <1>4, <2>1, <2>3
<1> QED  BY <1>5, <1>6, <1>7, <1>8 DEF TunnelForm

\* An answer, the cluster and its routers change what is open over the page.
LEMMA TurnTyped ==
    ASSUME TypesInv,
           \/ \E i \in 1..Len(requests) : Answer(i)
           \/ ClusterLoads
           \/ LeaveCluster
    PROVE  OverlaysOK'
<1>1. /\ form.open => FormTyped(form) /\ target = NoTunnel /\ details = NoTunnel
      /\ target # NoTunnel => details = NoTunnel
      /\ \A t \in {details, target} : t # NoTunnel => t.name \in Names /\ t.type \in Types
  BY DEF TypesInv, PageTyped, OverlaysOK
<1>2. form.open => IsForm(form) /\ form.type \in Types
  BY DEF TypesInv, ShownInv, BaseInv, FormInv, FormOK
<1>3. ~ClosedForm.open
  BY DEF ClosedForm
<1>4. CASE \E i \in 1..Len(requests) : Answer(i)
  <2>1. /\ details' = details
        /\ target' = target \/ target' = NoTunnel
        /\ \/ form' = form
           \/ form' = ClosedForm
           \/ form.open /\ form' = [form EXCEPT !.saving = FALSE]
    BY <1>4 DEF Answer, AnswerDelete, AnswerForm
  <2>2. form'.open => form.open /\ FormTyped(form')
    BY <1>1, <1>2, <1>3, <2>1, SavingTyped
  <2> QED  BY <1>1, <2>1, <2>2, OverlaysSuffice
<1>5. CASE ClusterLoads
  <2>1. form'.open => form.open /\ FormTyped(form')
    <3>1. CASE form.open
      <4>1. form.type \in Types /\ form.edit \in {NoTunnel} \cup Tunnels
        BY <1>1, <1>2, <3>1 DEF FormTyped, Tunnels
      <4>2. FormTyped(InitialForm(form.type, form.edit, Routers))
        BY <4>1, InitialTyped
      <4> QED  BY <1>5, <3>1, <4>2 DEF ClusterLoads
    <3>2. CASE ~form.open
      BY <1>5, <3>2 DEF ClusterLoads
    <3> QED  BY <3>1, <3>2
  <2>2. details' = details /\ target' = target
    BY <1>5 DEF ClusterLoads
  <2> QED  BY <1>1, <2>1, <2>2, OverlaysSuffice
<1>6. CASE LeaveCluster
  BY <1>3, <1>6, OverlaysSuffice DEF LeaveCluster
<1> QED  BY <1>4, <1>5, <1>6

\* Every step of the page, and those it does not take part in.
LEMMA NextOverlaysTyped ==
    ASSUME TypesInv, [Next]_vars
    PROVE  OverlaysOK'
<1>1. ASSUME UNCHANGED overlays PROVE OverlaysOK'
  BY <1>1, OverlaysSuffice DEF overlays, TypesInv, PageTyped, OverlaysOK
<1>2. CASE OtherRequest \/ Serve \/ Fetch \/ ReturnToCluster \/ UNCHANGED vars
  BY <1>1, <1>2 DEF OtherRequest, Serve, Fetch, FetchRouter, ListArrives, ReturnToCluster,
                    vars, overlays
<1> QED
  BY <1>2, OverlayStepTyped, FormStepTyped, TurnTyped DEF Next, User

\* The flags.
LEMMA NextFlagsTyped ==
    ASSUME cluster \in BOOLEAN, here \in BOOLEAN, [Next]_vars
    PROVE  cluster' \in BOOLEAN /\ here' \in BOOLEAN
<1> DEFINE Goal == cluster' \in BOOLEAN /\ here' \in BOOLEAN
<1>1. ASSUME cluster' = cluster \/ cluster' = TRUE,
             here' = here \/ here' = TRUE \/ here' = FALSE
      PROVE  Goal
  BY <1>1, Zenon
<1> HIDE DEF Goal
<1>2. ASSUME UNCHANGED vars PROVE Goal
  BY <1>1, <1>2 DEF vars
<1>3. ASSUME Fetch \/ ClusterLoads PROVE Goal
  BY <1>1, <1>3 DEF Fetch, FetchRouter, ListArrives, ClusterLoads
<1>4. ASSUME OtherRequest \/ Serve \/ \E i \in 1..Len(requests) : Answer(i) PROVE Goal
  BY <1>1, <1>4 DEF OtherRequest, Serve, Answer, queryVars
<1>5. ASSUME AddTunnelButton \/ TableRow \/ DetailsDrawer \/ ConfirmDelete \/ CancelDelete
      PROVE  Goal
  BY <1>1, <1>5 DEF AddTunnelButton, TableRow, DetailsDrawer, ConfirmDelete, CancelDelete,
                    Add, Edit, AskDelete, ShowDetails, queryVars
<1>6. ASSUME \/ GREFields \/ IPsecConnectionStep \/ IPsecPhase1Step \/ IPsecPhase2Step
             \/ IPsecNetworksStep \/ HandleNext \/ HandleBack \/ Close \/ Submit
      PROVE  Goal
  BY <1>1, <1>6 DEF GREFields, IPsecConnectionStep, IPsecPhase1Step, IPsecPhase2Step,
                    IPsecNetworksStep, Typed, HandleNext, HandleBack, Close, Submit, queryVars
<1>7. ASSUME LeaveCluster \/ ReturnToCluster PROVE Goal
  BY <1>1, <1>7 DEF LeaveCluster, ReturnToCluster
<1>8. Goal
  BY <1>2, <1>3, <1>4, <1>5, <1>6, <1>7 DEF Next, User, TunnelForm
<1> QED  BY <1>8 DEF Goal

-----------------------------------------------------------------------------
(* Types: the lists.                                                       *)

\* What was read stays typed while requests arrive.
LEMMA ReadStaysTyped ==
    ASSUME TypesInv, Len(requests') \in {Len(requests), Len(requests) + 1},
           NEW type \in Types, NEW r \in DOMAIN reading[type]
    PROVE  ReadTyped(reading[type][r], type, Len(requests'))
<1> DEFINE n == Len(requests)
           m == Len(requests')
<1>1. n \in Nat
  BY RequestCount DEF TypesInv, ShownInv
<1>2. m \in Nat /\ n <= m
  <2> HIDE DEF n, m
  <2>1. m \in {n, n + 1}
    BY DEF n, m
  <2> QED  BY <1>1, <2>1
<1>3. ReadTyped(reading[type][r], type, n)
  BY DEF TypesInv, PageTyped, ReadingTyped
<1> HIDE DEF n, m
<1>4. ReadTyped(reading[type][r], type, m)
  BY <1>1, <1>2, <1>3, MoreGenerations DEF ReadTyped
<1> QED  BY <1>4 DEF m

\* A router answers, or the last one has.
LEMMA FetchTyped ==
    ASSUME TypesInv, Fetch
    PROVE  ListsTyped' /\ ReadingTyped' /\ doubt' \subseteq Types
<1>1. /\ BaseInv /\ ServiceTyped /\ ListsTyped /\ ReadingTyped /\ doubt \subseteq Types
      /\ DOMAIN reading = Types /\ DOMAIN list = Types
  BY DEF TypesInv, ShownInv, PageTyped, FlagsTyped, PageSorted
<1>2. requests' = requests
  BY DEF Fetch, FetchRouter, ListArrives
<1>3. ASSUME NEW sort \in Types, NEW r \in Routers, FetchRouter(sort, r)
      PROVE  ListsTyped' /\ ReadingTyped' /\ doubt' \subseteq Types
  <2>1. PICK objects \in Answers(r, sort) :
          reading' = [reading EXCEPT ![sort] =
                        [s \in DOMAIN @ \cup {r} |->
                           IF s = r THEN OfType(objects, sort) ELSE reading[sort][s]]]
    BY <1>3 DEF FetchRouter
  <2>2. list' = list /\ doubt' \subseteq doubt \cup {sort}
    BY <1>3 DEF FetchRouter
  <2>3. ReadTyped(OfType(objects, sort), sort, Len(requests))
    <3>1. ObjectsTyped(objects, Len(requests))
      BY <1>1, AnswerTyped
    <3>2. ObjectsTyped(OfType(objects, sort), Len(requests))
      BY <3>1, UnionTyped DEF OfType
    <3> QED  BY <3>2 DEF ReadTyped, OfType
  <2>4. ASSUME NEW type \in Types, NEW s \in DOMAIN reading'[type]
        PROVE  ReadTyped(reading'[type][s], type, Len(requests))
    <3>1. CASE type = sort
      <4>1. /\ DOMAIN reading'[sort] = DOMAIN reading[sort] \cup {r}
            /\ \A k \in DOMAIN reading[sort] \cup {r} : reading'[sort][k] =
                 IF k = r THEN OfType(objects, sort) ELSE reading[sort][k]
        BY <1>1, <2>1
      <4>2. s \in DOMAIN reading[sort] \cup {r}
        BY <2>4, <3>1, <4>1
      <4>3. CASE s = r
        BY <2>3, <3>1, <4>1, <4>3
      <4>4. CASE s # r
        <5>1. s \in DOMAIN reading[sort] /\ reading'[sort][s] = reading[sort][s]
          BY <4>1, <4>2, <4>4
        <5> QED  BY <1>1, <3>1, <5>1 DEF ReadingTyped
      <4> QED  BY <4>3, <4>4
    <3>2. CASE type # sort
      <4>1. reading'[type] = reading[type]
        BY <1>1, <2>1, <3>2
      <4> QED  BY <1>1, <2>4, <4>1 DEF ReadingTyped
    <3> QED  BY <3>1, <3>2
  <2>5. ListsTyped'
    BY <1>1, <2>2 DEF ListsTyped, Unloaded, NoTunnel
  <2> QED  BY <1>1, <1>2, <2>2, <2>4, <2>5 DEF ReadingTyped
<1>4. ASSUME NEW sort \in Types, ListArrives(sort)
      PROVE  ListsTyped' /\ ReadingTyped' /\ doubt' \subseteq Types
  <2>1. /\ list' = [list EXCEPT ![sort] = Listed(reading[sort], sort)]
        /\ reading' = [reading EXCEPT ![sort] = NoAnswers]
        /\ DOMAIN reading[sort] = Routers /\ doubt' = doubt
    BY <1>4 DEF ListArrives
  <2>2. Listed(reading[sort], sort) \subseteq MergedOf(sort)
    <3>1. \A r \in Routers : ReadTyped(reading[sort][r], sort, Len(requests))
      BY <1>1, <2>1 DEF ReadingTyped
    <3> QED  BY <3>1, MergedTyped DEF Listed
  <2>3. ListsTyped'
    <3>1. \A type \in Types : list'[type] = IF type = sort THEN Listed(reading[sort], sort)
                                                           ELSE list[type]
      BY <1>1, <2>1
    <3> QED  BY <1>1, <2>2, <3>1 DEF ListsTyped, Unloaded, NoTunnel
  <2>4. \A type \in Types : reading'[type] = IF type = sort THEN NoAnswers ELSE reading[type]
    BY <1>1, <2>1
  <2>5. ReadingTyped'
    BY <1>1, <1>2, <2>4 DEF ReadingTyped, NoAnswers
  <2> QED  BY <1>1, <2>1, <2>3, <2>5
<1> QED  BY <1>3, <1>4 DEF Fetch

\* An answer starts the fetch of a list anew, or leaves it.
LEMMA AnswerListsTyped ==
    ASSUME TypesInv, NEW i \in DOMAIN requests, Answer(i),
           Len(requests') \in {Len(requests), Len(requests) + 1}
    PROVE  ListsTyped' /\ ReadingTyped' /\ doubt' \subseteq Types
<1> DEFINE sort == requests[i].body.type
<1>1. /\ ListsTyped /\ doubt \subseteq Types /\ DOMAIN reading = Types /\ sort \in Types
  BY DEF TypesInv, ShownInv, PageTyped, FlagsTyped, RequestSorted
<1>2. Invalidate(requests[i]) /\ list' = list
  BY DEF Answer
<1> HIDE DEF sort
<1>3. /\ doubt' \subseteq doubt \cup {sort}
      /\ reading' = reading \/ reading' = [reading EXCEPT ![sort] = NoAnswers]
  BY <1>2 DEF Invalidate, sort
<1>4. \A type \in Types : reading'[type] \in {reading[type], NoAnswers}
  BY <1>1, <1>3
<1>5. ASSUME NEW type \in Types, NEW r \in DOMAIN reading'[type]
      PROVE  ReadTyped(reading'[type][r], type, Len(requests'))
  <2>1. reading'[type] = reading[type]
    BY <1>4, <1>5 DEF NoAnswers
  <2> QED  BY <1>5, <2>1, ReadStaysTyped
<1>6. ListsTyped'
  BY <1>1, <1>2 DEF ListsTyped, Unloaded, NoTunnel
<1> QED  BY <1>1, <1>3, <1>5, <1>6 DEF ReadingTyped

\* Every step leaves the lists and what is read of them typed.
LEMMA NextListsTyped ==
    ASSUME TypesInv, [Next]_vars, Len(requests') \in {Len(requests), Len(requests) + 1}
    PROVE  ListsTyped' /\ ReadingTyped' /\ doubt' \subseteq Types
<1>1. ListsTyped /\ doubt \subseteq Types /\ BaseInv /\ FormInv
  BY DEF TypesInv, ShownInv, BaseInv, PageTyped, FlagsTyped
<1>2. ASSUME list' = list, reading' = reading, doubt' \subseteq doubt
      PROVE  ListsTyped' /\ ReadingTyped' /\ doubt' \subseteq Types
  <2>1. ListsTyped'
    BY <1>1, <1>2 DEF ListsTyped, Unloaded, NoTunnel
  <2>2. ReadingTyped'
    BY <1>2, ReadStaysTyped DEF ReadingTyped
  <2> QED  BY <1>1, <1>2, <2>1, <2>2
<1>3. ASSUME ListsKept \/ LeaveCluster \/ ReturnToCluster
      PROVE  list' = list /\ reading' = reading /\ doubt' \subseteq doubt
  BY <1>3 DEF ListsKept, LeaveCluster, ReturnToCluster
<1> QED  BY <1>1, <1>2, <1>3, FetchTyped, AnswerListsTyped, StepCases DEF Turns

-----------------------------------------------------------------------------
(* Types: the whole.                                                       *)

\* Every step.
LEMMA NextTyped ==
    ASSUME TypesInv, [Next]_vars
    PROVE  TypesInv'
<1>1. ShownInv' /\ BaseInv'
  BY NextKeepsShown DEF TypesInv, ShownInv
<1>2. ServiceTyped' /\ Len(requests') \in {Len(requests), Len(requests) + 1}
  BY <1>1, NextServiceTyped
<1>3. ListsTyped' /\ ReadingTyped' /\ doubt' \subseteq Types
  BY <1>2, NextListsTyped
<1>4. cluster' \in BOOLEAN /\ here' \in BOOLEAN
  BY NextFlagsTyped DEF TypesInv, PageTyped, FlagsTyped
<1>5. OverlaysOK'
  BY NextOverlaysTyped
<1> QED  BY <1>1, <1>2, <1>3, <1>4, <1>5 DEF TypesInv, PageTyped, FlagsTyped

\* The flags of the page at the start.
LEMMA InitFlags == Init => cluster \in BOOLEAN /\ here \in BOOLEAN
<1> SUFFICES ASSUME Init PROVE cluster \in BOOLEAN /\ here \in BOOLEAN
  OBVIOUS
<1>1. cluster = FALSE /\ here = TRUE
  BY DEF Init
<1>2. cluster \in BOOLEAN
  BY <1>1, Zenon
<1>3. here \in BOOLEAN
  BY <1>1, Zenon
<1> QED  BY <1>2, <1>3

\* At the start.
LEMMA InitTyped == Init => TypesInv
<1> SUFFICES ASSUME Init PROVE TypesInv
  OBVIOUS
<1>1. ShownInv
  BY InitShown
<1>2. PICK before \in {{}} \cup {CreateOps(b, name, 0).add : b \in Existing, name \in Names} :
        conf = [r \in Routers |-> before]
  BY DEF Init
<1>3. requests = <<>> /\ Len(requests) = 0
  BY DEF Init
<1>4. ObjectsTyped(before, 0)
  <2>1. ASSUME NEW b \in Existing, NEW name \in Names
        PROVE  ObjectsTyped(CreateOps(b, name, 0).add, 0)
    <3>1. b \in Body
      BY BodiesAssumption, PayloadIsBody DEF Payloads
    <3>2. 0 \in Nat /\ 0 \in 0..0
      OBVIOUS
    <3> QED  BY <3>1, <3>2, CreateTyped DEF GroupTyped
  <2> QED  BY <1>2, <2>1, NothingIsTyped
<1>5. ServiceTyped
  BY <1>2, <1>3, <1>4 DEF ServiceTyped
<1>6. OverlaysOK
  BY DEF Init, OverlaysOK, ClosedForm
<1>7. ListsTyped /\ ReadingTyped /\ doubt \subseteq Types
  BY DEF Init, ListsTyped, ReadingTyped, NoAnswers
<1>8. cluster \in BOOLEAN /\ here \in BOOLEAN
  BY InitFlags
<1> QED  BY <1>1, <1>5, <1>6, <1>7, <1>8 DEF TypesInv, PageTyped, FlagsTyped

\* What the invariant says of the types.
LEMMA TypesSuffice == TypesInv => TypeOK
<1> SUFFICES ASSUME TypesInv PROVE TypeOK
  OBVIOUS
<1>1. DOMAIN requests = 1..Len(requests)
  BY RequestCount DEF TypesInv, ShownInv
<1>2. ASSUME NEW r \in Routers, NEW o \in conf[r]
      PROVE  o.path \in Paths /\ o.name \in Names /\ o.gen \in 0..Len(requests)
  BY DEF TypesInv, ServiceTyped, ObjectsTyped, ObjectTyped
<1>3. \A i \in 1..Len(requests) : RequestTyped(requests[i], Len(requests))
  BY <1>1 DEF TypesInv, ServiceTyped
<1>4. form.open => form.step \in 0..LastStep
  BY DEF TypesInv, PageTyped, OverlaysOK, FormTyped, LastStep
<1>5. {cluster, here} \subseteq BOOLEAN /\ doubt \subseteq Types
  BY DEF TypesInv, PageTyped, FlagsTyped
<1>6. /\ list["gre"] = Unloaded \/ list["gre"] \subseteq MergedGRETunnel
      /\ list["ipsec"] = Unloaded \/ list["ipsec"] \subseteq MergedIPsecTunnel
  BY DEF TypesInv, PageTyped, ListsTyped, MergedOf, Types
<1>7. fetching \subseteq Types /\ \A type \in Types : DOMAIN reading[type] \subseteq Routers
  BY DEF TypesInv, ShownInv, FetchOK
<1>8. /\ \A t \in {details, target} : t # NoTunnel => t.name \in Names /\ t.type \in Types
      /\ form.open => target = NoTunnel /\ details = NoTunnel
      /\ target # NoTunnel => details = NoTunnel
  BY DEF TypesInv, PageTyped, OverlaysOK
<1> QED
  BY <1>2, <1>3, <1>4, <1>5, <1>6, <1>7, <1>8 DEF TypeOK, RequestTyped, Payloads

\* Lists, forms, requests and objects have the types of api/types.ts, for any
\* tunnels and requests, and form, details and delete dialog exclude each
\* other.
THEOREM TunnelsKeepTypes == Spec => []TypeOK
<1>1. TypesInv /\ [Next]_vars => TypesInv'
  BY NextTyped
<1> QED  BY <1>1, InitTyped, TypesSuffice, PTL DEF Spec

=============================================================================
