-------------------------- MODULE AddressListsPage --------------------------
(***************************************************************************)
(* The address lists page of the browser (features/address-lists): the     *)
(* lists of entries, the selection of entries to delete, and the drawer    *)
(* that adds entries, typed or imported, to a list or to a new one. One    *)
(* submission adds its entries one request after another and goes on when  *)
(* its drawer was closed; one delete sends all its requests at once.       *)
(* Comments of new entries are left out.                                   *)
(***************************************************************************)
EXTENDS ContentPage

CONSTANTS
    Lists,        \* the names lists have and may be given
    PrefixSet,
    BadPrefix,    \* a text that is no prefix
    Imports       \* what CSV texts say: sequences of prefixes and BadPrefix

VARIABLES
    collapsed,    \* the lists that are folded
    initialized,  \* they were all folded once
    selected,     \* the selected entries of each list
    entryForm,    \* the drawer
    batches       \* submissions and deletes under way

listsVars == <<collapsed, initialized, selected, entryForm, batches>>
folding == <<collapsed, initialized>>

ASSUME ImportsAssumption == Imports \subseteq Seq(PrefixSet \cup {BadPrefix})

Entry(list, prefix) ==
    [kind |-> "entry", list |-> list, prefix |-> prefix, comment |-> Nothing, disabled |-> FALSE]

EntriesOf(list) == {e \in Rows : e.val.list = list}
IdsOf(list) == {e.id : e \in EntriesOf(list)}
ExistingNames == {e.val.list : e \in Rows}
\* getExistingPrefixes.
GetExistingPrefixes(list) == {e.val.prefix : e \in EntriesOf(list)}

-----------------------------------------------------------------------------
(* The drawer. "mode" is "create" or "add"; "known" are the prefixes       *)
(* allPrefixes had when the entries last changed: it is not computed anew  *)
(* when the list is fetched.                                               *)

ClosedEntries == [open |-> FALSE]
FreshEntries(mode, list) ==
    [open |-> TRUE, mode |-> mode, list |-> list, manual |-> <<>>, imported |-> <<>>,
     known |-> IF mode = "add" THEN GetExistingPrefixes(list) ELSE {}, saving |-> FALSE]

Existing(f) == IF f.mode = "add" THEN GetExistingPrefixes(f.list) ELSE {}
ToSend(f) == f.manual \o f.imported

\* allPrefixes.
AllPrefixes(f) == Existing(f) \cup Range(f.manual) \cup Range(f.imported)
Remembered(f) == [f EXCEPT !.known = AllPrefixes(f)]

Drawer(drawers) ==
    /\ entryForm.open
    /\ entryForm' \in drawers
    /\ UNCHANGED <<contentVars, folding, selected, batches>>

\* Mutant: only the entries of the list count as duplicates.
AddKnownEntry(p) ==
    /\ p \notin Existing(entryForm)
    /\ Drawer({Remembered([entryForm EXCEPT !.manual = Append(@, p)])})

\* handleAddEntry.
HandleAddEntry(p) ==
    /\ p \notin entryForm.known
    /\ Drawer({Remembered([entryForm EXCEPT !.manual = Append(@, p)])})

HandleRemoveEntry ==
    /\ entryForm.open
    /\ Drawer({Remembered([entryForm EXCEPT !.manual = RemoveAt(@, k)]) :
                 k \in DOMAIN entryForm.manual})

\* parseCSV: the valid entries, each prefix the first time it occurs.
ParseCSV(text, existing) ==
    LET kept == {k \in DOMAIN text : /\ text[k] \in PrefixSet \ existing
                                     /\ \A j \in 1..(k - 1) : text[j] # text[k]}
        nth(n) == CHOOSE k \in kept : Cardinality({j \in kept : j < k}) = n - 1
    IN  [n \in 1..Cardinality(kept) |-> text[nth(n)]]

\* handleParseImport replaces what was imported before.
HandleParseImport ==
    /\ entryForm.open
    /\ Drawer({Remembered([entryForm EXCEPT
                 !.imported = ParseCSV(text, Existing(entryForm) \cup Range(entryForm.manual))]) :
                 text \in Imports})

TypeName ==
    /\ entryForm.open /\ entryForm.mode = "create"
    /\ Drawer({[entryForm EXCEPT !.list = n] : n \in Lists \cup {Nothing}})

\* validateName, canSubmit.
ValidateName(n) == n # Nothing /\ n \notin ExistingNames
CanSubmit(f) == IF f.mode = "add" THEN ToSend(f) # <<>> ELSE ValidateName(f.list)

\* What runs in the background: a submission or a delete, with what it has
\* still to send, its requests, and whether its drawer is "fresh": not
\* closed since. Creating a list sends nothing.
Batch(mode, list, todo, sent) ==
    [mode |-> mode, list |-> list, todo |-> todo, sent |-> sent, failed |-> FALSE,
     fresh |-> TRUE, over |-> FALSE]
Unheard(b) == {i \in batches[b].sent : requests[i].told = "no"}
Done(b) ==
    /\ ~batches[b].over /\ Unheard(b) = {}
    /\ batches[b].failed \/ batches[b].todo = <<>>

HandleSubmit ==
    /\ entryForm.open /\ ~entryForm.saving /\ CanSubmit(entryForm)
    /\ batches' = Append(batches, Batch(entryForm.mode, entryForm.list,
                                         ToSend(entryForm), {}))
    /\ entryForm' = [entryForm EXCEPT !.saving = TRUE]
    /\ stale' = (stale \/ entryForm.mode = "create")
    /\ UNCHANGED <<serviceVars, shown, early, folding, selected>>

Aged == [k \in DOMAIN batches |-> [batches[k] EXCEPT !.fresh = FALSE]]

\* handleClose empties the drawer.
HandleClose ==
    /\ entryForm.open
    /\ entryForm' = ClosedEntries
    /\ batches' = Aged
    /\ UNCHANGED <<contentVars, folding, selected>>

\* The next entry is sent when the one before was answered.
SendNext(b) ==
    LET batch == batches[b] IN
    /\ Unheard(b) = {} /\ ~batch.failed /\ batch.todo # <<>>
    /\ Send("create", <<>>, Entry(batch.list, Head(batch.todo)), <<>>, "page")
    /\ batches' = [batches EXCEPT ![b].todo = Tail(@), ![b].sent = @ \cup {Len(requests) + 1}]
    /\ UNCHANGED <<folding, selected, entryForm>>

\* The end of handleSubmit: handleClose, of whatever drawer for the same
\* purpose is open then, or after an error only the end of "creating". The
\* drawer for new lists is always the same one; that which adds to a list is
\* gone once it was closed, and only closes its successor.
SubmitEnds(b) ==
    LET batch == batches[b]
        same == entryForm.open /\ entryForm.mode = batch.mode
    IN  /\ batch.mode \in {"create", "add"} /\ Done(b)
        /\ IF ~same THEN UNCHANGED entryForm
           ELSE IF ~batch.failed THEN entryForm' = ClosedEntries
           ELSE entryForm' = IF batch.mode = "create" \/ batch.fresh
                             THEN [entryForm EXCEPT !.saving = FALSE] ELSE entryForm
        /\ batches' = [k \in DOMAIN batches |->
                         IF k = b THEN [batch EXCEPT !.over = TRUE]
                         ELSE [batches[k] EXCEPT !.fresh = @ /\ (~same \/ batch.failed)]]
        /\ UNCHANGED <<contentVars, folding, selected>>

EntryDrawer ==
    \/ \E p \in PrefixSet : entryForm.open /\ HandleAddEntry(p)
    \/ HandleRemoveEntry
    \/ HandleParseImport
    \/ TypeName
    \/ HandleSubmit
    \/ HandleClose

-----------------------------------------------------------------------------
(* The lists.                                                              *)

\* All lists are folded when the first ones arrive.
FetchLists ==
    /\ Fetch
    /\ IF ~initialized /\ shown' # shown /\ shown' # <<>>
       THEN collapsed' = {shown'[k].val.list : k \in DOMAIN shown'} /\ initialized' = TRUE
       ELSE UNCHANGED folding
    /\ UNCHANGED <<selected, entryForm, batches>>

Select(list, ids) ==
    /\ selected' = [selected EXCEPT ![list] = ids]
    /\ UNCHANGED <<contentVars, folding, entryForm, batches>>

\* toggleList.
ToggleList(list) ==
    /\ collapsed' = IF list \in collapsed THEN collapsed \ {list} ELSE collapsed \cup {list}
    /\ UNCHANGED <<contentVars, initialized, selected, entryForm, batches>>

\* handleSelectAll goes by the number of selected entries.
HandleSelectAll(list) ==
    IF Cardinality(selected[list]) = Cardinality(IdsOf(list))
    THEN Select(list, {}) ELSE Select(list, IdsOf(list))

HandleSelectEntry(list) ==
    \E id \in IdsOf(list) :
        Select(list, IF id \in selected[list] THEN selected[list] \ {id}
                     ELSE selected[list] \cup {id})

OpenEntries(mode, list) ==
    /\ entryForm' = FreshEntries(mode, list)
    /\ UNCHANGED <<contentVars, folding, selected, batches>>

\* handleDeleteEntries: Promise.all over one DELETE for each entry, in the
\* order they were selected.
HandleDeleteEntries(list) ==
    \E n \in 1..(MaxRequests - Len(requests)) : \E ids \in [1..n -> selected[list]] :
        /\ IsInjective(ids) /\ Range(ids) = selected[list]
        /\ requests' = requests \o
              [k \in 1..n |-> Request("delete", <<ids[k]>>, Nothing, <<>>, "page")]
        /\ batches' = Append(batches, Batch("delete", list, <<>>, {Len(requests) + k : k \in 1..n}))
        /\ UNCHANGED <<conf, cache, folding, selected, entryForm>>

AddressListGroup(list) ==
    \/ ToggleList(list)
    \/ /\ list \notin collapsed
       /\ \/ HandleSelectAll(list)
          \/ HandleSelectEntry(list)
          \/ OpenEntries("add", list)
          \/ HandleDeleteEntries(list)
Groups ==
    /\ ~entryForm.open
    /\ \E list \in ExistingNames : AddressListGroup(list)

AddAddressList == Loaded /\ ~entryForm.open /\ OpenEntries("create", Nothing)

\* An answer to one of the requests of a batch. A delete acts when all its
\* answers are in, and only if all of them are good.
AnswerEntry(i) ==
    LET q == requests[i] IN
    /\ q.by = "page" /\ ~Running(q) /\ q.told = "no"
    /\ \E b \in DOMAIN batches :
          /\ i \in batches[b].sent
          /\ batches' = [batches EXCEPT ![b].failed = @ \/ q.reply # "ok"]
          /\ IF batches[b].mode = "delete"
             THEN requests' = [requests EXCEPT ![i].told = "heard"] /\ UNCHANGED <<conf, cache>>
             ELSE Take(i, q.reply = "ok")
    /\ UNCHANGED <<folding, selected, entryForm>>

Latest(b) == \A k \in DOMAIN batches : k > b => batches[k].mode # "delete"

\* onSuccess of useDeleteEntries, and the callback of the latest delete,
\* which unselects everything in its list.
DeleteEnds(b) ==
    LET batch == batches[b] IN
    /\ batch.mode = "delete" /\ Done(b)
    /\ stale' = (stale \/ ~batch.failed)
    /\ requests' = [i \in DOMAIN requests |->
                      IF i \in batch.sent /\ ~batch.failed
                      THEN [requests[i] EXCEPT !.told = "yes"] ELSE requests[i]]
    /\ selected' = IF ~batch.failed /\ Latest(b) THEN [selected EXCEPT ![batch.list] = {}]
                   ELSE selected
    /\ batches' = [batches EXCEPT ![b].over = TRUE]
    /\ UNCHANGED <<conf, shown, early, folding, entryForm>>

\* To another cluster and back: an open drawer stays.
ChangeLists ==
    /\ Loaded
    /\ collapsed' = {} /\ initialized' = FALSE
    /\ selected' = [l \in Lists |-> {}]
    /\ stale' = TRUE
    /\ UNCHANGED <<serviceVars, shown, early, entryForm, batches>>

InitLists ==
    /\ collapsed = {} /\ initialized = FALSE
    /\ selected = [l \in Lists |-> {}]
    /\ entryForm = ClosedEntries
    /\ batches = <<>>

ListsNext ==
    \/ FetchLists
    \/ Groups
    \/ AddAddressList
    \/ EntryDrawer
    \/ \E b \in DOMAIN batches : SendNext(b) \/ SubmitEnds(b) \/ DeleteEnds(b)
    \/ \E i \in DOMAIN requests : AnswerEntry(i)
    \/ ChangeLists

-----------------------------------------------------------------------------
(* Properties.                                                             *)

ListsTypeOK ==
    /\ \A l \in Lists : selected[l] \subseteq Routers \X Nat
    /\ \A b \in DOMAIN batches : batches[b].sent \subseteq DOMAIN requests

\* No prefix is twice among the entries "that will be added", however they
\* were typed, imported and removed (handleAddEntry and parseCSV check each
\* for itself, against a memo and against the list): RouterOS would refuse
\* the second one, and the submission would stop there.
FormEntriesDistinct ==
    entryForm.open => IsInjective(ToSend(entryForm))

=============================================================================
