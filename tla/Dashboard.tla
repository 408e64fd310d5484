----------------------------- MODULE Dashboard -----------------------------
(***************************************************************************)
(* The list of iWallets on the dashboard: dashboard-real.tsx with its      *)
(* restore-from-file.tsx, the registry of lib/local-identities.ts and the  *)
(* reads of lib/sui-client.ts.  (iwallets-tabs.tsx holds the same load and *)
(* import, without removal.)                                               *)
(*                                                                         *)
(* `load` awaits twice, and nothing stops a second load from starting in   *)
(* between: switching the owner, importing, restoring and removing all     *)
(* start one, and the page itself starts with two, before and after the    *)
(* wallet reconnects.  Whichever ends last sets the list.  Handlers close  *)
(* over the owner of the render they were made in, and so do the loads     *)
(* they start.  When another page of the site is opened they go on, and    *)
(* still store what they find, though nobody sees their list any more.     *)
(*                                                                         *)
(* External: the chain, where all of Ids exist.  Recent activity is all    *)
(* the two scans of discoverOwnedIdentities see.  Seed ids are empty by    *)
(* default and left out.                                                   *)
(***************************************************************************)
EXTENDS Naturals, FiniteSets

CONSTANTS
  Owners,         \* addresses that connect
  NoOwner,        \* nobody is connected
  Ids,            \* object ids of the iWallets on chain
  OwnerOf,        \* their `owner` field
  TxWindow,       \* ids created within the last 50 transactions of their owner
  EventWindow,    \* ids among the last 50 IdentityCreated events
  MaxLoads,       \* bound: loads started, on all pages
  MaxAdding,      \* bound: imports and restores in progress
  MaxReloads,     \* bound: times the page is left and opened again
  MaxFaults       \* bound: failed calls

ASSUME DashboardAssumption ==
  /\ NoOwner \notin Owners
  /\ OwnerOf \in [Ids -> Owners]
  /\ TxWindow \subseteq Ids /\ EventWindow \subseteq Ids
  /\ MaxLoads \in Nat \ {0} /\ MaxAdding \in Nat
  /\ MaxReloads \in Nat /\ MaxFaults \in Nat

VARIABLES
  connected,   \* ownerAddress
  stored,      \* localStorage, "iwallet:identities"
  allWallets,  \* state of the component
  loading,     \* state of the component
  loads,       \* the calls of load in progress
  adding,      \* the calls of onImport and onFile in progress
  orphans,     \* by owner: loads of pages that were left, still scanning
  leftAdding,  \* the calls of onImport and onFile such pages have in progress
  started,     \* number of loads started
  registered,  \* history: how often the registry was read, or written for good
  shown,       \* history: which load set the list, and whether it read all
  gone,        \* history: removed, and not added by the user since
  reloads,     \* number of times the page was opened again
  faults       \* number of faults so far

pageVars == <<connected, allWallets, loading, loads, adding, started,
              registered, shown>>
leftVars == <<orphans, leftAdding>>
vars == <<pageVars, leftVars, stored, gone, reloads, faults>>

OwnedBy(o) == {id \in Ids : OwnerOf[id] = o}

\* Only the connected owner's iWallets are shown; until one connects, all.
Wallets ==
  {id \in allWallets : connected # NoOwner => OwnerOf[id] = connected}

Load == [k : 1 .. MaxLoads, n : Nat, owner : Owners \cup {NoOwner},
         at : {"discover", "list"}, ids : SUBSET Ids]

\* The k-th load, before it has read the registry, and then, the n-th to do
\* so, while it reads the objects it found there.
Discovering(k, owner) ==
  [k |-> k, n |-> 0, owner |-> owner, at |-> "discover", ids |-> {}]

Listing(k, n, owner, ids) ==
  [k |-> k, n |-> n, owner |-> owner, at |-> "list", ids |-> ids]

\* load, up to its first await.
BeginLoad(owner, registry) ==
  /\ started < MaxLoads
  /\ started' = started + 1
  /\ loading' = TRUE
  /\ IF owner = NoOwner
     THEN /\ registered' = registered + 1
          /\ loads' = loads \cup {Listing(started + 1, registered + 1, owner,
                                       registry)}
     ELSE /\ loads' = loads \cup {Discovering(started + 1, owner)}
          /\ UNCHANGED registered

\* A page that was just mounted: nobody is connected yet.
Init ==
  /\ stored \in SUBSET Ids
  /\ connected = NoOwner /\ allWallets = {} /\ loading = TRUE
  /\ loads = {Listing(1, 1, NoOwner, stored)} /\ started = 1 /\ registered = 1
  /\ adding = {}
  /\ shown = [by |-> 0, whole |-> TRUE]
  /\ orphans = [o \in Owners |-> 0] /\ leftAdding = {}
  /\ gone = {} /\ reloads = 0 /\ faults = 0

Mount ==
  /\ reloads < MaxReloads /\ started < MaxLoads
  /\ reloads' = reloads + 1
  /\ connected' = NoOwner /\ allWallets' = {} /\ loading' = TRUE
  /\ started' = started + 1 /\ registered' = 1
  /\ loads' = {Listing(started + 1, 1, NoOwner, stored)} /\ adding' = {}
  /\ shown' = [by |-> 0, whole |-> TRUE]
  /\ UNCHANGED <<stored, gone, faults>>

\* The browser loads the page anew: only the registry is kept.
Reload ==
  /\ Mount
  /\ orphans' = [o \in Owners |-> 0] /\ leftAdding' = {}

\* Another page of the site is opened, and this one again: what was awaited
\* goes on.
Navigate ==
  /\ Mount
  /\ orphans' = [o \in Owners |-> orphans[o] +
                   Cardinality({l \in loads : l.at = "discover" /\ l.owner = o})]
  /\ leftAdding' = leftAdding \cup adding

Fault == faults < MaxFaults /\ faults' = faults + 1

-----------------------------------------------------------------------------
(***************************************************************************)
(* load.                                                                   *)
(***************************************************************************)
\* The wallet (re)connects, switches accounts or disconnects: `load` is a new
\* callback, and the effect that depends on it runs it.
OwnerChanges(o) ==
  /\ o # connected
  /\ connected' = o
  /\ BeginLoad(o, stored)
  /\ UNCHANGED <<stored, allWallets, adding, shown, leftVars, gone, reloads, faults>>

\* Each scan is best effort.
discoverOwnedIdentities(o, txScan, eventScan) ==
  (IF txScan THEN OwnedBy(o) \cap TxWindow ELSE {})
    \cup (IF eventScan THEN OwnedBy(o) \cap EventWindow ELSE {})

\* Mutation: the registry is read before what was found is added to it.
Discovered_ReadsFirst(l, found) ==
  /\ l \in loads /\ l.at = "discover"
  /\ stored' = stored \cup found
  /\ registered' = registered + 1
  /\ loads' = (loads \ {l})
              \cup {Listing(l.k, registered + 1, l.owner, stored)}
  /\ UNCHANGED <<connected, allWallets, loading, adding, started, shown,
                 leftVars, gone, reloads>>

\* What was found is stored, and the registry read, without another await.
Discovered(l, found) ==
  /\ l \in loads /\ l.at = "discover"
  /\ stored' = stored \cup found
  /\ registered' = registered + 1
  /\ loads' = (loads \ {l})
              \cup {Listing(l.k, registered + 1, l.owner, stored \cup found)}
  /\ UNCHANGED <<connected, allWallets, loading, adding, started, shown,
                 leftVars, gone, reloads>>

Discover(l) ==
  /\ Discovered(l, discoverOwnedIdentities(l.owner, TRUE, TRUE))
  /\ UNCHANGED faults

ScanFails(l) ==
  /\ \E tx, ev \in BOOLEAN :
       /\ ~ (tx /\ ev)
       /\ Discovered(l, discoverOwnedIdentities(l.owner, tx, ev))
  /\ Fault

\* Mutation: no `finally`, loading ends when everything could be read.
End_OnSuccess(l, list, whole, by) ==
  /\ loads' = loads \ {l}
  /\ allWallets' = list
  /\ loading' = (loading /\ ~ whole)
  /\ shown' = [by |-> by, whole |-> whole]
  /\ UNCHANGED <<connected, adding, started, leftVars, gone, reloads>>

End(l, list, whole, by) ==
  /\ loads' = loads \ {l}
  /\ allWallets' = list
  /\ loading' = FALSE
  /\ shown' = [by |-> by, whole |-> whole]
  /\ UNCHANGED <<connected, adding, started, leftVars, gone, reloads>>

\* Mutation: what was listed is stored as well.
List_StoresBack(l) ==
  /\ l \in loads /\ l.at = "list"
  /\ End(l, l.ids, TRUE, l.n)
  /\ stored' = stored \cup l.ids
  /\ UNCHANGED <<registered, faults>>

\* listIdentities has read every id.
List(l) ==
  /\ l \in loads /\ l.at = "list"
  /\ End(l, l.ids, TRUE, l.n)
  /\ UNCHANGED <<registered, stored, faults>>

\* Mutation: the ids whose read fails stay in the list, as null.
ReadFails_KeepsNull(l) ==
  /\ l \in loads /\ l.at = "list"
  /\ \E id \in l.ids : End(l, (l.ids \ {id}) \cup {NoOwner}, FALSE, l.n)
  /\ Fault
  /\ UNCHANGED <<registered, stored>>

\* An id whose read fails is dropped from the list.
ReadFails(l) ==
  /\ l \in loads /\ l.at = "list"
  /\ \E id \in l.ids : End(l, l.ids \ {id}, FALSE, l.n)
  /\ Fault
  /\ UNCHANGED <<registered, stored>>

\* The browser refuses to store one more id: the catch clause empties the list,
\* and what was stored before stays.
StoreFails(l) ==
  /\ l \in loads /\ l.at = "discover"
  /\ LET new == discoverOwnedIdentities(l.owner, TRUE, TRUE) \ stored
     IN  \E some \in SUBSET new : some # new /\ stored' = stored \cup some
  /\ registered' = registered + 1
  /\ End(l, {}, FALSE, registered + 1)
  /\ Fault

-----------------------------------------------------------------------------
(***************************************************************************)
(* The handlers.  Both additions await getIdentity, then add and load.     *)
(***************************************************************************)
\* The button of the restore is disabled while one is busy.
ClickAdd(kind, id) ==
  /\ started < MaxLoads /\ Cardinality(adding) < MaxAdding
  /\ kind = "restore" => \A a \in adding : a.kind # "restore"
  /\ adding' = adding \cup {[kind |-> kind, id |-> id, owner |-> connected]}
  /\ UNCHANGED <<connected, stored, allWallets, loading, loads, started,
                 registered, shown, leftVars, gone, reloads, faults>>

\* onImport compares the owner with the one that was connected at the click;
\* onFile does not.
Refused(a) ==
  a.kind = "import" /\ a.owner # NoOwner /\ OwnerOf[a.id] # a.owner

Add(a) ==
  /\ a \in adding
  /\ ~ Refused(a)
  /\ adding' = adding \ {a}
  /\ stored' = stored \cup {a.id}
  /\ gone' = gone \ {a.id}
  /\ BeginLoad(a.owner, stored \cup {a.id})
  /\ UNCHANGED <<connected, allWallets, shown, leftVars, reloads, faults>>

\* The owner differs, or the id cannot be read or stored: a message is shown.
AddEnds(a) ==
  /\ a \in adding
  /\ adding' = adding \ {a}
  /\ IF Refused(a) THEN UNCHANGED faults ELSE Fault
  /\ UNCHANGED <<connected, stored, allWallets, loading, loads, started,
                 registered, shown, leftVars, gone, reloads>>

\* The list, and its buttons, are not there while loading.
onRemove(id) ==
  /\ ~ loading /\ id \in Wallets
  /\ stored' = stored \ {id}
  /\ gone' = gone \cup {id}
  /\ BeginLoad(connected, stored \ {id})
  /\ UNCHANGED <<connected, allWallets, adding, shown, leftVars, reloads, faults>>

-----------------------------------------------------------------------------
(***************************************************************************)
(* What goes on of a page that was left.                                   *)
(***************************************************************************)
\* Such a load stores what its scans find and the browser accepts; what it
\* lists after that is lost.
LeftLoadEnds(o) ==
  /\ orphans[o] > 0
  /\ orphans' = [orphans EXCEPT ![o] = @ - 1]
  /\ LET found == discoverOwnedIdentities(o, TRUE, TRUE)
     IN  \/ stored' = stored \cup found /\ UNCHANGED faults
         \/ Fault /\ \E some \in SUBSET found : stored' = stored \cup some
  /\ registered' = registered + 1
  /\ UNCHANGED <<connected, allWallets, loading, loads, adding, started, shown,
                 leftAdding, gone, reloads>>

LeftAdd(a) ==
  /\ a \in leftAdding
  /\ ~ Refused(a)
  /\ leftAdding' = leftAdding \ {a}
  /\ stored' = stored \cup {a.id}
  /\ gone' = gone \ {a.id}
  /\ orphans' = [o \in Owners |-> orphans[o] + IF o = a.owner THEN 1 ELSE 0]
  /\ registered' = registered + 1
  /\ UNCHANGED <<connected, allWallets, loading, loads, adding, started, shown,
                 reloads, faults>>

LeftAddEnds(a) ==
  /\ a \in leftAdding
  /\ leftAdding' = leftAdding \ {a}
  /\ IF Refused(a) THEN UNCHANGED faults ELSE Fault
  /\ UNCHANGED <<pageVars, stored, orphans, gone, reloads>>

DiscoverEnds == \E l \in loads : Discover(l)
ListEnds == \E l \in loads : List(l)

Next ==
  \/ \E o \in Owners \cup {NoOwner} : OwnerChanges(o)
  \/ DiscoverEnds
  \/ ListEnds
  \/ \E l \in loads : ScanFails(l)
  \/ \E l \in loads : ReadFails(l)
  \/ \E l \in loads : StoreFails(l)
  \/ \E kind \in {"import", "restore"}, id \in Ids : ClickAdd(kind, id)
  \/ \E a \in adding : Add(a)
  \/ \E a \in adding : AddEnds(a)
  \/ \E id \in Ids : onRemove(id)
  \/ Reload \/ Navigate
  \/ \E o \in Owners : LeftLoadEnds(o)
  \/ \E a \in leftAdding : LeftAdd(a)
  \/ \E a \in leftAdding : LeftAddEnds(a)

\* The reads of a load return or throw.
Spec ==
  /\ Init
  /\ [][Next]_vars
  /\ WF_vars(DiscoverEnds) /\ WF_vars(ListEnds)

-----------------------------------------------------------------------------
Addition == [kind : {"import", "restore"}, id : Ids, owner : Owners \cup {NoOwner}]

TypeOK ==
  /\ connected \in Owners \cup {NoOwner}
  /\ stored \subseteq Ids /\ allWallets \subseteq Ids /\ gone \subseteq Ids
  /\ loading \in BOOLEAN
  /\ loads \subseteq Load /\ adding \subseteq Addition
  /\ orphans \in [Owners -> Nat] /\ leftAdding \subseteq Addition
  /\ started \in 1 .. MaxLoads /\ registered \in Nat
  /\ shown \in [by : Nat, whole : BOOLEAN]
  /\ reloads \in 0 .. MaxReloads /\ faults \in 0 .. MaxFaults

\* When all is quiet, the list is what the browser tracks, on one condition:
\* the load that ended last is the last that got to the registry, here or on a
\* page that was left, and could read every iWallet.  So overtaking is the only
\* way for the list to be wrong.
SettledList ==
  loads = {} /\ shown.by = registered /\ shown.whole => allWallets = stored

\* What the two scans of discoverOwnedIdentities can see.
Recent == TxWindow \cup EventWindow

\* sui-client.ts:162, "Recover an owner's iWallets from chain (survives a
\* cleared cache)": once no load is scanning, the connected owner's iWallets of
\* recent activity are tracked, if no call failed, whatever was removed, by whom
\* and on which page.  And what is not recent, once it is removed, stays away
\* until the user adds it, whatever loads and pages that were left still do.
RegistryRecovers ==
  /\ (\A l \in loads : l.at # "discover") /\ connected # NoOwner /\ faults = 0
       => OwnedBy(connected) \cap Recent \subseteq stored
  /\ gone \cap stored \subseteq Recent

\* The "Reading iWallets" message goes away, also when reads fail, the
\* registry cannot be written, or loads overlap.
LoadingEnds == loading ~> ~ loading

-----------------------------------------------------------------------------
\* dashboard-real.tsx:153, "Remove from this browser": an iWallet that was
\* removed is not tracked again before the user adds it.
RemovedStays == gone \cap stored = {}
=============================================================================
