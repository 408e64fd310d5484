-------------------------- MODULE Dashboard_proofs --------------------------
(***************************************************************************)
(* Theorems about the dashboard, for any owners, iWallets, windows of the  *)
(* scans and number of loads: first its list, then the buffer behind its   *)
(* feed, for any capacity, number of trades and history.                   *)
(***************************************************************************)
EXTENDS Dashboard, TradeFeed, FiniteSetTheorems, WellFoundedInduction,
  NaturalsInduction, TLAPS

\* What a scan finds is recent and belongs to the owner it was made for; both
\* scans together find all of that.
LEMMA ScansFindRecent ==
  ASSUME NEW o
  PROVE  /\ OwnedBy(o) \subseteq Ids
         /\ discoverOwnedIdentities(o, TRUE, TRUE) = OwnedBy(o) \cap Recent
         /\ \A tx, ev \in BOOLEAN :
              discoverOwnedIdentities(o, tx, ev) \subseteq OwnedBy(o) \cap Recent
BY DEF discoverOwnedIdentities, OwnedBy, Recent

\* A load that begins adds one to the loads there are.
LEMMA BeginLoadAdds ==
  ASSUME NEW o, NEW R, BeginLoad(o, R)
  PROVE  \E m : loads' = loads \cup {m}
BY DEF BeginLoad

\* The left pages have a number of scans: only finitely many loads were started.
LEMMA LoadsFinite ==
  IsFiniteSet(loads) /\ [Next]_vars => IsFiniteSet(loads')
<1> SUFFICES ASSUME IsFiniteSet(loads), [Next]_vars PROVE IsFiniteSet(loads')
  OBVIOUS
<1>1. ASSUME NEW m, loads' = loads \cup {m} PROVE IsFiniteSet(loads')
  BY <1>1, FS_AddElement
<1>2. ASSUME NEW l, loads' = loads \ {l} PROVE IsFiniteSet(loads')
  BY <1>2, FS_RemoveElement
<1>3. ASSUME NEW o, OwnerChanges(o) PROVE IsFiniteSet(loads')
  BY <1>1, <1>3, BeginLoadAdds DEF OwnerChanges
<1>4. ASSUME NEW a, Add(a) PROVE IsFiniteSet(loads')
  BY <1>1, <1>4, BeginLoadAdds DEF Add
<1>5. ASSUME NEW id, onRemove(id) PROVE IsFiniteSet(loads')
  BY <1>1, <1>5, BeginLoadAdds DEF onRemove
<1>6. ASSUME NEW l, NEW found, Discovered(l, found) PROVE IsFiniteSet(loads')
  <2>1. PICK m : loads' = (loads \ {l}) \cup {m}
    BY <1>6 DEF Discovered
  <2>2. IsFiniteSet(loads \ {l})
    BY FS_RemoveElement
  <2>3. QED
    BY <2>1, <2>2, FS_AddElement
<1>7. ASSUME NEW l, Discover(l) \/ ScanFails(l) PROVE IsFiniteSet(loads')
  BY <1>6, <1>7 DEF Discover, ScanFails
<1>8. ASSUME NEW l, List(l) \/ ReadFails(l) \/ StoreFails(l)
      PROVE  IsFiniteSet(loads')
  BY <1>2, <1>8 DEF List, ReadFails, StoreFails, End
<1>9. ASSUME Mount PROVE IsFiniteSet(loads')
  BY <1>9, FS_Singleton DEF Mount
<1>10. ASSUME UNCHANGED loads PROVE IsFiniteSet(loads')
  BY <1>10
<1>11. ASSUME NEW kind, NEW id, ClickAdd(kind, id) PROVE UNCHANGED loads
  BY <1>11 DEF ClickAdd
<1>12. ASSUME NEW a, AddEnds(a) \/ LeftAdd(a) \/ LeftAddEnds(a)
       PROVE  UNCHANGED loads
  BY <1>12 DEF AddEnds, LeftAdd, LeftAddEnds, pageVars
<1>13. ASSUME NEW o, LeftLoadEnds(o) PROVE UNCHANGED loads
  BY <1>13 DEF LeftLoadEnds
<1>14. CASE UNCHANGED vars
  BY <1>14 DEF vars, pageVars
<1>15. QED
  BY <1>3, <1>4, <1>5, <1>7, <1>8, <1>9, <1>10, <1>11, <1>12, <1>13, <1>14
     DEF Next, DiscoverEnds, ListEnds, Reload, Navigate

\* A load that begins, for one of the owners, has the fields of a load.
LEMMA BeginLoadTyped ==
  ASSUME TypeOK, NEW o \in Owners \cup {NoOwner}, NEW R \in SUBSET Ids,
         BeginLoad(o, R)
  PROVE  /\ loads' \subseteq Load /\ loading' \in BOOLEAN
         /\ started' \in 1 .. MaxLoads /\ registered' \in Nat
<1>1. started \in 1 .. MaxLoads /\ registered \in Nat /\ loads \subseteq Load
  BY DEF TypeOK
<1>2. started + 1 \in 1 .. MaxLoads /\ registered + 1 \in Nat
  BY <1>1, DashboardAssumption DEF BeginLoad
<1>3. /\ Listing(started + 1, registered + 1, o, R) \in Load
      /\ Discovering(started + 1, o) \in Load
  BY <1>2 DEF Listing, Discovering, Load
<1>4. QED
  BY <1>1, <1>2, <1>3 DEF BeginLoad

LEMMA TypeStep == TypeOK /\ IsFiniteSet(loads) /\ [Next]_vars => TypeOK'
<1> SUFFICES ASSUME TypeOK, IsFiniteSet(loads), [Next]_vars PROVE TypeOK'
  OBVIOUS
<1> USE DashboardAssumption
<1>0. \A l \in loads : l \in Load
  BY DEF TypeOK
<1>1. ASSUME NEW o \in Owners \cup {NoOwner}, OwnerChanges(o) PROVE TypeOK'
  <2>1. BeginLoad(o, stored) /\ stored \in SUBSET Ids
    BY <1>1 DEF OwnerChanges, TypeOK
  <2>2. QED
    BY <1>1, <2>1, BeginLoadTyped DEF OwnerChanges, leftVars, TypeOK
<1>2. ASSUME NEW l \in loads, NEW found \in SUBSET Ids, Discovered(l, found),
             faults' \in 0 .. MaxFaults
      PROVE  TypeOK'
  <2>1. stored \cup found \in SUBSET Ids /\ registered + 1 \in Nat
    BY DEF TypeOK
  <2>2. Listing(l.k, registered + 1, l.owner, stored \cup found) \in Load
    BY <1>0, <2>1 DEF Listing, Load
  <2>3. QED
    BY <1>2, <2>1, <2>2 DEF Discovered, leftVars, TypeOK
<1>3. ASSUME NEW l \in loads, NEW S \in SUBSET Ids, NEW whole \in BOOLEAN,
             NEW n \in Nat, End(l, S, whole, n), registered' \in Nat,
             faults' \in 0 .. MaxFaults, stored' \subseteq Ids
      PROVE  TypeOK'
  BY <1>3 DEF End, leftVars, TypeOK
<1>4. ASSUME Fault PROVE faults' \in 0 .. MaxFaults
  BY <1>4 DEF Fault, TypeOK
<1>5. ASSUME NEW kind \in {"import", "restore"}, NEW id \in Ids,
             ClickAdd(kind, id)
      PROVE  TypeOK'
  <2>1. [kind |-> kind, id |-> id, owner |-> connected] \in Addition
    BY DEF Addition, TypeOK
  <2>2. QED
    BY <1>5, <2>1 DEF ClickAdd, leftVars, TypeOK
<1>6. ASSUME NEW a \in adding, Add(a) PROVE TypeOK'
  <2>1. a \in Addition
    BY DEF TypeOK
  <2>2. a.id \in Ids /\ a.owner \in Owners \cup {NoOwner}
    BY <2>1 DEF Addition
  <2>3. stored \cup {a.id} \in SUBSET Ids
    BY <2>2 DEF TypeOK
  <2>4. BeginLoad(a.owner, stored \cup {a.id})
    BY <1>6 DEF Add
  <2>5. QED
    BY <1>6, <2>2, <2>3, <2>4, BeginLoadTyped DEF Add, leftVars, TypeOK
<1>7. ASSUME NEW a \in adding, AddEnds(a) PROVE TypeOK'
  BY <1>4, <1>7 DEF AddEnds, leftVars, TypeOK
<1>8. ASSUME NEW id \in Ids, onRemove(id) PROVE TypeOK'
  <2>1. stored \ {id} \in SUBSET Ids /\ connected \in Owners \cup {NoOwner}
    BY DEF TypeOK
  <2>2. BeginLoad(connected, stored \ {id})
    BY <1>8 DEF onRemove
  <2>3. QED
    BY <1>8, <2>1, <2>2, BeginLoadTyped DEF onRemove, leftVars, TypeOK
<1>9. ASSUME Mount, orphans' \in [Owners -> Nat], leftAdding' \subseteq Addition
      PROVE  TypeOK'
  <2>1. started + 1 \in 1 .. MaxLoads
    BY <1>9 DEF Mount, TypeOK
  <2>2. Listing(started + 1, 1, NoOwner, stored) \in Load
    BY <2>1 DEF Listing, Load, TypeOK
  <2>3. reloads + 1 \in 0 .. MaxReloads
    BY <1>9 DEF Mount, TypeOK
  <2>4. QED
    BY <1>9, <2>1, <2>2, <2>3 DEF Mount, TypeOK
<1>10. ASSUME UNCHANGED vars PROVE TypeOK'
  BY <1>10 DEF vars, pageVars, leftVars, TypeOK
<1>11. ASSUME NEW l \in loads, List(l) PROVE TypeOK'
  BY <1>0, <1>3, <1>11 DEF List, Load, TypeOK
<1>12. ASSUME NEW l \in loads, ReadFails(l) PROVE TypeOK'
  <2>1. PICK id \in l.ids : End(l, l.ids \ {id}, FALSE, l.n)
    BY <1>12 DEF ReadFails
  <2>2. l.ids \ {id} \in SUBSET Ids /\ l.n \in Nat
    BY <1>0 DEF Load
  <2>3. /\ registered' \in Nat /\ faults' \in 0 .. MaxFaults
        /\ stored' \subseteq Ids
    BY <1>4, <1>12 DEF ReadFails, TypeOK
  <2>4. QED
    BY <1>3, <2>1, <2>2, <2>3
<1>13. ASSUME NEW l \in loads, StoreFails(l) PROVE TypeOK'
  <2>1. {} \in SUBSET Ids /\ registered + 1 \in Nat
    BY DEF TypeOK
  <2>2. /\ End(l, {}, FALSE, registered + 1) /\ registered' \in Nat
        /\ faults' \in 0 .. MaxFaults
    BY <1>4, <1>13, <2>1 DEF StoreFails
  <2>3. discoverOwnedIdentities(l.owner, TRUE, TRUE) \subseteq Ids
    BY ScansFindRecent
  <2>4. stored' \subseteq Ids
    BY <1>13, <2>3 DEF StoreFails, TypeOK
  <2>5. QED
    BY <1>3, <2>1, <2>2, <2>4
<1>14. ASSUME NEW l \in loads, Discover(l) PROVE TypeOK'
  <2>1. discoverOwnedIdentities(l.owner, TRUE, TRUE) \in SUBSET Ids
    BY ScansFindRecent
  <2>2. faults' \in 0 .. MaxFaults
    BY <1>14 DEF Discover, TypeOK
  <2>3. QED
    BY <1>2, <1>14, <2>1, <2>2 DEF Discover
<1>15. ASSUME NEW l \in loads, ScanFails(l) PROVE TypeOK'
  <2>1. PICK tx, ev \in BOOLEAN :
          Discovered(l, discoverOwnedIdentities(l.owner, tx, ev))
    BY <1>15 DEF ScanFails
  <2>2. discoverOwnedIdentities(l.owner, tx, ev) \in SUBSET Ids
    BY ScansFindRecent
  <2>3. faults' \in 0 .. MaxFaults
    BY <1>4, <1>15 DEF ScanFails
  <2>4. QED
    BY <1>2, <2>1, <2>2, <2>3
<1>16. ASSUME Reload PROVE TypeOK'
  BY <1>9, <1>16 DEF Reload
<1>17. ASSUME Navigate PROVE TypeOK'
  <2> DEFINE scans(o) == {l \in loads : l.at = "discover" /\ l.owner = o}
  <2>1. ASSUME NEW o \in Owners PROVE orphans[o] + Cardinality(scans(o)) \in Nat
    <3>1. Cardinality(scans(o)) \in Nat
      BY FS_Subset, FS_CardinalityType
    <3>2. QED
      BY <3>1 DEF TypeOK
  <2>2. orphans' = [o \in Owners |-> orphans[o] + Cardinality(scans(o))]
    BY <1>17 DEF Navigate
  <2> HIDE DEF scans
  <2>3. orphans' \in [Owners -> Nat]
    BY <2>1, <2>2
  <2>4. leftAdding' \subseteq Addition
    BY <1>17 DEF Navigate, TypeOK
  <2>5. QED
    BY <1>9, <1>17, <2>3, <2>4 DEF Navigate
<1>18. ASSUME NEW o \in Owners, LeftLoadEnds(o) PROVE TypeOK'
  <2>1. orphans' \in [Owners -> Nat] /\ registered' \in Nat
    BY <1>18 DEF LeftLoadEnds, TypeOK
  <2>2. discoverOwnedIdentities(o, TRUE, TRUE) \subseteq Ids
    BY ScansFindRecent
  <2>3. stored' \subseteq Ids
    BY <1>18, <2>2 DEF LeftLoadEnds, TypeOK
  <2>4. faults' \in 0 .. MaxFaults
    BY <1>4, <1>18 DEF LeftLoadEnds, TypeOK
  <2>5. QED
    BY <1>18, <2>1, <2>3, <2>4 DEF LeftLoadEnds, TypeOK
<1>19. ASSUME NEW a \in leftAdding, LeftAdd(a) PROVE TypeOK'
  <2>1. a.id \in Ids
    BY DEF Addition, TypeOK
  <2>2. \A o \in Owners : orphans[o] + (IF o = a.owner THEN 1 ELSE 0) \in Nat
    BY DEF TypeOK
  <2>3. orphans' \in [Owners -> Nat]
    BY <1>19, <2>2 DEF LeftAdd
  <2>4. registered' \in Nat
    BY <1>19 DEF LeftAdd, TypeOK
  <2>5. QED
    BY <1>19, <2>1, <2>3, <2>4 DEF LeftAdd, TypeOK
<1>20. ASSUME NEW a \in leftAdding, LeftAddEnds(a) PROVE TypeOK'
  BY <1>4, <1>20 DEF LeftAddEnds, pageVars, TypeOK
<1>21. QED
  BY <1>1, <1>5, <1>6, <1>7, <1>8, <1>10, <1>11, <1>12, <1>13, <1>14,
     <1>15, <1>16, <1>17, <1>18, <1>19, <1>20 DEF Next, DiscoverEnds, ListEnds

LEMMA TypeInit == Init => TypeOK
<1> SUFFICES ASSUME Init PROVE TypeOK
  OBVIOUS
<1>1. Listing(1, 1, NoOwner, stored) \in Load
  BY DashboardAssumption DEF Init, Listing, Load
<1>2. QED
  BY <1>1, DashboardAssumption DEF Init, TypeOK

\* Every variable of the page keeps its type, at any number of loads.
THEOREM TypeCorrect == Spec => []TypeOK
<1> DEFINE TypeInv == TypeOK /\ IsFiniteSet(loads)
<1>1. Init => TypeInv
  <2> SUFFICES ASSUME Init PROVE IsFiniteSet(loads)
    BY TypeInit
  <2>1. loads = {Listing(1, 1, NoOwner, stored)}
    BY DEF Init
  <2>2. QED
    BY <2>1, FS_Singleton
<1>2. TypeInv /\ [Next]_vars => TypeInv'
  BY TypeStep, LoadsFinite
<1>3. TypeInv => TypeOK
  OBVIOUS
<1> HIDE DEF TypeInv
<1>4. QED
  BY <1>1, <1>2, <1>3, PTL DEF Spec

-----------------------------------------------------------------------------
\* The inductive form of RegistryRecovers: what is recovered is so unless a load
\* of the connected owner is still scanning, whatever others do.
Scanning(o) == \E l \in loads : l.at = "discover" /\ l.owner = o

RecoversInv ==
  /\ connected # NoOwner /\ faults = 0 /\ ~ Scanning(connected)
       => OwnedBy(connected) \cap Recent \subseteq stored
  /\ gone \cap stored \subseteq Recent

\* A load that begins for an owner scans.
LEMMA BeginLoadScans ==
  ASSUME NEW o, NEW R, BeginLoad(o, R)
  PROVE  loads \subseteq loads' /\ (o # NoOwner => Scanning(o)')
<1>1. CASE o = NoOwner
  BY <1>1 DEF BeginLoad
<1>2. CASE o # NoOwner
  <2> DEFINE m == Discovering(started + 1, o)
  <2>1. loads' = loads \cup {m}
    BY <1>2 DEF BeginLoad
  <2>2. m.at = "discover" /\ m.owner = o
    BY DEF Discovering
  <2> HIDE DEF m
  <2>3. m \in loads'
    BY <2>1
  <2>4. QED
    BY <2>1, <2>2, <2>3 DEF Scanning
<1>3. QED
  BY <1>1, <1>2

LEMMA RecoversStep == TypeOK /\ RecoversInv /\ [Next]_vars => RecoversInv'
<1> SUFFICES ASSUME TypeOK, RecoversInv, [Next]_vars PROVE RecoversInv'
  OBVIOUS
<1>0. Recent' = Recent /\ \A o : OwnedBy(o)' = OwnedBy(o)
  BY DEF Recent, OwnedBy
<1>1. ASSUME Fault PROVE faults' # 0
  BY <1>1 DEF Fault, TypeOK
\* A step that stores more, of recent activity, with no fewer scans under way.
<1>2. ASSUME NEW some, some \subseteq Recent, stored' = stored \cup some,
             Scanning(connected) => Scanning(connected)',
             UNCHANGED <<connected, gone>>, faults' = faults \/ faults' # 0
      PROVE  RecoversInv'
  BY <1>0, <1>2 DEF RecoversInv
<1>3. ASSUME NEW l \in loads, NEW some, some \subseteq Recent, faults' # 0,
             stored' = stored \cup some, UNCHANGED gone
      PROVE  RecoversInv'
  BY <1>0, <1>3 DEF RecoversInv
<1>4. ASSUME UNCHANGED <<connected, stored, gone, loads>>,
             faults' = faults \/ faults' # 0
      PROVE  RecoversInv'
  BY <1>0, <1>4 DEF RecoversInv, Scanning
<1>5. ASSUME NEW o, OwnerChanges(o) PROVE RecoversInv'
  <2>1. /\ connected' = o /\ UNCHANGED <<stored, gone>>
        /\ BeginLoad(o, stored)
    BY <1>5 DEF OwnerChanges
  <2>2. o # NoOwner => Scanning(o)'
    BY <2>1, BeginLoadScans
  <2>3. connected' # NoOwner => Scanning(connected)'
    BY <2>1, <2>2 DEF Scanning
  <2>4. QED
    BY <1>0, <2>1, <2>3 DEF RecoversInv
<1>6. ASSUME NEW l \in loads, Discover(l) PROVE RecoversInv'
  <2> DEFINE found == OwnedBy(l.owner) \cap Recent
  <2>1. /\ Discovered(l, found) /\ UNCHANGED faults
    BY <1>6, ScansFindRecent DEF Discover
  <2>2. /\ stored' = stored \cup found /\ UNCHANGED <<connected, gone>>
        /\ loads \ {l} \subseteq loads'
    BY <2>1 DEF Discovered
  <2>3. CASE l.owner = connected
    BY <1>0, <2>2, <2>3 DEF RecoversInv
  <2>4. CASE l.owner # connected
    <3>1. Scanning(connected) => Scanning(connected)'
      BY <2>2, <2>4 DEF Scanning
    <3>2. found \subseteq Recent
      OBVIOUS
    <3> HIDE DEF found
    <3>3. QED
      BY <1>2, <2>1, <2>2, <3>1, <3>2
  <2>5. QED
    BY <2>3, <2>4
<1>7. ASSUME NEW l \in loads, ScanFails(l) PROVE RecoversInv'
  <2>1. PICK tx, ev \in BOOLEAN :
          Discovered(l, discoverOwnedIdentities(l.owner, tx, ev))
    BY <1>7 DEF ScanFails
  <2>2. discoverOwnedIdentities(l.owner, tx, ev) \subseteq Recent
    BY ScansFindRecent
  <2>3. faults' # 0
    BY <1>1, <1>7 DEF ScanFails
  <2>4. QED
    BY <1>3, <2>1, <2>2, <2>3 DEF Discovered
<1>8. ASSUME NEW l \in loads, StoreFails(l) PROVE RecoversInv'
  <2>1. PICK some \in SUBSET (discoverOwnedIdentities(l.owner, TRUE, TRUE) \ stored) :
          stored' = stored \cup some
    BY <1>8 DEF StoreFails
  <2>2. some \subseteq Recent
    BY <2>1, ScansFindRecent
  <2>3. faults' # 0 /\ UNCHANGED gone
    BY <1>1, <1>8 DEF StoreFails, End
  <2>4. QED
    BY <1>3, <2>1, <2>2, <2>3
<1>9. ASSUME NEW l \in loads, List(l) PROVE RecoversInv'
  <2>1. /\ UNCHANGED <<connected, stored, gone, faults>>
        /\ loads' = loads \ {l} /\ l.at = "list"
    BY <1>9 DEF List, End
  <2>2. Scanning(connected) => Scanning(connected)'
    BY <2>1 DEF Scanning
  <2>3. QED
    BY <1>0, <2>1, <2>2 DEF RecoversInv
<1>10. ASSUME NEW l \in loads, ReadFails(l) PROVE RecoversInv'
  <2>1. faults' # 0 /\ UNCHANGED <<stored, gone>>
    BY <1>1, <1>10 DEF ReadFails, End
  <2>2. QED
    BY <1>0, <2>1 DEF RecoversInv
<1>11. ASSUME NEW a \in adding, Add(a) PROVE RecoversInv'
  <2>1. /\ stored' = stored \cup {a.id} /\ gone' = gone \ {a.id}
        /\ UNCHANGED <<connected, faults>>
        /\ BeginLoad(a.owner, stored \cup {a.id})
    BY <1>11 DEF Add
  <2>2. Scanning(connected) => Scanning(connected)'
    BY <2>1, BeginLoadScans DEF Scanning
  <2>3. QED
    BY <1>0, <2>1, <2>2 DEF RecoversInv
<1>12. ASSUME NEW id \in Ids, onRemove(id) PROVE RecoversInv'
  <2>1. /\ stored' = stored \ {id} /\ gone' = gone \cup {id}
        /\ UNCHANGED <<connected, faults>>
        /\ BeginLoad(connected, stored \ {id})
    BY <1>12 DEF onRemove
  <2>2. connected' # NoOwner => Scanning(connected)'
    BY <2>1, BeginLoadScans DEF Scanning
  <2>3. QED
    BY <1>0, <2>1, <2>2 DEF RecoversInv
<1>13. ASSUME Mount PROVE RecoversInv'
  <2>1. connected' = NoOwner /\ UNCHANGED <<stored, gone>>
    BY <1>13 DEF Mount
  <2>2. QED
    BY <1>0, <2>1 DEF RecoversInv
<1>14. ASSUME NEW o \in Owners, LeftLoadEnds(o) PROVE RecoversInv'
  <2>1. PICK some \in SUBSET (OwnedBy(o) \cap Recent) :
          /\ stored' = stored \cup some
          /\ faults' = faults \/ faults' # 0
    BY <1>1, <1>14, ScansFindRecent DEF LeftLoadEnds
  <2>2. UNCHANGED <<connected, gone, loads>>
    BY <1>14 DEF LeftLoadEnds
  <2>3. some \subseteq Recent /\ (Scanning(connected) => Scanning(connected)')
    BY <2>1, <2>2 DEF Scanning
  <2>4. QED
    BY <1>2, <2>1, <2>2, <2>3
<1>15. ASSUME NEW a \in leftAdding, LeftAdd(a) PROVE RecoversInv'
  <2>1. /\ stored' = stored \cup {a.id} /\ gone' = gone \ {a.id}
        /\ UNCHANGED <<connected, faults, loads>>
    BY <1>15 DEF LeftAdd
  <2>2. Scanning(connected) => Scanning(connected)'
    BY <2>1 DEF Scanning
  <2>3. QED
    BY <1>0, <2>1, <2>2 DEF RecoversInv
<1>16. ASSUME NEW a, AddEnds(a) \/ LeftAddEnds(a) PROVE RecoversInv'
  <2>1. UNCHANGED <<connected, stored, gone, loads>>
    BY <1>16 DEF AddEnds, LeftAddEnds, pageVars
  <2>2. faults' = faults \/ faults' # 0
    BY <1>1, <1>16 DEF AddEnds, LeftAddEnds
  <2>3. QED
    BY <1>4, <2>1, <2>2
<1>17. ASSUME NEW kind, NEW id, ClickAdd(kind, id) PROVE RecoversInv'
  BY <1>4, <1>17 DEF ClickAdd
<1>18. ASSUME UNCHANGED vars PROVE RecoversInv'
  BY <1>4, <1>18 DEF vars, pageVars
<1>19. QED
  BY <1>5, <1>6, <1>7, <1>8, <1>9, <1>10, <1>11, <1>12, <1>13, <1>14, <1>15,
     <1>16, <1>17, <1>18 DEF Next, DiscoverEnds, ListEnds, Reload, Navigate

\* discoverOwnedIdentities gives an owner back whatever both scans can see, for
\* any windows and any number of loads, here and on pages that were left, once
\* no load is scanning and if no call failed; and loads bring back nothing that
\* was removed but that.
THEOREM RegistryRecoversHolds == Spec => []RegistryRecovers
<1>1. Init => RecoversInv
  BY DEF Init, RecoversInv
<1>2. RecoversInv => RegistryRecovers
  BY DEF RecoversInv, RegistryRecovers, Scanning
<1>3. QED
  BY <1>1, <1>2, RecoversStep, TypeCorrect, PTL DEF Spec

-----------------------------------------------------------------------------
\* The inductive form of SettledList.  While a load has yet to get to the
\* registry nothing is known; after that, the last load that got there holds
\* what is stored now, and so does the list it has set.
NoneDiscovering == \A l \in loads : l.at # "discover"

LastHoldsRegistry ==
  /\ \A l \in loads : l.n = registered => l.ids = stored
  /\ shown.by = registered /\ shown.whole => allWallets = stored

NumbersBounded ==
  /\ \A l \in loads : l.n <= registered
  /\ shown.by <= registered

SettledInv == NumbersBounded /\ (NoneDiscovering => LastHoldsRegistry)

\* A load that begins takes the registry with it, or has yet to get there.
LEMMA BeginLoadSettled ==
  ASSUME TypeOK, SettledInv, NEW o, BeginLoad(o, stored'),
         UNCHANGED <<allWallets, shown>>
  PROVE  SettledInv'
<1>1. /\ registered \in Nat /\ shown.by \in Nat
      /\ \A l \in loads : l.n \in Nat
  BY DEF TypeOK, Load
<1>2. CASE o = NoOwner
  <2> DEFINE m == Listing(started + 1, registered + 1, o, stored')
  <2>1. loads' = loads \cup {m} /\ registered' = registered + 1
    BY <1>2 DEF BeginLoad
  <2>2. m.n = registered + 1 /\ m.ids = stored' /\ m.at = "list"
    BY DEF Listing
  <2> HIDE DEF m
  <2>3. \A l \in loads : l.n # registered' /\ l.n <= registered'
    BY <1>1, <2>1 DEF SettledInv, NumbersBounded
  <2>4. shown'.by # registered' /\ shown'.by <= registered'
    BY <1>1, <2>1 DEF SettledInv, NumbersBounded
  <2>5. m.n <= registered'
    BY <1>1, <2>1, <2>2
  <2>6. QED
    BY <2>1, <2>2, <2>3, <2>4, <2>5
       DEF SettledInv, NumbersBounded, LastHoldsRegistry
<1>3. CASE o # NoOwner
  <2> DEFINE m == Discovering(started + 1, o)
  <2>1. loads' = loads \cup {m} /\ registered' = registered
    BY <1>3 DEF BeginLoad
  <2>2. m.n = 0 /\ m.at = "discover"
    BY DEF Discovering
  <2> HIDE DEF m
  <2>3. ~ NoneDiscovering'
    BY <2>1, <2>2 DEF NoneDiscovering
  <2>4. NumbersBounded'
    BY <1>1, <2>1, <2>2 DEF SettledInv, NumbersBounded
  <2>5. QED
    BY <2>3, <2>4 DEF SettledInv
<1>4. QED
  BY <1>2, <1>3

LEMMA SettledStep == TypeOK /\ SettledInv /\ [Next]_vars => SettledInv'
<1> SUFFICES ASSUME TypeOK, SettledInv, [Next]_vars PROVE SettledInv'
  OBVIOUS
<1>0. /\ registered \in Nat /\ shown.by \in Nat
      /\ \A l \in loads : l.n \in Nat
  BY DEF TypeOK, Load
<1>1. ASSUME NEW o, OwnerChanges(o) PROVE SettledInv'
  BY <1>1, BeginLoadSettled DEF OwnerChanges
<1>2. ASSUME NEW a \in adding, Add(a) PROVE SettledInv'
  BY <1>2, BeginLoadSettled DEF Add
<1>3. ASSUME NEW id \in Ids, onRemove(id) PROVE SettledInv'
  BY <1>3, BeginLoadSettled DEF onRemove
<1>4. ASSUME NEW l \in loads, NEW found, Discovered(l, found) PROVE SettledInv'
  <2> DEFINE m == Listing(l.k, registered + 1, l.owner, stored \cup found)
  <2>1. /\ loads' = (loads \ {l}) \cup {m} /\ registered' = registered + 1
        /\ stored' = stored \cup found /\ UNCHANGED <<allWallets, shown>>
    BY <1>4 DEF Discovered
  <2>2. m.n = registered + 1 /\ m.ids = stored \cup found
    BY DEF Listing
  <2> HIDE DEF m
  <2>3. \A j \in loads : j.n # registered' /\ j.n <= registered'
    BY <1>0, <2>1 DEF SettledInv, NumbersBounded
  <2>4. shown'.by # registered' /\ shown'.by <= registered'
    BY <1>0, <2>1 DEF SettledInv, NumbersBounded
  <2>5. m.n <= registered'
    BY <1>0, <2>1, <2>2
  <2>6. QED
    BY <2>1, <2>2, <2>3, <2>4, <2>5
       DEF SettledInv, NumbersBounded, LastHoldsRegistry
<1>5. ASSUME NEW l \in loads, List(l) PROVE SettledInv'
  <2>1. /\ loads' = loads \ {l} /\ allWallets' = l.ids /\ l.at = "list"
        /\ shown' = [by |-> l.n, whole |-> TRUE]
        /\ UNCHANGED <<registered, stored>>
    BY <1>5 DEF List, End
  <2>2. NumbersBounded'
    BY <2>1 DEF SettledInv, NumbersBounded
  <2>3. NoneDiscovering' => NoneDiscovering
    BY <2>1 DEF NoneDiscovering
  <2>4. LastHoldsRegistry => LastHoldsRegistry'
    BY <2>1 DEF LastHoldsRegistry
  <2>5. QED
    BY <2>2, <2>3, <2>4 DEF SettledInv
<1>6. ASSUME NEW l \in loads, ReadFails(l) PROVE SettledInv'
  <2>1. /\ loads' = loads \ {l} /\ l.at = "list"
        /\ shown' = [by |-> l.n, whole |-> FALSE]
        /\ UNCHANGED <<registered, stored>>
    BY <1>6 DEF ReadFails, End
  <2>2. NumbersBounded'
    BY <2>1 DEF SettledInv, NumbersBounded
  <2>3. NoneDiscovering' => NoneDiscovering
    BY <2>1 DEF NoneDiscovering
  <2>4. LastHoldsRegistry => LastHoldsRegistry'
    BY <2>1 DEF LastHoldsRegistry
  <2>5. QED
    BY <2>2, <2>3, <2>4 DEF SettledInv
<1>7. ASSUME NEW l \in loads, StoreFails(l) PROVE SettledInv'
  <2>1. /\ loads' = loads \ {l} /\ registered' = registered + 1
        /\ shown' = [by |-> registered + 1, whole |-> FALSE]
    BY <1>7 DEF StoreFails, End
  <2>2. \A j \in loads : j.n # registered' /\ j.n <= registered'
    BY <1>0, <2>1 DEF SettledInv, NumbersBounded
  <2>3. NumbersBounded' /\ LastHoldsRegistry'
    BY <1>0, <2>1, <2>2 DEF NumbersBounded, LastHoldsRegistry
  <2>4. QED
    BY <2>3 DEF SettledInv
<1>8. ASSUME UNCHANGED <<loads, registered, stored, shown, allWallets>>
      PROVE  SettledInv'
  BY <1>8 DEF SettledInv, NumbersBounded, NoneDiscovering, LastHoldsRegistry
<1>9. ASSUME NEW kind, NEW id, ClickAdd(kind, id) PROVE SettledInv'
  BY <1>8, <1>9 DEF ClickAdd
<1>10. ASSUME NEW a \in adding, AddEnds(a) PROVE SettledInv'
  BY <1>8, <1>10 DEF AddEnds
<1>11. ASSUME Mount PROVE SettledInv'
  <2> DEFINE m == Listing(started + 1, 1, NoOwner, stored)
  <2>1. /\ loads' = {m} /\ registered' = 1 /\ stored' = stored
        /\ shown' = [by |-> 0, whole |-> TRUE]
    BY <1>11 DEF Mount
  <2>2. m.n = 1 /\ m.ids = stored
    BY DEF Listing
  <2> HIDE DEF m
  <2>3. QED
    BY <2>1, <2>2 DEF SettledInv, NumbersBounded, LastHoldsRegistry
<1>12. ASSUME UNCHANGED vars PROVE SettledInv'
  BY <1>8, <1>12 DEF vars, pageVars
<1>13. ASSUME NEW l \in loads, Discover(l) \/ ScanFails(l) PROVE SettledInv'
  BY <1>4, <1>13 DEF Discover, ScanFails
\* A left page that writes makes every list of this one late.
<1>14. ASSUME registered' = registered + 1, UNCHANGED <<loads, shown>>
       PROVE  SettledInv'
  <2>1. \A l \in loads : l.n # registered' /\ l.n <= registered'
    BY <1>0, <1>14 DEF SettledInv, NumbersBounded
  <2>2. shown.by # registered' /\ shown.by <= registered'
    BY <1>0, <1>14 DEF SettledInv, NumbersBounded
  <2>3. QED
    BY <1>14, <2>1, <2>2 DEF SettledInv, NumbersBounded, LastHoldsRegistry
<1>15. ASSUME NEW o, LeftLoadEnds(o) PROVE SettledInv'
  BY <1>14, <1>15 DEF LeftLoadEnds
<1>16. ASSUME NEW a, LeftAdd(a) PROVE SettledInv'
  BY <1>14, <1>16 DEF LeftAdd
<1>17. ASSUME NEW a, LeftAddEnds(a) PROVE SettledInv'
  BY <1>8, <1>17 DEF LeftAddEnds, pageVars
<1>18. QED
  BY <1>1, <1>2, <1>3, <1>5, <1>6, <1>7, <1>9, <1>10, <1>11, <1>12, <1>13,
     <1>15, <1>16, <1>17 DEF Next, DiscoverEnds, ListEnds, Reload, Navigate

\* A quiet dashboard shows what the browser tracks, unless answers overtook
\* each other or a read failed: whatever the user clicked, whichever owner
\* connected and however many loads were in flight together.
THEOREM SettledListHolds == Spec => []SettledList
<1>1. Init => SettledInv
  <2> SUFFICES ASSUME Init PROVE SettledInv
    OBVIOUS
  <2> DEFINE m == Listing(1, 1, NoOwner, stored)
  <2>1. m.n = 1 /\ m.ids = stored
    BY DEF Listing
  <2>2. /\ loads = {m} /\ registered = 1
        /\ shown = [by |-> 0, whole |-> TRUE]
    BY DEF Init
  <2> HIDE DEF m
  <2>3. QED
    BY <2>1, <2>2 DEF SettledInv, NumbersBounded, LastHoldsRegistry
<1>2. SettledInv => SettledList
  BY DEF SettledInv, NoneDiscovering, LastHoldsRegistry, SettledList
<1>3. QED
  BY <1>1, <1>2, SettledStep, TypeCorrect, PTL DEF Spec

-----------------------------------------------------------------------------
(***************************************************************************)
(* The feed.                                                               *)
(***************************************************************************)
\* Lists are equal when they have the same elements in the same places.
LEMMA SameList ==
  ASSUME NEW S, NEW l \in Seq(S), NEW m \in Seq(S), Len(l) = Len(m),
         \A i \in 1 .. Len(l) : l[i] = m[i]
  PROVE  l = m
OBVIOUS

\* The newest n of a list: its length, and its elements.
LEMMA NewestPrefix ==
  ASSUME NEW S, NEW list \in Seq(S), NEW n \in Nat
  PROVE  /\ Newest(list, n) \in Seq(S)
         /\ Len(Newest(list, n)) = IF Len(list) < n THEN Len(list) ELSE n
         /\ \A i \in 1 .. Len(Newest(list, n)) : Newest(list, n)[i] = list[i]
<1> DEFINE m == IF Len(list) < n THEN Len(list) ELSE n
<1>1. m \in Nat /\ m <= Len(list)
  OBVIOUS
<1>2. Newest(list, n) = SubSeq(list, 1, m)
  BY DEF Newest
<1> HIDE DEF m
<1>3. /\ SubSeq(list, 1, m) \in Seq(S)
      /\ Len(SubSeq(list, 1, m)) = m
      /\ \A i \in 1 .. m : SubSeq(list, 1, m)[i] = list[i]
  BY <1>1
<1>4. QED
  BY <1>2, <1>3 DEF m

\* A list of newest trades that gets one more is the list of all of them, cut.
LEMMA NewestCons ==
  ASSUME NEW S, NEW t \in S, NEW list \in Seq(S), NEW n \in Nat \ {0}
  PROVE  Newest(<<t>> \o Newest(list, n), n) = Newest(<<t>> \o list, n)
<1> DEFINE cut == Newest(list, n)
           left == Newest(<<t>> \o cut, n)
           right == Newest(<<t>> \o list, n)
<1>1. /\ cut \in Seq(S) /\ Len(cut) = IF Len(list) < n THEN Len(list) ELSE n
      /\ \A i \in 1 .. Len(cut) : cut[i] = list[i]
  BY NewestPrefix
<1> HIDE DEF cut
<1>2. /\ <<t>> \o cut \in Seq(S) /\ Len(<<t>> \o cut) = Len(cut) + 1
      /\ (<<t>> \o cut)[1] = t
      /\ \A i \in 2 .. Len(cut) + 1 : (<<t>> \o cut)[i] = cut[i - 1]
  BY <1>1
<1>3. /\ <<t>> \o list \in Seq(S) /\ Len(<<t>> \o list) = Len(list) + 1
      /\ (<<t>> \o list)[1] = t
      /\ \A i \in 2 .. Len(list) + 1 : (<<t>> \o list)[i] = list[i - 1]
  OBVIOUS
<1>4. /\ left \in Seq(S)
      /\ Len(left) = IF Len(cut) + 1 < n THEN Len(cut) + 1 ELSE n
      /\ \A i \in 1 .. Len(left) : left[i] = (<<t>> \o cut)[i]
  BY <1>2, NewestPrefix
<1>5. /\ right \in Seq(S)
      /\ Len(right) = IF Len(list) + 1 < n THEN Len(list) + 1 ELSE n
      /\ \A i \in 1 .. Len(right) : right[i] = (<<t>> \o list)[i]
  BY <1>3, NewestPrefix
<1> HIDE DEF left, right
<1>6. Len(left) = Len(right) /\ Len(left) <= Len(cut) + 1
      /\ Len(left) <= Len(list) + 1
  BY <1>1, <1>4, <1>5
<1>7. \A i \in 1 .. Len(left) : left[i] = right[i]
  <2> SUFFICES ASSUME NEW i \in 1 .. Len(left) PROVE left[i] = right[i]
    OBVIOUS
  <2>1. CASE i = 1
    BY <1>2, <1>3, <1>4, <1>5, <1>6, <2>1
  <2>2. CASE i # 1
    <3>1. i \in 2 .. Len(cut) + 1 /\ i \in 2 .. Len(list) + 1
          /\ i - 1 \in 1 .. Len(cut)
      BY <1>1, <1>4, <1>6, <2>2
    <3>2. left[i] = cut[i - 1] /\ right[i] = list[i - 1]
      BY <1>2, <1>3, <1>4, <1>5, <1>6, <3>1
    <3>3. QED
      BY <1>1, <3>1, <3>2
  <2>3. QED
    BY <2>1, <2>2
<1>8. left = right
  BY <1>4, <1>5, <1>6, <1>7, SameList
<1>9. QED
  BY <1>8 DEF left, right, cut

\* Read backwards, what was added last comes first.
LEMMA ReverseAppend ==
  ASSUME NEW S, NEW t \in S, NEW list \in Seq(S)
  PROVE  /\ Reverse(list) \in Seq(S)
         /\ Reverse(Append(list, t)) = <<t>> \o Reverse(list)
<1>1. /\ Reverse(list) \in Seq(S) /\ Len(Reverse(list)) = Len(list)
      /\ \A i \in 1 .. Len(list) : Reverse(list)[i] = list[Len(list) - i + 1]
  BY DEF Reverse
<1> DEFINE more == Append(list, t)
<1>2. /\ more \in Seq(S) /\ Len(more) = Len(list) + 1
      /\ more[Len(list) + 1] = t
      /\ \A i \in 1 .. Len(list) : more[i] = list[i]
  OBVIOUS
<1> HIDE DEF more
<1>3. /\ Reverse(more) \in Seq(S) /\ Len(Reverse(more)) = Len(list) + 1
      /\ \A i \in 1 .. Len(list) + 1 : Reverse(more)[i] = more[Len(list) - i + 2]
  BY <1>2 DEF Reverse
<1>4. /\ <<t>> \o Reverse(list) \in Seq(S)
      /\ Len(<<t>> \o Reverse(list)) = Len(list) + 1
      /\ (<<t>> \o Reverse(list))[1] = t
      /\ \A i \in 2 .. Len(list) + 1 :
           (<<t>> \o Reverse(list))[i] = Reverse(list)[i - 1]
  BY <1>1
<1>5. ASSUME NEW i \in 1 .. Len(list) + 1
      PROVE  Reverse(more)[i] = (<<t>> \o Reverse(list))[i]
  <2>1. CASE i = 1
    BY <1>2, <1>3, <1>4, <2>1
  <2>2. CASE i # 1
    <3>1. /\ i \in 2 .. Len(list) + 1 /\ i - 1 \in 1 .. Len(list)
          /\ Len(list) - i + 2 \in 1 .. Len(list)
          /\ Len(list) - (i - 1) + 1 = Len(list) - i + 2
      BY <2>2
    <3>2. Reverse(more)[i] = list[Len(list) - i + 2]
      BY <1>2, <1>3, <3>1
    <3>3. Reverse(list)[i - 1] = list[Len(list) - i + 2]
      BY <1>1, <3>1
    <3>4. QED
      BY <1>4, <3>1, <3>2, <3>3
  <2>3. QED
    BY <2>1, <2>2
<1>6. Reverse(more) = <<t>> \o Reverse(list)
  <2> DEFINE l == Reverse(more)
             m == <<t>> \o Reverse(list)
  <2>1. l \in Seq(S) /\ m \in Seq(S) /\ Len(l) = Len(m)
    BY <1>3, <1>4
  <2>2. \A i \in 1 .. Len(l) : l[i] = m[i]
    BY <1>3, <1>5
  <2> HIDE DEF l, m
  <2>3. l = m
    BY <2>1, <2>2, SameList
  <2>4. QED
    BY <2>3 DEF l, m
<1>7. QED
  BY <1>1, <1>6 DEF more

-----------------------------------------------------------------------------
\* The inductive invariant: FeedIsRecent, for a history of trades.
RecentInv ==
  /\ count \in 0 .. MaxTrades
  /\ accepted \in Seq(Trade)
  /\ FeedIsRecent

LEMMA RecentInit == FeedInit => RecentInv
<1> SUFFICES ASSUME FeedInit PROVE RecentInv
  OBVIOUS
<1>1. accepted = <<>> /\ buffer = <<>> /\ count = 0
  BY DEF FeedInit
<1>2. Reverse(<<>>) = <<>>
  BY DEF Reverse
<1>3. Newest(<<>>, MAX) = <<>>
  BY TradeFeedAssumption DEF Newest
<1>4. QED
  BY <1>1, <1>2, <1>3, TradeFeedAssumption DEF RecentInv, FeedIsRecent

LEMMA RecentStep == RecentInv /\ [FeedNext]_feedVars => RecentInv'
<1> SUFFICES ASSUME RecentInv, [FeedNext]_feedVars PROVE RecentInv'
  OBVIOUS
<1>1. ASSUME NEW id \in Identities, PostTrade(id) PROVE RecentInv'
  <2> DEFINE t == [n |-> count + 1, identityId |-> id]
  <2>1. count + 1 \in 1 .. MaxTrades
    BY <1>1, TradeFeedAssumption DEF PostTrade, RecentInv
  <2>2. t \in Trade
    BY <2>1 DEF Trade
  <2>3. /\ buffer' = Newest(<<t>> \o buffer, MAX)
        /\ accepted' = Append(accepted, t) /\ count' = count + 1
    BY <1>1 DEF PostTrade, AddTrade
  <2> HIDE DEF t
  <2>4. MAX \in Nat \ {0} /\ accepted \in Seq(Trade)
    BY TradeFeedAssumption DEF RecentInv
  <2>5. /\ Reverse(accepted) \in Seq(Trade)
        /\ Reverse(accepted') = <<t>> \o Reverse(accepted)
    BY <2>2, <2>3, <2>4, ReverseAppend
  <2>6. buffer' = Newest(<<t>> \o Newest(Reverse(accepted), MAX), MAX)
    BY <2>3 DEF RecentInv, FeedIsRecent
  <2>7. buffer' = Newest(Reverse(accepted'), MAX)
    BY <2>2, <2>4, <2>5, <2>6, NewestCons
  <2>8. accepted' \in Seq(Trade) /\ count' \in 0 .. MaxTrades
    BY <2>1, <2>2, <2>3, <2>4
  <2>9. QED
    BY <2>7, <2>8 DEF RecentInv, FeedIsRecent
<1>2. ASSUME RestartBackend PROVE RecentInv'
  <2>1. accepted' = <<>> /\ buffer' = <<>> /\ count' = count
    BY <1>2 DEF RestartBackend
  <2>2. Reverse(<<>>) = <<>>
    BY DEF Reverse
  <2>3. Newest(<<>>, MAX) = <<>>
    BY TradeFeedAssumption DEF Newest
  <2>4. QED
    BY <2>1, <2>2, <2>3 DEF RecentInv, FeedIsRecent
<1>3. ASSUME UNCHANGED serverVars PROVE RecentInv'
  BY <1>3 DEF serverVars, RecentInv, FeedIsRecent
<1>4. ASSUME NEW p \in polls, GetTrades(p) \/ Apply(p) \/ PollFails(p)
      PROVE  UNCHANGED serverVars
  BY <1>4 DEF GetTrades, Apply, PollFails
<1>5. Effect \/ Interval \/ VisibilityChange => UNCHANGED serverVars
  BY DEF Effect, Interval, VisibilityChange
<1>6. ASSUME NEW ids, PageLists(ids) PROVE UNCHANGED serverVars
  BY <1>6 DEF PageLists
<1>7. UNCHANGED feedVars => UNCHANGED serverVars
  BY DEF feedVars
<1>8. QED
  BY <1>1, <1>2, <1>3, <1>4, <1>5, <1>6, <1>7 DEF FeedNext, Answered, Applied

\* The backend always lists exactly the newest trades it has accepted since it
\* started, newest first, up to its capacity: none is lost, repeated or out of
\* order, whatever the capacity and the history.
THEOREM FeedIsRecentHolds == FeedSpec => []FeedIsRecent
<1>1. RecentInv => FeedIsRecent
  BY DEF RecentInv
<1>2. QED
  BY <1>1, RecentInit, RecentStep, PTL DEF FeedSpec

-----------------------------------------------------------------------------
(***************************************************************************)
(* The type of what the component shows.  Scoped is a function defined by  *)
(* recursion on the list: that there is one is shown first, as the prover  *)
(* has no induction for it, from the least prefix that would have none.    *)
(***************************************************************************)
LEMMA LeastOf ==
  ASSUME NEW N \in SUBSET Nat, N # {}
  PROVE  \E n \in N : \A m \in N : n <= m
<1>1. IsWellFoundedOn({p \in Nat \X Nat : p[1] < p[2]}, Nat)
  BY NatLessThanWellFounded DEF OpToRel
<1>2. PICK n \in N :
        \A m \in N : ~ (<<m, n>> \in {p \in Nat \X Nat : p[1] < p[2]})
  BY <1>1, WFMin
<1>3. \A m \in N : ~ (m < n)
  BY <1>2
<1>4. QED
  BY <1>3

\* f gives the trades kept of the first k of a list, for each k up to n.
KeptAt(list, ids, f, k) ==
  IF k = 0 THEN <<>>
  ELSE IF list[k].identityId \in ids THEN Append(f[k - 1], list[k])
  ELSE f[k - 1]

Keeps(list, ids, n, f) == f = [k \in 0 .. n |-> KeptAt(list, ids, f, k)]

LEMMA KeepsExists ==
  ASSUME NEW list, NEW ids, NEW n \in Nat
  PROVE  \E f : Keeps(list, ids, n, f)
<1> DEFINE T == {m \in Nat : ~ \E f : Keeps(list, ids, m, f)}
<1>1. SUFFICES ASSUME T # {} PROVE FALSE
  OBVIOUS
<1>2. PICK m \in T : \A l \in T : m <= l
  <2>1. T \in SUBSET Nat
    OBVIOUS
  <2> HIDE DEF T
  <2>2. QED
    BY <1>1, <2>1, LeastOf
<1>3. m \in Nat /\ ~ \E f : Keeps(list, ids, m, f)
  OBVIOUS
<1>4. CASE m = 0
  <2> DEFINE f == [k \in 0 .. 0 |-> <<>>]
  <2>1. \A k \in 0 .. 0 : KeptAt(list, ids, f, k) = <<>>
    BY DEF KeptAt
  <2>2. f = [k \in 0 .. 0 |-> KeptAt(list, ids, f, k)]
    BY <2>1
  <2> HIDE DEF f
  <2>3. Keeps(list, ids, 0, f)
    BY <2>2 DEF Keeps
  <2>4. QED
    BY <1>3, <1>4, <2>3
<1>5. CASE m # 0
  <2>1. m - 1 \in Nat /\ ~ (m <= m - 1)
    BY <1>3, <1>5
  <2>2. m - 1 \notin T
    <3> HIDE DEF T
    <3>1. QED
      BY <1>2, <2>1
  <2>3. PICK g : Keeps(list, ids, m - 1, g)
    BY <2>1, <2>2
  <2> DEFINE f == [k \in 0 .. m |-> IF k < m THEN g[k] ELSE KeptAt(list, ids, g, m)]
  <2>4. \A k \in 0 .. m : k < m => k \in 0 .. m - 1
    BY <1>3
  <2>5. g = [k \in 0 .. m - 1 |-> KeptAt(list, ids, g, k)]
    BY <2>3 DEF Keeps
  <2>6. \A k \in 0 .. m : k < m => f[k] = g[k]
    OBVIOUS
  <2>7. \A k \in 0 .. m : KeptAt(list, ids, f, k) = KeptAt(list, ids, g, k)
    <3> SUFFICES ASSUME NEW k \in 0 .. m
                 PROVE  KeptAt(list, ids, f, k) = KeptAt(list, ids, g, k)
      OBVIOUS
    <3>1. k # 0 => k - 1 \in 0 .. m /\ k - 1 < m
      BY <1>3
    <3>2. k # 0 => f[k - 1] = g[k - 1]
      BY <2>6, <3>1
    <3> HIDE DEF f
    <3>3. QED
      BY <3>2 DEF KeptAt
  <2>8. \A k \in 0 .. m : f[k] = KeptAt(list, ids, f, k)
    <3> SUFFICES ASSUME NEW k \in 0 .. m PROVE f[k] = KeptAt(list, ids, f, k)
      OBVIOUS
    <3>1. CASE k < m
      <4>1. f[k] = g[k]
        BY <2>6, <3>1
      <4> HIDE DEF f
      <4>2. k \in 0 .. m - 1
        BY <2>4, <3>1
      <4>3. g[k] = KeptAt(list, ids, g, k)
        BY <2>5, <4>2
      <4>4. QED
        BY <2>7, <4>1, <4>3
    <3>2. CASE ~ (k < m)
      <4>1. k = m
        BY <1>3, <3>2
      <4>2. f[k] = KeptAt(list, ids, g, k)
        BY <4>1
      <4> HIDE DEF f
      <4>3. QED
        BY <2>7, <4>2
    <3>3. QED
      BY <3>1, <3>2
  <2>9. f = [k \in 0 .. m |-> f[k]]
    OBVIOUS
  <2> HIDE DEF f
  <2>10. Keeps(list, ids, m, f)
    BY <2>8, <2>9 DEF Keeps
  <2>11. QED
    BY <1>3, <2>10
<1>6. QED
  BY <1>4, <1>5

LEMMA KeepsTyped ==
  ASSUME NEW S, NEW list \in Seq(S), NEW ids, NEW n \in Nat, n = Len(list),
         NEW f, Keeps(list, ids, n, f)
  PROVE  f[n] \in Seq(S) /\ Len(f[n]) <= n
<1> DEFINE T == {k \in 0 .. n : ~ (f[k] \in Seq(S) /\ Len(f[k]) <= k)}
<1>1. SUFFICES ASSUME T # {} PROVE FALSE
  <2>1. n \notin T
    BY <1>1
  <2>2. QED
    BY <2>1
<1>2. PICK k \in T : \A l \in T : k <= l
  <2>1. T \in SUBSET Nat
    OBVIOUS
  <2> HIDE DEF T
  <2>2. QED
    BY <1>1, <2>1, LeastOf
<1>3. k \in 0 .. n /\ ~ (f[k] \in Seq(S) /\ Len(f[k]) <= k)
  OBVIOUS
<1>4. f[k] = KeptAt(list, ids, f, k)
  BY <1>3 DEF Keeps
<1>5. k # 0
  BY <1>3, <1>4 DEF KeptAt
<1>6. k \in 1 .. n /\ k - 1 \in 0 .. n /\ ~ (k <= k - 1)
  BY <1>3, <1>5
<1>7. f[k - 1] \in Seq(S) /\ Len(f[k - 1]) <= k - 1
  <2>1. k - 1 \notin T
    <3> HIDE DEF T
    <3>1. QED
      BY <1>2, <1>6
  <2>2. QED
    BY <1>6, <2>1
<1>8. list[k] \in S
  BY <1>6
<1>9. f[k] = Append(f[k - 1], list[k]) \/ f[k] = f[k - 1]
  BY <1>4, <1>5 DEF KeptAt
<1> HIDE DEF T
<1>10. f[k] \in Seq(S) /\ Len(f[k]) <= k
  <2> DEFINE l == f[k - 1]
  <2>1. l \in Seq(S) /\ Len(l) <= k - 1 /\ Len(l) \in Nat
    BY <1>7
  <2>2. f[k] = Append(l, list[k]) \/ f[k] = l
    BY <1>9
  <2> HIDE DEF l
  <2>3. Append(l, list[k]) \in Seq(S) /\ Len(Append(l, list[k])) = Len(l) + 1
    BY <1>8, <2>1
  <2>4. k \in Nat /\ k - 1 \in Nat /\ k - 1 <= k /\ (k - 1) + 1 = k
    BY <1>6
  <2>5. CASE f[k] = l
    <3>1. Len(l) <= k
      BY <2>1, <2>4
    <3>2. QED
      BY <2>1, <2>5, <3>1, Zenon
  <2>6. CASE f[k] = Append(l, list[k])
    <3> DEFINE a == Append(l, list[k])
    <3>1. a \in Seq(S) /\ Len(a) = Len(l) + 1
      BY <2>3
    <3> HIDE DEF a
    <3>2. Len(a) <= k
      BY <2>1, <2>4, <3>1
    <3>3. f[k] = a
      BY <2>6 DEF a
    <3>4. QED
      BY <3>1, <3>2, <3>3, Zenon
  <2>7. QED
    BY <2>2, <2>5, <2>6
<1>11. QED
  BY <1>3, <1>10

\* A filtered list has members of the list, and no more of them.
LEMMA ScopedTyped ==
  ASSUME NEW S, NEW list \in Seq(S), NEW ids
  PROVE  Scoped(list, ids) \in Seq(S) /\ Len(Scoped(list, ids)) <= Len(list)
<1> DEFINE n == Len(list)
           kept == CHOOSE f : f = [k \in 0 .. n |-> KeptAt(list, ids, f, k)]
<1>1. n \in Nat
  OBVIOUS
<1>2. Scoped(list, ids) = kept[n]
  BY DEF Scoped, KeptAt
<1>3. Keeps(list, ids, n, kept)
  <2>1. \E f : f = [k \in 0 .. n |-> KeptAt(list, ids, f, k)]
    BY <1>1, KeepsExists DEF Keeps
  <2>2. kept = [k \in 0 .. n |-> KeptAt(list, ids, kept, k)]
    BY <2>1
  <2>3. QED
    BY <2>2 DEF Keeps
<1> HIDE DEF kept
<1>4. QED
  BY <1>1, <1>2, <1>3, KeepsTyped

-----------------------------------------------------------------------------
LEMMA BoundedLists ==
  ASSUME NEW S, NEW n \in Nat
  PROVE  \A l : l \in BoundedSeq(S, n) <=> l \in Seq(S) /\ Len(l) <= n
<1>1. ASSUME NEW l \in BoundedSeq(S, n) PROVE l \in Seq(S) /\ Len(l) <= n
  <2>1. PICK m \in 0 .. n : l \in [1 .. m -> S]
    BY <1>1 DEF BoundedSeq, SeqOf
  <2>2. m \in Nat /\ m <= n
    BY <2>1
  <2>3. l \in Seq(S) /\ Len(l) = m
    BY <2>1, <2>2
  <2>4. QED
    BY <2>2, <2>3
<1>2. ASSUME NEW l \in Seq(S), Len(l) <= n PROVE l \in BoundedSeq(S, n)
  <2>1. Len(l) \in 0 .. n /\ l \in [1 .. Len(l) -> S]
    BY <1>2
  <2>2. QED
    BY <2>1 DEF BoundedSeq, SeqOf
<1>3. QED
  BY <1>1, <1>2

LEMMA NoTrades ==
  ASSUME NEW S, NEW n \in Nat
  PROVE  <<>> \in BoundedSeq(S, n)
<1> DEFINE l == <<>>
<1>1. l \in Seq(S) /\ Len(l) = 0
  OBVIOUS
<1> HIDE DEF l
<1>2. l \in Seq(S) /\ Len(l) <= n
  BY <1>1
<1>3. l \in BoundedSeq(S, n)
  BY <1>2, BoundedLists
<1>4. QED
  BY <1>3 DEF l

\* The newest of a list are members of it, no more than asked for.
LEMMA NewestTyped ==
  ASSUME NEW S, NEW list \in Seq(S), NEW n \in Nat
  PROVE  Newest(list, n) \in BoundedSeq(S, n)
<1>1. Newest(list, n) \in Seq(S) /\ Len(Newest(list, n)) <= n
  BY NewestPrefix
<1>2. QED
  BY <1>1, BoundedLists

\* The inductive invariant: a history cannot be longer than all the trades that
\* were ever recorded, so it stays within the bound on them.
FeedTypeInv == FeedTypeOK /\ Len(accepted) <= count

LEMMA FeedTypeInit == FeedInit => FeedTypeInv
<1> SUFFICES ASSUME FeedInit PROVE FeedTypeInv
  OBVIOUS
<1>1. MAX \in Nat /\ Limit \in Nat /\ MaxTrades \in Nat /\ MaxScopes \in Nat
  BY TradeFeedAssumption
<1>2. /\ <<>> \in BoundedSeq(Trade, MAX) /\ <<>> \in BoundedSeq(Trade, Limit)
      /\ <<>> \in BoundedSeq(Trade, MaxTrades)
  BY <1>1, NoTrades
<1>3. Len(<<>>) <= 0 /\ 0 \in 0 .. MaxTrades /\ 0 \in 0 .. MaxScopes
  BY <1>1
<1>4. /\ scope = {} /\ polls = {} /\ polled = {} /\ hidden = FALSE
      /\ scopes = 0 /\ count = 0
      /\ buffer = <<>> /\ accepted = <<>> /\ trades = <<>>
  BY DEF FeedInit
<1>5. Len(accepted) <= count
  BY <1>3, <1>4
<1>6. /\ buffer \in BoundedSeq(Trade, MAX) /\ trades \in BoundedSeq(Trade, Limit)
      /\ accepted \in BoundedSeq(Trade, MaxTrades)
  BY <1>2, <1>4, Zenon
<1>7. /\ scope \subseteq Identities /\ scopes \in 0 .. MaxScopes
      /\ count \in 0 .. MaxTrades /\ polls \subseteq Poll
      /\ polled \subseteq Identities /\ hidden \in BOOLEAN
  BY <1>3, <1>4, Zenon
<1>8. QED
  BY <1>5, <1>6, <1>7 DEF FeedTypeInv, FeedTypeOK

LEMMA FeedTypeStep == FeedTypeInv /\ [FeedNext]_feedVars => FeedTypeInv'
<1> SUFFICES ASSUME FeedTypeInv, [FeedNext]_feedVars PROVE FeedTypeInv'
  OBVIOUS
<1>1. MAX \in Nat /\ Limit \in Nat /\ MaxTrades \in Nat /\ MaxScopes \in Nat
  BY TradeFeedAssumption
<1>2. /\ scope \in SUBSET Identities /\ polled \in SUBSET Identities
      /\ count \in 0 .. MaxTrades /\ Len(accepted) <= count
      /\ polls \subseteq Poll
  BY DEF FeedTypeInv, FeedTypeOK
<1>3. buffer \in Seq(Trade) /\ Len(buffer) <= MAX /\ accepted \in Seq(Trade)
  BY <1>1, BoundedLists DEF FeedTypeInv, FeedTypeOK
<1>4. ASSUME NEW id \in Identities, PostTrade(id) PROVE FeedTypeInv'
  <2> DEFINE t == [n |-> count + 1, identityId |-> id]
  <2>1. count + 1 \in 1 .. MaxTrades
    BY <1>1, <1>2, <1>4 DEF PostTrade
  <2>2. t \in Trade
    BY <2>1 DEF Trade
  <2>3. /\ buffer' = Newest(<<t>> \o buffer, MAX)
        /\ accepted' = Append(accepted, t) /\ count' = count + 1
    BY <1>4 DEF PostTrade, AddTrade
  <2> HIDE DEF t
  <2>4. <<t>> \o buffer \in Seq(Trade)
    BY <1>3, <2>2
  <2>5. buffer' \in BoundedSeq(Trade, MAX)
    BY <1>1, <2>3, <2>4, NewestTyped
  <2>6. accepted' \in Seq(Trade) /\ Len(accepted') = Len(accepted) + 1
    BY <1>3, <2>2, <2>3
  <2>7. Len(accepted') <= count' /\ Len(accepted') <= MaxTrades
    BY <1>1, <1>2, <1>3, <2>1, <2>3, <2>6
  <2>8. accepted' \in BoundedSeq(Trade, MaxTrades)
    BY <1>1, <2>6, <2>7, BoundedLists
  <2>9. count' \in 0 .. MaxTrades
    BY <2>1, <2>3
  <2>10. UNCHANGED <<clientVars, viewVars>>
    BY <1>4 DEF PostTrade
  <2>11. QED
    BY <2>5, <2>7, <2>8, <2>9, <2>10
       DEF FeedTypeInv, FeedTypeOK, clientVars, viewVars
<1>5. ASSUME RestartBackend PROVE FeedTypeInv'
  <2>1. <<>> \in BoundedSeq(Trade, MAX) /\ <<>> \in BoundedSeq(Trade, MaxTrades)
    BY <1>1, NoTrades
  <2>2. Len(<<>>) <= count
    BY <1>2
  <2>3. QED
    BY <1>5, <2>1, <2>2
       DEF RestartBackend, FeedTypeInv, FeedTypeOK, clientVars, viewVars
\* Any step of the component or of the page: the polls in flight, the list
\* that was asked for, the trades shown and the view stay of their types.
<1>6. ASSUME UNCHANGED serverVars, polls' \subseteq Poll,
             polled' \in SUBSET Identities,
             trades' \in BoundedSeq(Trade, Limit),
             scope' \in SUBSET Identities, scopes' \in 0 .. MaxScopes,
             hidden' \in BOOLEAN
      PROVE  FeedTypeInv'
  BY <1>6 DEF FeedTypeInv, FeedTypeOK, serverVars
<1>7. /\ trades \in BoundedSeq(Trade, Limit) /\ scopes \in 0 .. MaxScopes
      /\ hidden \in BOOLEAN
  BY DEF FeedTypeInv, FeedTypeOK
<1>8. ASSUME NEW p \in polls, GetTrades(p) PROVE FeedTypeInv'
  <2>1. p \in Poll /\ p.scope \in SUBSET Identities
    BY <1>2 DEF Poll
  <2>2. listTrades(Limit) \in BoundedSeq(Trade, Limit)
    BY <1>1, <1>3, NewestTyped DEF listTrades
  <2>3. [p EXCEPT !.data = listTrades(Limit)] \in Poll
    BY <2>1, <2>2 DEF Poll
  <2>4. polls' \subseteq Poll
    BY <1>2, <1>8, <2>3 DEF GetTrades
  <2>5. QED
    BY <1>2, <1>6, <1>7, <1>8, <2>4 DEF GetTrades, viewVars
<1>9. ASSUME NEW ids \in SUBSET Identities, Tick(ids) PROVE polls' \subseteq Poll
  <2>1. [scope |-> ids, data |-> NoAnswer] \in Poll
    BY DEF Poll
  <2>2. QED
    BY <1>2, <1>9, <2>1 DEF Tick
<1>10. ASSUME Effect PROVE FeedTypeInv'
  BY <1>2, <1>6, <1>7, <1>9, <1>10 DEF Effect, viewVars
<1>11. ASSUME Interval PROVE FeedTypeInv'
  BY <1>2, <1>6, <1>7, <1>9, <1>11 DEF Interval, viewVars
<1>12. ASSUME NEW p \in polls, Apply(p) PROVE FeedTypeInv'
  <2>1. p.data \in BoundedSeq(Trade, Limit)
    BY <1>2, <1>12 DEF Apply, Poll
  <2>2. p.data \in Seq(Trade) /\ Len(p.data) <= Limit
    BY <1>1, <2>1, BoundedLists
  <2>3. /\ Scoped(p.data, p.scope) \in Seq(Trade)
        /\ Len(Scoped(p.data, p.scope)) <= Len(p.data)
    BY <2>2, ScopedTyped
  <2>4. Len(Scoped(p.data, p.scope)) <= Limit
    BY <1>1, <2>2, <2>3
  <2>5. trades' \in BoundedSeq(Trade, Limit)
    BY <1>1, <1>12, <2>3, <2>4, BoundedLists DEF Apply
  <2>6. QED
    BY <1>2, <1>6, <1>7, <1>12, <2>5 DEF Apply, viewVars
<1>13. ASSUME NEW p \in polls, PollFails(p) PROVE FeedTypeInv'
  <2>1. <<>> \in BoundedSeq(Trade, Limit)
    BY <1>1, NoTrades
  <2>2. QED
    BY <1>2, <1>6, <1>7, <1>13, <2>1 DEF PollFails, viewVars
<1>14. ASSUME VisibilityChange PROVE FeedTypeInv'
  BY <1>2, <1>6, <1>7, <1>14 DEF VisibilityChange, clientVars
<1>15. ASSUME NEW ids \in SUBSET Identities, PageLists(ids) PROVE FeedTypeInv'
  <2>1. scopes + 1 \in 0 .. MaxScopes
    BY <1>1, <1>7, <1>15 DEF PageLists
  <2>2. QED
    BY <1>2, <1>6, <1>7, <1>15, <2>1 DEF PageLists, clientVars
<1>16. CASE UNCHANGED feedVars
  BY <1>2, <1>6, <1>7, <1>16 DEF feedVars, clientVars, viewVars
<1>17. QED
  BY <1>4, <1>5, <1>8, <1>10, <1>11, <1>12, <1>13, <1>14, <1>15, <1>16
     DEF FeedNext, Answered, Applied

\* The buffer, the answers under way and the trades on the page are lists of
\* trades of at most MAX and Limit, whatever overtook what: the capacity of the
\* backend and the limit of the component bound what they hold and show.
THEOREM FeedTypeCorrect == FeedSpec => []FeedTypeOK
<1>1. FeedTypeInv => FeedTypeOK
  BY DEF FeedTypeInv
<1>2. QED
  BY <1>1, FeedTypeInit, FeedTypeStep, PTL DEF FeedSpec
=============================================================================
