--------------------------- MODULE PanelSyncProofs ---------------------------
(***************************************************************************)
(* Proofs about PanelSync, for any keys and bounds.                        *)
(***************************************************************************)
EXTENDS PanelSync, FiniteSetTheorems, WellFoundedInduction, TLAPS

------------------------------------------------------------------------------
(* Sets of numbers.                                                        *)

\* A set of numbers has a least one.
LEMMA Least ==
    ASSUME NEW S \in SUBSET Nat, S # {}
    PROVE  \E x \in S : \A y \in S : x <= y
  <1> DEFINE Segments == {1 .. x : x \in S}
  <1>1. \A x \in S : 1 .. x \in FiniteSubsetsOf(Nat)
    <2> TAKE x \in S
    <2>1. x \in Nat /\ 1 \in Int /\ x \in Int
      OBVIOUS
    <2>2. IsFiniteSet(1 .. x)
      BY <2>1, FS_Interval
    <2>3. 1 .. x \subseteq Nat
      BY <2>1
    <2> QED
      BY <2>2, <2>3 DEF FiniteSubsetsOf
  <1>2. Segments \subseteq FiniteSubsetsOf(Nat) /\ Segments # {}
    BY <1>1
  <1>3. PICK I \in Segments : \A J \in Segments : ~ (<<J, I>> \in StrictSubsetOrdering(Nat))
    BY <1>2, FS_StrictSubsetOrderingWellFounded, WFMin
  <1>4. PICK x \in S : I = 1 .. x
    BY <1>3
  <1>5. ASSUME NEW y \in S, ~(x <= y) PROVE FALSE
    <2>1. x \in 1 .. x /\ x \notin 1 .. y /\ 1 .. y \subseteq 1 .. x
      BY <1>5
    <2>2. 1 .. y \in SUBSET Nat /\ 1 .. x \in SUBSET Nat
      OBVIOUS
    <2>3. 1 .. y # 1 .. x
      BY <2>1, Zenon
    <2>4. <<1 .. y, 1 .. x>> \in StrictSubsetOrdering(Nat)
      BY <2>1, <2>2, <2>3 DEF StrictSubsetOrdering
    <2> QED
      BY <1>3, <1>4, <2>4
  <1> QED
    BY <1>4, <1>5

\* One with a bound has a greatest one.
LEMMA Greatest ==
    ASSUME NEW m \in Nat, NEW S \in SUBSET (0 .. m), S # {}
    PROVE  \E x \in S : \A y \in S : y <= x
  <1> DEFINE D == {m - x : x \in S}
  <1>1. D \in SUBSET Nat /\ D # {}
    <2>1. \A x \in S : m - x \in Nat
      OBVIOUS
    <2> QED
      BY <2>1
  <1>2. PICK d \in D : \A e \in D : d <= e
    BY <1>1, Least
  <1>3. PICK x \in S : d = m - x
    BY <1>2
  <1>4. ASSUME NEW y \in S PROVE y <= x
    <2>1. m - y \in D /\ d <= m - y
      BY <1>2
    <2> QED
      BY <1>3, <2>1
  <1> QED
    BY <1>4

------------------------------------------------------------------------------
(* PanelSync.  While synchronisations have not crossed, one at most is     *)
(* under way (Sync), and it knows the panel: for every key that is left it *)
(* has found the item with that key, or there is none (Listed); and no     *)
(* item but the one it works on has the key it is to set (Claims).         *)

KeysApart == Loop \notin Api /\ Unkeyed \notin Key

Wish == [wanted : BOOLEAN, version : Nat, dated : BOOLEAN]
Draft == [key : Key \cup {Unkeyed}, text : Nat, options : Nat, dated : BOOLEAN]
Labels == {"idle", "desired", "list", "next", "key", "fields"}

PanelType ==
    /\ Last \in Nat /\ items \in [1 .. Last -> Draft]
    /\ truth \in [Key -> Wish] /\ changes \in Nat
    /\ pc \in [Syncer -> Labels] /\ crossed \in BOOLEAN
    /\ want \in [Syncer -> [Key -> Wish]]
    /\ found \in [Syncer -> [Key -> Nat]] /\ left \in [Syncer -> SUBSET Key]
    /\ now \in [Syncer -> [key : Key \cup {Unkeyed}, id : Nat]]
    /\ \A s \in Syncer : pc[s] \in {"key", "fields"} => now[s].key \in Key

Sync == \A s, u \in Syncer : pc[s] # "idle" /\ pc[u] # "idle" => s = u

KeysDiffer ==
    \A i, j \in 1 .. Last : items[i].key = items[j].key /\ items[i].key # Unkeyed => i = j

Listed(s) ==
    pc[s] \in {"next", "key", "fields"} =>
      \A k \in left[s] : IF found[s][k] = 0 THEN \A i \in 1 .. Last : items[i].key # k
                         ELSE found[s][k] \in 1 .. Last /\ items[found[s][k]].key = k

Claims(s) ==
    pc[s] = "key" =>
      /\ now[s].id \in 1 .. Last /\ now[s].key \notin left[s]
      /\ items[now[s].id].key \in {now[s].key, Unkeyed}
      /\ \A i \in 1 .. Last : items[i].key = now[s].key => i = now[s].id

PanelInv ==
    /\ PanelType
    /\ ~crossed => Sync /\ KeysDiffer /\ \A s \in Syncer : Listed(s) /\ Claims(s)

\* A panel with the items 1 .. n has n.
LEMMA LastOf ==
    ASSUME NEW n \in Nat
    PROVE  Cardinality(1 .. n) = n
  BY FS_Interval

LEMMA PanelInit ==
    ASSUME KeysApart, Init
    PROVE  PanelInv
  <1>1. DOMAIN items = 1 .. 0
    BY DEF Init
  <1>2. Last = 0
    <2>1. Cardinality(1 .. 0) = 0
      BY LastOf
    <2> QED
      BY <1>1, <2>1 DEF Last
  <1>3. items \in [1 .. 0 -> Draft]
    BY DEF Init
  <1>4. PanelType
    BY <1>2, <1>3 DEF Init, PanelType, Wish, Labels, NoWant, Absent, NoFound, NoId, NoItem
  <1>5. Sync /\ KeysDiffer /\ \A s \in Syncer : Listed(s) /\ Claims(s)
    BY <1>2, <1>4 DEF Init, PanelType, Sync, KeysDiffer, Listed, Claims
  <1> QED
    BY <1>4, <1>5 DEF PanelInv

\* A step of a synchronisation under way: what becomes of its own record decides.
LEMMA PanelStep ==
    ASSUME PanelInv, NEW s \in Syncer, NEW l \in Labels,
           pc[s] # "idle", pc' = [pc EXCEPT ![s] = l], crossed' = crossed, PanelType',
           ~crossed => KeysDiffer' /\ Listed(s)' /\ Claims(s)'
    PROVE  PanelInv'
  <1> SUFFICES ASSUME ~crossed PROVE Sync' /\ \A u \in Syncer : Listed(u)' /\ Claims(u)'
    BY DEF PanelInv
  <1>1. \A u \in Syncer \ {s} : pc[u] = "idle" /\ pc'[u] = "idle"
    BY DEF PanelInv, PanelType, Sync
  <1> QED
    BY <1>1 DEF Sync, Listed, Claims

\* One that changes no key.
LEMMA PanelGoesOn ==
    ASSUME PanelInv, NEW s \in Syncer, NEW l \in {"idle", "list", "next"},
           pc[s] # "idle", pc' = [pc EXCEPT ![s] = l], crossed' = crossed,
           PanelType', Last <= Last',
           \A i \in 1 .. Last : items'[i].key = items[i].key,
           \A i \in 1 .. Last' : i > Last => items'[i].key = Unkeyed,
           KeysApart,
           \/ l # "next"
           \/ pc[s] \in {"next", "key", "fields"} /\ found' = found /\ left'[s] \subseteq left[s]
    PROVE  PanelInv'
  <1>0. left'[s] \subseteq Key /\ pc'[s] = l /\ Last \in Nat /\ Last' \in Nat
    BY DEF PanelInv, PanelType, Labels
  <1>1. ~crossed => KeysDiffer'
    <2> SUFFICES ASSUME ~crossed, NEW i \in 1 .. Last', NEW j \in 1 .. Last',
                        items'[i].key = items'[j].key, items'[i].key # Unkeyed
                 PROVE  i = j
      BY DEF KeysDiffer
    <2>1. i \in 1 .. Last /\ j \in 1 .. Last
      BY <1>0
    <2> QED
      BY <2>1 DEF PanelInv, KeysDiffer
  <1>2. ~crossed => Listed(s)'
    <2> SUFFICES ASSUME ~crossed, l = "next", NEW k \in left'[s]
                 PROVE  IF found'[s][k] = 0 THEN \A i \in 1 .. Last' : items'[i].key # k
                        ELSE found'[s][k] \in 1 .. Last' /\ items'[found'[s][k]].key = k
      BY <1>0 DEF Listed
    <2>1. /\ pc[s] \in {"next", "key", "fields"} /\ found' = found /\ k \in left[s] /\ k \in Key /\ k # Unkeyed
      BY <1>0 DEF KeysApart
    <2>2. IF found[s][k] = 0 THEN \A i \in 1 .. Last : items[i].key # k
          ELSE found[s][k] \in 1 .. Last /\ items[found[s][k]].key = k
      BY <2>1 DEF PanelInv, Listed
    <2> QED
      BY <1>0, <2>1, <2>2
  <1>3. Claims(s)'
    BY <1>0 DEF Claims
  <1> QED
    BY <1>1, <1>2, <1>3, PanelStep DEF Labels

\* One that leaves the items as they are.
LEMMA PanelStays ==
    ASSUME KeysApart, PanelInv, NEW s \in Syncer, NEW l \in {"idle", "list", "next"},
           pc[s] # "idle", pc' = [pc EXCEPT ![s] = l], crossed' = crossed,
           PanelType', Last' = Last,
           \A i \in 1 .. Last : items'[i].key = items[i].key,
           \/ l # "next"
           \/ pc[s] \in {"next", "key", "fields"} /\ found' = found /\ left'[s] \subseteq left[s]
    PROVE  PanelInv'
  <1>1. Last \in Nat
    BY DEF PanelInv, PanelType
  <1>2. Last <= Last' /\ \A i \in 1 .. Last' : i > Last => items'[i].key = Unkeyed
    BY <1>1
  <1> QED
    BY <1>2, PanelGoesOn

\* New drafts have no key.
LEMMA Drafts ==
    ASSUME PanelInv, NEW s \in Syncer, NEW k \in Key, NEW n \in {1, 2}, add_draft_issue(s, k, n)
    PROVE  /\ Last' = Last + n /\ items' \in [1 .. Last' -> Draft] /\ Last' \in Nat
           /\ \A i \in 1 .. Last : items'[i].key = items[i].key
           /\ \A i \in 1 .. Last' : i > Last => items'[i].key = Unkeyed
  <1> DEFINE new == [key |-> Unkeyed, text |-> want[s][k].version, options |-> 0, dated |-> FALSE]
  <1>1. want[s][k] \in Wish
    BY DEF PanelInv, PanelType
  <1>2. new \in Draft /\ new.key = Unkeyed
    BY <1>1 DEF Wish, Draft
  <1>3. Last \in Nat /\ items \in [1 .. Last -> Draft] /\ Last + n \in Nat
    BY DEF PanelInv, PanelType
  <1>4. items' = [i \in 1 .. Last + n |-> IF i <= Last THEN items[i] ELSE new]
    BY DEF add_draft_issue
  <1>5. DOMAIN items' = 1 .. Last + n
    BY <1>4
  <1>6. Last' = Last + n
    <2> DEFINE m == Last + n
    <2>1. DOMAIN items' = 1 .. m /\ m \in Nat
      BY <1>3, <1>5
    <2> HIDE DEF m
    <2>2. Last' = Cardinality(DOMAIN items')
      BY DEF Last
    <2>3. Last' = m
      BY <2>1, <2>2, LastOf
    <2> QED
      BY <2>3 DEF m
  <1> HIDE DEF new
  <1>7. items' \in [1 .. Last + n -> Draft]
    <2>1. \A i \in 1 .. Last + n : (IF i <= Last THEN items[i] ELSE new) \in Draft
      BY <1>2, <1>3
    <2> QED
      BY <1>4, <2>1
  <1> QED
    BY <1>2, <1>3, <1>4, <1>6, <1>7

\* What is found is found by its key.
LEMMA Finds ==
    ASSUME PanelInv, NEW k \in Key
    PROVE  LET f == existing_by_key[k] IN
           /\ f \in Nat
           /\ f = 0 => \A i \in 1 .. Last : items[i].key # k
           /\ f # 0 => f \in 1 .. Last /\ items[f].key = k
  <1> DEFINE K == Keyed(k)
  <1>1. Last \in Nat /\ DOMAIN items = 1 .. Last
    BY DEF PanelInv, PanelType
  <1>2. K = {i \in 1 .. Last : items[i].key = k}
    BY <1>1 DEF Keyed
  <1>3. existing_by_key[k] = IF K = {} THEN 0 ELSE Max(K)
    BY DEF existing_by_key, NoId
  <1>4. ASSUME K # {} PROVE Max(K) \in K
    <2>1. PICK m \in K : \A y \in K : m >= y
      <3>1. K \in SUBSET (0 .. Last)
        BY <1>1, <1>2
      <3>2. PICK m \in K : \A y \in K : y <= m
        BY <1>1, <1>4, <3>1, Greatest
      <3> QED
        BY <1>1, <1>2, <3>2
    <2> QED
      BY <2>1 DEF Max
  <1> HIDE DEF K
  <1> QED
    BY <1>1, <1>2, <1>3, <1>4

LEMMA PanelNext ==
    ASSUME KeysApart, PanelInv, [Next]_vars
    PROVE  PanelInv'
  <1> USE DEF Goto, work, counters
  <1>0. PanelType
    BY DEF PanelInv
  <1>1. ASSUME NEW s \in Syncer, desired_items(s) PROVE PanelInv'
    <2>1. /\ pc[s] = "desired" /\ pc' = [pc EXCEPT ![s] = "list"] /\ want' = [want EXCEPT ![s] = truth]
          /\ UNCHANGED <<truth, items, found, left, now, crossed, changes>>
      BY <1>1 DEF desired_items
    <2>2. Last' = Last
      BY <2>1 DEF Last
    <2>3. PanelType'
      BY <1>0, <2>1, <2>2 DEF PanelType, Labels
    <2> QED
      BY <2>1, <2>2, <2>3, PanelStays
  <1>2. ASSUME NEW s \in Syncer, list_items(s) PROVE PanelInv'
    <2> DEFINE e == existing_by_key
               L == {k \in Key : want[s][k].wanted}
    <2>1. /\ pc[s] = "list" /\ pc' = [pc EXCEPT ![s] = "next"] /\ found' = [found EXCEPT ![s] = e]
          /\ left' = [left EXCEPT ![s] = L] /\ UNCHANGED <<truth, items, want, now, crossed, changes>>
      BY <1>2 DEF list_items
    <2>2. Last' = Last
      BY <2>1 DEF Last
    <2>3. e \in [Key -> Nat]
      <3>1. e = [k \in Key |-> e[k]]
        BY DEF existing_by_key
      <3>2. \A k \in Key : e[k] \in Nat
        BY Finds
      <3> QED
        BY <3>1, <3>2
    <2>4. \A k \in Key : IF e[k] = 0 THEN \A i \in 1 .. Last : items[i].key # k
                         ELSE e[k] \in 1 .. Last /\ items[e[k]].key = k
      BY Finds
    <2>5. L \subseteq Key
      OBVIOUS
    <2> HIDE DEF e, L
    <2>6. PanelType'
      BY <1>0, <2>1, <2>2, <2>3, <2>5 DEF PanelType, Labels
    <2>7. left'[s] = L /\ found'[s] = e /\ pc'[s] = "next"
      BY <1>0, <2>1 DEF PanelType
    <2>8. Listed(s)' /\ Claims(s)'
      BY <2>1, <2>2, <2>4, <2>5, <2>7 DEF Listed, Claims
    <2>9. KeysDiffer' <=> KeysDiffer
      BY <2>1, <2>2 DEF KeysDiffer
    <2> QED
      BY <2>1, <2>6, <2>8, <2>9, PanelStep DEF Labels, PanelInv
  <1>3. ASSUME NEW s \in Syncer, NEW k \in left[s], NEW n \in {1, 2}, NEW m \in Nat, changes' = changes,
               pc[s] = "next", add_draft_issue(s, k, n), Take(s, k, m), m = Last + n,
               pc' = [pc EXCEPT ![s] = "key"], UNCHANGED <<truth, want, found, crossed>>
        PROVE  PanelInv'
    <2>1. k \in Key /\ k # Unkeyed /\ left[s] \subseteq Key
      BY <1>0, <1>3 DEF PanelType, KeysApart
    <2>2. /\ Last' = Last + n /\ items' \in [1 .. Last' -> Draft] /\ Last' \in Nat /\ Last \in Nat
          /\ \A i \in 1 .. Last : items'[i].key = items[i].key
          /\ \A i \in 1 .. Last' : i > Last => items'[i].key = Unkeyed
      BY <1>0, <1>3, <2>1, Drafts DEF PanelType
    <2>3. left' = [left EXCEPT ![s] = left[s] \ {k}] /\ now' = [now EXCEPT ![s] = [key |-> k, id |-> m]]
      BY <1>3 DEF Take
    <2>4. /\ left'[s] = left[s] \ {k} /\ now'[s].key = k /\ now'[s].id = m /\ pc'[s] = "key"
      BY <1>0, <1>3, <2>3 DEF PanelType
    <2>5. PanelType'
      BY <1>0, <1>3, <2>1, <2>2, <2>3, <2>4 DEF PanelType, Labels
    <2>6. ASSUME ~crossed PROVE KeysDiffer' /\ Listed(s)' /\ Claims(s)'
      <3>1. /\ KeysDiffer
            /\ \A q \in left[s] : IF found[s][q] = 0 THEN \A i \in 1 .. Last : items[i].key # q
                                  ELSE found[s][q] \in 1 .. Last /\ items[found[s][q]].key = q
        BY <1>3, <2>6 DEF PanelInv, Listed
      <3>2. KeysDiffer'
        <4> SUFFICES ASSUME NEW i \in 1 .. Last', NEW j \in 1 .. Last',
                            items'[i].key = items'[j].key, items'[i].key # Unkeyed
                     PROVE  i = j
          BY DEF KeysDiffer
        <4>1. i \in 1 .. Last /\ j \in 1 .. Last
          BY <2>2
        <4> QED
          BY <2>2, <3>1, <4>1 DEF KeysDiffer
      <3>3. Listed(s)'
        <4> SUFFICES ASSUME NEW q \in left'[s]
                     PROVE  IF found'[s][q] = 0 THEN \A i \in 1 .. Last' : items'[i].key # q
                            ELSE found'[s][q] \in 1 .. Last' /\ items'[found'[s][q]].key = q
          BY DEF Listed
        <4>1. q \in left[s] /\ q \in Key /\ q # Unkeyed /\ found' = found
          BY <1>3, <2>1, <2>4 DEF KeysApart
        <4> QED
          BY <2>2, <3>1, <4>1
      <3>4. \A i \in 1 .. Last : items[i].key # k
        BY <1>3, <3>1 DEF add_draft_issue, NoId
      <3>5. m \in 1 .. Last' /\ items'[m].key = Unkeyed
        BY <1>3, <2>2
      <3>6. \A i \in 1 .. Last' : items'[i].key # k
        BY <2>1, <2>2, <3>4
      <3>7. Claims(s)'
        BY <2>4, <3>5, <3>6 DEF Claims
      <3> QED
        BY <3>2, <3>3, <3>7
    <2> QED
      BY <1>3, <2>5, <2>6, PanelStep DEF Labels
  <1>4. ASSUME NEW s \in Syncer, update_draft(s) PROVE PanelInv'
    <2>1. PICK k \in left[s] : /\ found[s][k] # 0 /\ items' = [items EXCEPT ![found[s][k]].text = want[s][k].version]
                               /\ Take(s, k, found[s][k])
      BY <1>4 DEF update_draft, NoId
    <2> DEFINE f == found[s][k]
               v == want[s][k].version
    <2>2. /\ pc[s] = "next" /\ pc' = [pc EXCEPT ![s] = "key"] /\ UNCHANGED <<truth, want, found, crossed, changes>>
          /\ left' = [left EXCEPT ![s] = left[s] \ {k}] /\ now' = [now EXCEPT ![s] = [key |-> k, id |-> f]]
      BY <1>4, <2>1 DEF update_draft, Take
    <2>3. k \in Key /\ k # Unkeyed /\ left[s] \subseteq Key /\ f \in Nat /\ v \in Nat
      BY <1>0 DEF PanelType, KeysApart, Wish
    <2>4. items' = [items EXCEPT ![f].text = v]
      BY <2>1
    <2> HIDE DEF f, v
    <2>5. /\ DOMAIN items' = DOMAIN items /\ items' \in [1 .. Last -> Draft]
          /\ \A i \in 1 .. Last : items'[i].key = items[i].key
      <3>1. items \in [1 .. Last -> Draft]
        BY <1>0 DEF PanelType
      <3>2. \A i \in 1 .. Last : items'[i] = IF i = f THEN [items[i] EXCEPT !.text = v] ELSE items[i]
        BY <2>4, <3>1
      <3>3. \A i \in 1 .. Last : items'[i] \in Draft /\ items'[i].key = items[i].key
        BY <2>3, <3>1, <3>2 DEF Draft
      <3> QED
        BY <2>4, <3>1, <3>3
    <2>6. Last' = Last
      BY <2>5 DEF Last
    <2>7. /\ left'[s] = left[s] \ {k} /\ now'[s].key = k /\ now'[s].id = f /\ pc'[s] = "key"
      BY <1>0, <2>2 DEF PanelType
    <2>8. PanelType'
      BY <1>0, <2>2, <2>3, <2>5, <2>6, <2>7 DEF PanelType, Labels
    <2>9. ASSUME ~crossed PROVE KeysDiffer' /\ Listed(s)' /\ Claims(s)'
      <3>1. /\ KeysDiffer
            /\ \A q \in left[s] : IF found[s][q] = 0 THEN \A i \in 1 .. Last : items[i].key # q
                                  ELSE found[s][q] \in 1 .. Last /\ items[found[s][q]].key = q
        BY <2>2, <2>9 DEF PanelInv, Listed
      <3>2. KeysDiffer'
        BY <2>5, <2>6, <3>1 DEF KeysDiffer
      <3>3. Listed(s)'
        BY <2>2, <2>5, <2>6, <2>7, <3>1 DEF Listed
      <3>4. f \in 1 .. Last /\ items[f].key = k
        BY <2>1, <3>1 DEF f
      <3>5. Claims(s)'
        BY <2>3, <2>5, <2>6, <2>7, <3>1, <3>4 DEF Claims, KeysDiffer
      <3> QED
        BY <3>2, <3>3, <3>5
    <2> QED
      BY <2>2, <2>8, <2>9, PanelStep DEF Labels
  <1>5. ASSUME NEW s \in Syncer, set_key(s) PROVE PanelInv'
    <2> DEFINE d == now[s].id
               k == now[s].key
    <2>1. /\ pc[s] = "key" /\ pc' = [pc EXCEPT ![s] = "fields"] /\ items' = [items EXCEPT ![d].key = k]
          /\ UNCHANGED <<truth, want, found, left, now, crossed, changes>>
      BY <1>5 DEF set_key
    <2>2. d \in Nat /\ k \in Key /\ k # Unkeyed
      BY <1>0, <2>1 DEF PanelType, KeysApart
    <2> HIDE DEF d, k
    <2>3. /\ DOMAIN items' = DOMAIN items /\ items' \in [1 .. Last -> Draft]
          /\ \A i \in 1 .. Last : items'[i].key = IF i = d THEN k ELSE items[i].key
      <3>1. items \in [1 .. Last -> Draft]
        BY <1>0 DEF PanelType
      <3>2. \A i \in 1 .. Last : items'[i] = IF i = d THEN [items[i] EXCEPT !.key = k] ELSE items[i]
        BY <2>1, <3>1
      <3>3. \A i \in 1 .. Last : items'[i] \in Draft /\ items'[i].key = IF i = d THEN k ELSE items[i].key
        BY <2>2, <3>1, <3>2 DEF Draft
      <3> QED
        BY <2>1, <3>1, <3>3
    <2>4. Last' = Last
      BY <2>3 DEF Last
    <2>5. PanelType'
      BY <1>0, <2>1, <2>2, <2>3, <2>4 DEF PanelType, Labels, k
    <2>6. ASSUME ~crossed PROVE KeysDiffer' /\ Listed(s)' /\ Claims(s)'
      <3>1. KeysDiffer /\ Listed(s) /\ pc'[s] = "fields" /\ left[s] \subseteq Key
        BY <1>0, <2>1, <2>6 DEF PanelInv, PanelType
      <3>2. /\ d \in 1 .. Last /\ k \notin left[s] /\ items[d].key \in {k, Unkeyed}
            /\ \A i \in 1 .. Last : items[i].key = k => i = d
        BY <2>1, <2>6 DEF PanelInv, Claims, d, k
      <3>3. KeysDiffer'
        BY <2>3, <2>4, <3>1, <3>2 DEF KeysDiffer
      <3>4. Listed(s)'
        <4> SUFFICES ASSUME NEW q \in left[s]
                     PROVE  IF found[s][q] = 0 THEN \A i \in 1 .. Last : items'[i].key # q
                            ELSE found[s][q] \in 1 .. Last /\ items'[found[s][q]].key = q
          BY <2>1, <2>4 DEF Listed
        <4>1. q # k /\ q # Unkeyed
          BY <3>1, <3>2 DEF KeysApart
        <4>2. IF found[s][q] = 0 THEN \A i \in 1 .. Last : items[i].key # q
              ELSE found[s][q] \in 1 .. Last /\ items[found[s][q]].key = q
          BY <2>1, <3>1 DEF Listed
        <4> QED
          BY <2>3, <3>2, <4>1, <4>2
      <3>5. Claims(s)'
        BY <3>1 DEF Claims
      <3> QED
        BY <3>3, <3>4, <3>5
    <2> QED
      BY <2>1, <2>5, <2>6, PanelStep DEF Labels
  \* The fields behind the key, one or both.
  <1>6. ASSUME NEW s \in Syncer, NEW v \in Nat, NEW b \in BOOLEAN, NEW d \in Nat, now' = [now EXCEPT ![s] = NoItem],
               pc[s] = "fields", pc' = [pc EXCEPT ![s] = "next"], UNCHANGED <<truth, want, found, left, crossed, changes>>,
               items' = [items EXCEPT ![d].options = v, ![d].dated = b] \/ items' = [items EXCEPT ![d].options = v]
        PROVE  PanelInv'
    <2>1. /\ DOMAIN items' = DOMAIN items /\ items' \in [1 .. Last -> Draft]
          /\ \A i \in 1 .. Last : items'[i].key = items[i].key
      <3>1. items \in [1 .. Last -> Draft]
        BY <1>0 DEF PanelType
      <3>2. \/ items' = [items EXCEPT ![d].options = v, ![d].dated = b]
            \/ items' = [items EXCEPT ![d].options = v]
        BY <1>6
      <3>3. DOMAIN items' = DOMAIN items
        BY <3>1, <3>2
      <3>4. \A i \in 1 .. Last : \/ items'[i] = items[i]
                                 \/ items'[i] = [items[i] EXCEPT !.options = v, !.dated = b]
                                 \/ items'[i] = [items[i] EXCEPT !.options = v]
        BY <3>1, <3>2
      <3>5. \A i \in 1 .. Last : items'[i] \in Draft /\ items'[i].key = items[i].key
        BY <1>6, <3>1, <3>4 DEF Draft
      <3>6. items' = [i \in DOMAIN items |-> items'[i]]
        BY <3>2
      <3> QED
        BY <3>1, <3>3, <3>5, <3>6
    <2>2. Last' = Last
      BY <2>1 DEF Last
    <2>3. PanelType'
      BY <1>0, <1>6, <2>1, <2>2 DEF PanelType, Labels, NoItem, NoId
    <2> QED
      BY <1>6, <2>1, <2>2, <2>3, PanelStays
  <1>7. ASSUME NEW s \in Syncer, set_fields(s) PROVE PanelInv'
    <2> DEFINE w == want[s][now[s].key]
               d == now[s].id
               b == items[d].dated \/ w.dated
    <2>1. pc[s] = "fields" /\ items' = [items EXCEPT ![d].options = w.version, ![d].dated = b]
      BY <1>7 DEF set_fields
    <2>2. /\ pc' = [pc EXCEPT ![s] = "next"] /\ now' = [now EXCEPT ![s] = NoItem]
          /\ UNCHANGED <<truth, want, found, left, crossed, changes>>
      BY <1>7 DEF set_fields
    <2>3. w.version \in Nat /\ d \in Nat /\ b \in BOOLEAN
      <3>1. now[s].key \in Key /\ d \in Nat
        BY <1>0, <2>1 DEF PanelType
      <3>2. w \in Wish
        BY <1>0, <3>1 DEF PanelType
      <3> QED
        BY <3>1, <3>2 DEF Wish
    <2> HIDE DEF w, d, b
    <2> QED
      BY <1>6, <2>1, <2>2, <2>3
  \* The process forgets a synchronisation.
  <1>8. ASSUME NEW s \in Syncer, return(s) \/ list_fails(s) PROVE PanelInv'
    <2>1. /\ pc[s] # "idle" /\ pc' = [pc EXCEPT ![s] = "idle"] /\ Forget(s)
          /\ UNCHANGED <<truth, items, crossed, changes>>
      BY <1>8 DEF return, list_fails, Fault
    <2>2. Last' = Last
      BY <2>1 DEF Last
    <2>3. PanelType'
      BY <1>0, <2>1, <2>2 DEF PanelType, Labels, Forget, NoWant, Absent, Wish, NoFound, NoItem, NoId
    <2> QED
      BY <2>1, <2>2, <2>3, PanelStays
  <1>9. ASSUME NEW s \in Syncer, item_fails(s) PROVE PanelInv'
    <2>1. /\ now' = [now EXCEPT ![s] = NoItem] /\ pc' = [pc EXCEPT ![s] = "next"]
          /\ UNCHANGED <<truth, want, found, crossed, changes>> /\ pc[s] \in {"next", "key", "fields"}
      BY <1>9 DEF item_fails, Fault
    <2>2. ASSUME NEW k \in left[s], left' = [left EXCEPT ![s] = @ \ {k}], add_draft_issue(s, k, 1) PROVE PanelInv'
      <3>1. /\ Last' = Last + 1 /\ items' \in [1 .. Last' -> Draft] /\ Last' \in Nat /\ Last \in Nat
            /\ \A i \in 1 .. Last : items'[i].key = items[i].key
            /\ \A i \in 1 .. Last' : i > Last => items'[i].key = Unkeyed
        BY <1>0, <2>2, Drafts DEF PanelType
      <3>2. PanelType' /\ left'[s] \subseteq left[s]
        BY <1>0, <2>1, <2>2, <3>1 DEF PanelType, Labels, NoItem, NoId
      <3>3. Last <= Last'
        BY <3>1
      <3> QED
        BY <2>1, <3>1, <3>2, <3>3, PanelGoesOn
    <2>3. ASSUME UNCHANGED items, left'[s] \subseteq left[s], left' \in [Syncer -> SUBSET Key] PROVE PanelInv'
      <3>1. Last' = Last
        BY <2>3 DEF Last
      <3>2. PanelType'
        BY <1>0, <2>1, <2>3, <3>1 DEF PanelType, Labels, NoItem, NoId
      <3> QED
        BY <2>1, <2>3, <3>1, <3>2, PanelStays
    <2>4. ASSUME NEW k \in left[s], left' = [left EXCEPT ![s] = @ \ {k}], UNCHANGED items PROVE PanelInv'
      BY <1>0, <2>3, <2>4 DEF PanelType
    <2>5. CASE UNCHANGED <<items, left>>
      BY <1>0, <2>3, <2>5 DEF PanelType
    <2>6. CASE pc[s] = "fields" /\ UNCHANGED left
                 /\ items' = [items EXCEPT ![now[s].id].options = want[s][now[s].key].version]
      <3>1. now[s].key \in Key /\ now[s].id \in Nat
        BY <1>0, <2>6 DEF PanelType
      <3>2. want[s][now[s].key] \in Wish
        BY <1>0, <3>1 DEF PanelType
      <3>3. want[s][now[s].key].version \in Nat
        BY <3>2 DEF Wish
      <3> QED
        BY <1>6, <2>1, <2>6, <3>1, <3>3
    <2> QED
      BY <1>9, <2>2, <2>4, <2>5, <2>6 DEF item_fails
  <1>10. ASSUME NEW s \in Syncer, create_draft(s) PROVE PanelInv'
    <2>1. PICK k \in left[s] : add_draft_issue(s, k, 1) /\ Take(s, k, Last + 1)
      BY <1>10 DEF create_draft
    <2>2. Last + 1 \in Nat
      BY <1>0 DEF PanelType
    <2> QED
      BY <1>3, <1>10, <2>1, <2>2 DEF create_draft
  <1>11. ASSUME NEW s \in Syncer, create_draft_retried(s) PROVE PanelInv'
    <2>1. PICK k \in left[s] : add_draft_issue(s, k, 2) /\ Take(s, k, Last + 2)
      BY <1>11 DEF create_draft_retried
    <2>2. Last + 2 \in Nat
      BY <1>0 DEF PanelType
    <2> QED
      BY <1>3, <1>11, <2>1, <2>2 DEF create_draft_retried, Fault
  <1>12. ASSUME NEW s \in Syncer, Begin(s), UNCHANGED <<truth, items, want, found, left, now, changes>>
         PROVE  PanelInv'
    <2>1. /\ pc[s] = "idle" /\ pc' = [pc EXCEPT ![s] = "desired"]
          /\ crossed' = (crossed \/ \E o \in Syncer \ {s} : pc[o] # "idle")
      BY <1>12 DEF Begin
    <2>2. Last' = Last
      BY <1>12 DEF Last
    <2>3. PanelType'
      BY <1>0, <1>12, <2>1, <2>2 DEF PanelType, Labels
    <2>4. ASSUME ~crossed' PROVE Sync' /\ KeysDiffer' /\ \A u \in Syncer : Listed(u)' /\ Claims(u)'
      <3>1. ~crossed /\ \A u \in Syncer \ {s} : pc[u] = "idle" /\ pc'[u] = "idle"
        BY <1>0, <2>1, <2>4 DEF PanelType
      <3>2. pc'[s] = "desired"
        BY <1>0, <2>1 DEF PanelType
      <3>3. KeysDiffer'
        BY <1>12, <2>2, <3>1 DEF PanelInv, KeysDiffer
      <3> QED
        BY <3>1, <3>2, <3>3 DEF Sync, Listed, Claims
    <2> QED
      BY <2>3, <2>4 DEF PanelInv
  \* The loop's flag, the time, or what the panel should show.
  <1>13. ASSUME UNCHANGED <<items, pc, want, found, left, now, crossed>>, truth' \in [Key -> Wish], changes' \in Nat
         PROVE  PanelInv'
    <2>1. Last' = Last
      BY <1>13 DEF Last
    <2>2. PanelType'
      BY <1>0, <1>13, <2>1 DEF PanelType
    <2> QED
      BY <1>13, <2>1, <2>2 DEF PanelInv, Sync, KeysDiffer, Listed, Claims
  <1>14. CASE Change
    <2>1. PICK k \in Key, dated \in BOOLEAN, wanted \in BOOLEAN :
            truth' = [truth EXCEPT ![k] = IF wanted THEN [wanted |-> TRUE, version |-> changes', dated |-> dated]
                                                    ELSE Absent]
      BY <1>14 DEF Change
    <2>2. changes' \in Nat
      BY <1>0, <1>14 DEF Change, PanelType
    <2>3. [wanted |-> TRUE, version |-> changes', dated |-> dated] \in Wish /\ Absent \in Wish
      BY <2>2 DEF Wish, Absent
    <2>4. truth' \in [Key -> Wish]
      BY <1>0, <2>1, <2>3 DEF PanelType
    <2> QED
      BY <1>13, <1>14, <2>2, <2>4 DEF Change
  <1>15. CASE Crash
    <2>1. /\ pc' = [s \in Syncer |-> "idle"] /\ UNCHANGED <<truth, items, crossed, changes>>
          /\ want' = [s \in Syncer |-> NoWant] /\ found' = [s \in Syncer |-> NoFound]
          /\ left' = [s \in Syncer |-> {}] /\ now' = [s \in Syncer |-> NoItem]
      BY <1>15 DEF Crash, Fault
    <2>2. Last' = Last
      BY <2>1 DEF Last
    <2>3. PanelType'
      BY <1>0, <2>1, <2>2 DEF PanelType, Labels, NoWant, Absent, Wish, NoFound, NoItem, NoId
    <2> QED
      BY <2>1, <2>2, <2>3 DEF PanelInv, Sync, KeysDiffer, Listed, Claims
  <1>16. CASE panel_debounced \/ time_passes \/ UNCHANGED vars
    BY <1>0, <1>13, <1>16 DEF panel_debounced, time_passes, vars, PanelType
  <1>17. CASE panel_attempt \/ \E s \in Api : v1_panel_github_sync(s)
    BY <1>12, <1>17 DEF panel_attempt, v1_panel_github_sync, Syncer
  <1> QED
    BY <1>1, <1>2, <1>4, <1>5, <1>7, <1>8, <1>9, <1>10, <1>11, <1>14, <1>15, <1>16, <1>17 DEF Next, Step

\* For any keys, threads and changes, whatever call fails, is executed unseen or made
\* twice and wherever the process stops: while synchronisations have not crossed, no two
\* items of the panel have the same key.
THEOREM KeysStayUnique ==
    ASSUME KeysApart
    PROVE  Spec => []OneItemPerKey
  <1>1. Init => PanelInv
    BY PanelInit
  <1>2. PanelInv /\ [Next]_vars => PanelInv'
    BY PanelNext
  <1>3. PanelInv => OneItemPerKey
    <2> SUFFICES ASSUME PanelInv, ~crossed, NEW k \in Key PROVE Cardinality(Keyed(k)) <= 1
      BY DEF OneItemPerKey
    <2>1. Keyed(k) = {i \in 1 .. Last : items[i].key = k}
      BY DEF Keyed, PanelInv, PanelType
    <2>2. Keyed(k) = {} \/ \E i : Keyed(k) = {i}
      BY <2>1 DEF PanelInv, KeysDiffer, KeysApart
    <2> QED
      <3>1. CASE Keyed(k) = {}
        BY <3>1, FS_EmptySet
      <3>2. CASE \E i : Keyed(k) = {i}
        <4>1. PICK i : Keyed(k) = {i}
          BY <3>2
        <4>2. Cardinality({i}) = 1
          BY FS_Singleton
        <4> QED
          BY <4>1, <4>2
      <3> QED
        BY <2>2, <3>1, <3>2
  <1> QED
    BY <1>1, <1>2, <1>3, PTL DEF Spec

==============================================================================
