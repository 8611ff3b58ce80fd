--------------------------- MODULE RestreamProofs ---------------------------
(***************************************************************************)
(* Theorems about Restream, for every number of keys, publishers and       *)
(* disturbances.  The owner's destinations and the node's sessions share   *)
(* no invariant: each half of the module has its own, and the last one     *)
(* puts them together.                                                     *)
(***************************************************************************)
EXTENDS Restream, FiniteSetTheorems, TLAPS

-----------------------------------------------------------------------------
(* Finite sets of positions.                                                *)

LEMMA Below == ASSUME NEW n \in Nat PROVE IsFiniteSet(0..n - 1) /\ Cardinality(0..n - 1) = n
BY FS_Interval

(* What is below a natural number among distinct natural numbers is no more than it. *)
LEMMA FewBelow ==
  ASSUME NEW rows, NEW D, D = DOMAIN rows, IsFiniteSet(D), \A d \in D : rows[d] \in Nat,
         \A d, e \in D : rows[d] = rows[e] => d = e,
         NEW d \in D
  PROVE  Cardinality({e \in D : rows[e] < rows[d]}) \in 0..rows[d]
<1> DEFINE below == {e \in D : rows[e] < rows[d]}
           f == [e \in below |-> rows[e]]
<1>1. below \in SUBSET D
  OBVIOUS
<1>2. IsFiniteSet(below) /\ Cardinality(below) \in Nat
  BY <1>1, FS_Subset, FS_CardinalityType
<1>3. IsFiniteSet(0..rows[d] - 1) /\ Cardinality(0..rows[d] - 1) = rows[d]
  BY Below
<1>4. f \in [below -> 0..rows[d] - 1]
  OBVIOUS
<1>5. \A x, y \in below : f[x] = f[y] => x = y
  OBVIOUS
<1> HIDE DEF below, f
<1>6. ~(rows[d] < Cardinality(below))
  BY <1>2, <1>3, <1>4, <1>5, FS_PigeonHole
<1> QED
  BY <1>2, <1>6 DEF below

(* And the count grows with the number. *)
LEMMA MoreBelow ==
  ASSUME NEW rows, NEW D, D = DOMAIN rows, IsFiniteSet(D), \A d \in D : rows[d] \in Nat,
         NEW d \in D, NEW e \in D, rows[e] < rows[d]
  PROVE  Cardinality({x \in D : rows[x] < rows[e]}) < Cardinality({x \in D : rows[x] < rows[d]})
<1> DEFINE below(r) == {x \in D : rows[x] < rows[r]}
<1>1. below(e) \in SUBSET below(d) /\ e \in below(d) /\ e \notin below(e)
  OBVIOUS
<1>2. below(d) \in SUBSET D
  OBVIOUS
<1>3. IsFiniteSet(below(d))
  BY <1>2, FS_Subset
<1> HIDE DEF below
<1>4. IsFiniteSet(below(e)) /\ Cardinality(below(e)) <= Cardinality(below(d))
      /\ Cardinality(below(e)) # Cardinality(below(d))
  BY <1>1, <1>3, FS_Subset
<1>5. Cardinality(below(e)) \in Nat /\ Cardinality(below(d)) \in Nat
  BY <1>3, <1>4, FS_CardinalityType
<1>6. Cardinality(below(e)) < Cardinality(below(d))
  BY <1>4, <1>5
<1> QED
  BY <1>6 DEF below

(* Distinct positions below the number of rows leave no gap. *)
LEMMA NoGap ==
  ASSUME NEW D, IsFiniteSet(D), NEW pos \in [D -> 0..Cardinality(D) - 1],
         \A d, e \in D : pos[d] = pos[e] => d = e
  PROVE  {pos[d] : d \in D} = 0..Cardinality(D) - 1
<1>1. Cardinality(D) \in Nat
  BY FS_CardinalityType
<1> DEFINE T == 0..Cardinality(D) - 1
<1>2. IsFiniteSet(T) /\ Cardinality(T) = Cardinality(D)
  BY <1>1, FS_Interval
<1>3. pos \in [D -> T] /\ \A d, e \in D : pos[d] = pos[e] => d = e
  OBVIOUS
<1> HIDE DEF T
<1>4. pos \in Injection(D, T)
  BY <1>3 DEF Injection, IsInjective
<1>5. pos \in Surjection(D, T)
  BY <1>2, <1>4, FS_Injection
<1>6. \A t \in T : \E d \in D : pos[d] = t
  BY <1>5 DEF Surjection
<1>7. \A d \in D : pos[d] \in T
  BY <1>3
<1>8. ASSUME NEW t \in T PROVE t \in {pos[d] : d \in D}
  BY <1>6
<1>9. {pos[d] : d \in D} \subseteq T
  BY <1>7
<1>10. {pos[d] : d \in D} = T
  BY <1>8, <1>9
<1> QED
  BY <1>10 DEF T

-----------------------------------------------------------------------------
(* The owner's destinations.                                                *)

Count == Cardinality(DOMAIN destinations)

Made ==
    /\ edits \in [left: Nat, made: Nat]
    /\ edits.made + edits.left <= 2 + MaxDisturbances
    /\ DOMAIN destinations \subseteq 1..edits.made

Committed ==
    /\ IsFiniteSet(DOMAIN destinations) /\ Count <= MAX_RESTREAM_DESTINATIONS
    /\ \A d \in DOMAIN destinations :
         destinations[d] \in [position: 0..2, enabled: BOOLEAN] /\ destinations[d].position < Count
    /\ \A d, e \in DOMAIN destinations : destinations[d].position = destinations[e].position => d = e

(* A transaction that renumbers holds rows of the table at distinct positions. *)
EditRows ==
    /\ DOMAIN edit.rows \subseteq DOMAIN destinations
    /\ \A d \in DOMAIN edit.rows : edit.rows[d] \in 0..2
    /\ \A d, e \in DOMAIN edit.rows : edit.rows[d] = edit.rows[e] => d = e

Renumbering ==
    /\ edit \in [at: {"none", "renumbering"}, rows: {edit.rows}]
    /\ edit.rows = [d \in DOMAIN edit.rows |-> edit.rows[d]]
    /\ edit.at = "none" => DOMAIN edit.rows = {}
    /\ EditRows

PositionsShown == page.positions \in { 0..(n - 1) : n \in 0..MAX_RESTREAM_DESTINATIONS }

DInv == Made /\ Committed /\ Renumbering /\ PositionsShown

LEMMA PositionsFill ==
  ASSUME Committed
  PROVE  /\ Count \in 0..MAX_RESTREAM_DESTINATIONS
         /\ {destinations[d].position : d \in DOMAIN destinations} = 0..(Count - 1)
<1> DEFINE D == DOMAIN destinations
           pos == [d \in D |-> destinations[d].position]
<1>1. IsFiniteSet(D) /\ Cardinality(D) \in Nat
  BY FS_CardinalityType DEF Committed
<1>2. pos \in [D -> 0..Cardinality(D) - 1]
  BY <1>1 DEF Committed, Count
<1>3. \A d, e \in D : pos[d] = pos[e] => d = e
  BY DEF Committed
<1>4. {pos[d] : d \in D} = {destinations[d].position : d \in D}
  OBVIOUS
<1> HIDE DEF D, pos
<1>5. {pos[d] : d \in D} = 0..Cardinality(D) - 1
  BY <1>1, <1>2, <1>3, NoGap
<1> QED
  BY <1>1, <1>4, <1>5 DEF D, Count, Committed, MAX_RESTREAM_DESTINATIONS

LEMMA InitDestinations == RestreamInit => DInv
<1> SUFFICES ASSUME RestreamInit PROVE DInv
  OBVIOUS
<1>0. IsFiniteSet(1..2) /\ Cardinality(1..2) = IF 1 > 2 THEN 0 ELSE 2 - 1 + 1
  BY FS_Interval, 1 \in Int, 2 \in Int, Zenon
<1>1. DOMAIN destinations = 1..2 /\ IsFiniteSet(1..2) /\ Cardinality(1..2) = 2
  BY <1>0 DEF RestreamInit
<1>2. Made
  BY RestreamBounds DEF RestreamInit, Made
<1>3. Committed
  BY <1>1 DEF RestreamInit, Committed, Count, MAX_RESTREAM_DESTINATIONS
<1>4. Renumbering
  BY DEF RestreamInit, Renumbering, EditRows, NoEdit
<1>5. 0..(0 - 1) = {}
  OBVIOUS
<1>6. PositionsShown
  BY <1>5 DEF RestreamInit, PositionsShown, NoView, MAX_RESTREAM_DESTINATIONS
<1> QED
  BY <1>2, <1>3, <1>4, <1>6 DEF DInv

LEMMA Spends ==
  ASSUME Made, UNCHANGED destinations, UNCHANGED edits \/ Disturbs
  PROVE  Made'
<1>1. CASE UNCHANGED edits
  BY <1>1 DEF Made
<1>2. CASE Disturbs
  <2>1. edits' = [left |-> edits.left - 1, made |-> edits.made] /\ edits.left > 0
    BY <1>2 DEF Made, Disturbs, Edited
  <2>2. edits.left - 1 \in Nat /\ edits.made \in Nat
    BY <2>1 DEF Made
  <2>3. edits' \in [left: Nat, made: Nat] /\ edits'.made = edits.made /\ edits'.left = edits.left - 1
    BY <2>1, <2>2
  <2>4. edits'.made + edits'.left <= 2 + MaxDisturbances
    BY <2>2, <2>3, RestreamBounds DEF Made
  <2> QED
    BY <2>3, <2>4 DEF Made
<1> QED
  BY <1>1, <1>2

LEMMA CreateKeeps == DInv /\ createDestination => DInv'
<1> SUFFICES ASSUME DInv, createDestination PROVE DInv'
  OBVIOUS
<1> DEFINE id == edits.made + 1
           D == DOMAIN destinations
<1>1. edits' = [left |-> edits.left - 1, made |-> id] /\ edits.left > 0
  BY DEF createDestination, Edited, DInv, Made
<1>2. id \in Nat /\ id \notin D /\ edits.made \in Nat
  BY DEF DInv, Made
<1>3. IsFiniteSet(D) /\ Cardinality(D) \in Nat
  BY FS_CardinalityType DEF DInv, Committed
<1>4. Renumbering' /\ PositionsShown'
  <2>1. PositionsShown'
    BY DEF createDestination, DInv, PositionsShown
  <2>2. edit' = edit /\ DOMAIN edit.rows = {}
    BY DEF createDestination, DInv, Renumbering
  <2> QED
    BY <2>1, <2>2 DEF DInv, Renumbering, EditRows
<1>5. CASE Full(Count)
  <2>1. destinations' = destinations
    BY <1>5 DEF createDestination, Count
  <2>2. Made'
    BY <1>1, <2>1 DEF DInv, Made
  <2>3. Committed'
    BY <2>1 DEF DInv, Committed, Count
  <2> QED
    BY <1>4, <2>2, <2>3 DEF DInv
<1>6. CASE ~Full(Count)
  <2>1. Count < 3
    BY <1>3, <1>6 DEF Full, MAX_RESTREAM_DESTINATIONS, Count
  <2>2. destinations' = [d \in D \cup {id} |->
                           IF d \in D THEN destinations[d] ELSE [position |-> Count, enabled |-> TRUE]]
    BY <1>1, <1>6 DEF createDestination, Count
  <2>3. IsFiniteSet(D \cup {id}) /\ Cardinality(D \cup {id}) = Count + 1
    BY <1>2, <1>3, FS_AddElement DEF Count
  <2>4. DOMAIN destinations' = D \cup {id} /\ Count' = Count + 1 /\ Count \in Nat
    BY <1>3, <2>2, <2>3 DEF Count
  <2>5. Made'
    BY <1>1, <1>2, <2>4 DEF DInv, Made
  <2>6. Committed'
    BY <1>2, <2>1, <2>2, <2>3, <2>4 DEF DInv, Committed, MAX_RESTREAM_DESTINATIONS
  <2> QED
    BY <1>4, <2>5, <2>6 DEF DInv
<1> QED
  BY <1>5, <1>6

(* Every other step of the owner, and every step of the node, leaves the rows alone. *)
LEMMA RestKeeps ==
  ASSUME DInv, UNCHANGED <<destinations, edit>>, UNCHANGED edits \/ Disturbs,
         page'.positions \in {page.positions, {}, {destinations[d].position : d \in DOMAIN destinations}}
  PROVE  DInv'
<1>1. Made'
  BY Spends DEF DInv
<1>2. Committed'
  BY DEF DInv, Committed, Count
<1>3. Renumbering'
  BY DEF DInv, Renumbering, EditRows
<1>4. PositionsShown'
  <2>1. {} = 0..(0 - 1) /\ 0 \in 0..MAX_RESTREAM_DESTINATIONS
    BY DEF MAX_RESTREAM_DESTINATIONS
  <2>2. {destinations[d].position : d \in DOMAIN destinations} \in { 0..(n - 1) : n \in 0..MAX_RESTREAM_DESTINATIONS }
    BY PositionsFill DEF DInv
  <2>3. {} \in { 0..(n - 1) : n \in 0..MAX_RESTREAM_DESTINATIONS }
    BY <2>1
  <2> QED
    BY <2>2, <2>3 DEF DInv, PositionsShown
<1> QED
  BY <1>1, <1>2, <1>3, <1>4 DEF DInv

LEMMA EnableKeeps == DInv /\ setDestinationEnabled => DInv'
<1> SUFFICES ASSUME DInv, setDestinationEnabled PROVE DInv'
  OBVIOUS
<1>1. PICK d \in DOMAIN destinations, enabled \in BOOLEAN :
        destinations' = [destinations EXCEPT ![d].enabled = enabled]
  BY DEF setDestinationEnabled
<1>2. /\ DOMAIN destinations' = DOMAIN destinations
      /\ \A e \in DOMAIN destinations :
           /\ destinations'[e] \in [position: 0..2, enabled: BOOLEAN]
           /\ destinations'[e].position = destinations[e].position
  BY <1>1 DEF DInv, Committed
<1>3. Committed'
  BY <1>2 DEF DInv, Committed, Count
<1>4. Made'
  <2>1. edits' = [left |-> edits.left - 1, made |-> edits.made + 0] /\ edits.left > 0
    BY DEF setDestinationEnabled, Disturbs, Edited
  <2>2. edits.left - 1 \in Nat /\ edits.made + 0 = edits.made /\ edits.made \in Nat
    BY <2>1 DEF DInv, Made
  <2>3. edits' \in [left: Nat, made: Nat] /\ edits'.made = edits.made /\ edits'.left = edits.left - 1
    BY <2>1, <2>2
  <2>4. edits'.made + edits'.left <= 2 + MaxDisturbances
    BY <2>2, <2>3, RestreamBounds DEF DInv, Made
  <2> QED
    BY <1>2, <2>3, <2>4 DEF DInv, Made
<1>5. Renumbering' /\ PositionsShown'
  BY <1>2 DEF setDestinationEnabled, DInv, Renumbering, EditRows, PositionsShown
<1> QED
  BY <1>3, <1>4, <1>5 DEF DInv

LEMMA DeleteKeeps == DInv /\ deleteDestination => DInv'
<1> SUFFICES ASSUME DInv, deleteDestination PROVE DInv'
  OBVIOUS
<1>1. PICK d \in DOMAIN destinations :
        edit' = [at |-> "renumbering", rows |-> [e \in DOMAIN destinations \ {d} |-> destinations[e].position]]
  BY DEF deleteDestination
<1>2. UNCHANGED <<destinations, page>> /\ Disturbs
  BY DEF deleteDestination
<1>3. Made' /\ Committed' /\ PositionsShown'
  BY <1>2, Spends DEF DInv, Committed, Count, PositionsShown
<1>4. edit'.at = "renumbering" /\ edit'.rows = [e \in DOMAIN destinations \ {d} |-> destinations[e].position]
  BY <1>1
<1>5. EditRows'
  BY <1>2, <1>4 DEF DInv, Committed, EditRows
<1>6. Renumbering'
  BY <1>1, <1>4, <1>5 DEF Renumbering, EditRows
<1> QED
  BY <1>3, <1>6 DEF DInv

(* "Moving rows one at a time in ascending order always targets a free lower slot." *)
LEMMA TargetIsFree ==
  ASSUME DInv, NEW d \in DOMAIN edit.rows, Turn(d)
  PROVE  /\ Rank(d) \in 0..2 /\ Rank(d) < edit.rows[d]
         /\ \A e \in DOMAIN edit.rows : edit.rows[e] # Rank(d)
<1> DEFINE D == DOMAIN edit.rows
           rows == edit.rows
<1>1. IsFiniteSet(D)
  BY FS_Subset DEF DInv, Committed, Renumbering, EditRows
<1>2. /\ \A e \in D : rows[e] \in 0..2
      /\ \A e, f \in D : rows[e] = rows[f] => e = f
  BY DEF DInv, Renumbering, EditRows
<1>3. \A e \in D : Rank(e) \in 0..rows[e]
  <2> SUFFICES ASSUME NEW e \in D PROVE Rank(e) \in 0..rows[e]
    OBVIOUS
  <2>1. \A x \in D : rows[x] \in Nat
    BY <1>2
  <2> QED
    BY <1>1, <1>2, <2>1, FewBelow DEF Rank
<1>4. Rank(d) \in 0..2 /\ Rank(d) < rows[d]
  BY <1>2, <1>3 DEF Turn
<1>5. ASSUME NEW e \in D, rows[e] = Rank(d) PROVE FALSE
  <2>1. rows[e] < rows[d]
    BY <1>4, <1>5
  <2>2. Rank(e) = rows[e]
    BY <1>2, <2>1 DEF Turn
  <2>3. \A x \in D : rows[x] \in Nat
    BY <1>2
  <2>4. Rank(e) < Rank(d)
    BY <1>1, <2>1, <2>3, MoreBelow DEF Rank
  <2> QED
    BY <1>2, <1>5, <2>2, <2>4
<1> QED
  BY <1>4, <1>5

LEMMA RenumberKeeps == DInv /\ Renumbers => DInv'
<1> SUFFICES ASSUME DInv, Renumbers PROVE DInv'
  OBVIOUS
<1>1. PICK d \in DOMAIN edit.rows : Turn(d) /\ edit' = [edit EXCEPT !.rows[d] = Rank(d)]
  BY DEF Renumbers
<1>2. UNCHANGED <<destinations, page, edits>>
  BY DEF Renumbers
<1>3. Made' /\ Committed' /\ PositionsShown'
  BY <1>2, Spends DEF DInv, Committed, Count, PositionsShown
<1>4. edit'.at = "renumbering" /\ edit'.rows = [edit.rows EXCEPT ![d] = Rank(d)]
      /\ edit' \in [at: {"none", "renumbering"}, rows: {edit'.rows}]
  BY <1>1 DEF Renumbers, DInv, Renumbering
<1>5. /\ DOMAIN edit'.rows = DOMAIN edit.rows
      /\ \A e \in DOMAIN edit.rows : edit'.rows[e] = IF e = d THEN Rank(d) ELSE edit.rows[e]
      /\ edit'.rows = [e \in DOMAIN edit'.rows |-> edit'.rows[e]]
  BY <1>4
<1>6. EditRows'
  BY <1>1, <1>2, <1>5, TargetIsFree DEF DInv, Renumbering, EditRows
<1>7. Renumbering'
  BY <1>4, <1>5, <1>6 DEF Renumbering, EditRows
<1> QED
  BY <1>3, <1>7 DEF DInv

LEMMA CommitKeeps == DInv /\ DeletionCommits => DInv'
<1> SUFFICES ASSUME DInv, DeletionCommits PROVE DInv'
  OBVIOUS
<1> DEFINE D == DOMAIN edit.rows
<1>1. /\ destinations' = [d \in D |-> [destinations[d] EXCEPT !.position = edit.rows[d]]]
      /\ edit' = NoEdit /\ UNCHANGED <<edits, page>>
      /\ \A d \in D : edit.rows[d] = Rank(d)
  BY DEF DeletionCommits
<1>2. D \in SUBSET DOMAIN destinations /\ IsFiniteSet(DOMAIN destinations) /\ Count <= MAX_RESTREAM_DESTINATIONS
  BY DEF DInv, Committed, Renumbering, EditRows
<1>3. IsFiniteSet(D) /\ Cardinality(D) <= Count /\ Cardinality(D) \in Nat /\ Count \in Nat
  BY <1>2, FS_Subset, FS_CardinalityType DEF Count
<1>4. Made'
  BY <1>1, <1>2 DEF DInv, Made
<1>5. ASSUME NEW d \in D PROVE edit.rows[d] < Cardinality(D)
  <2> DEFINE below == {e \in D : edit.rows[e] < edit.rows[d]}
  <2>1. below \in SUBSET D /\ d \notin below
    BY DEF DInv, Renumbering, EditRows
  <2>2. Cardinality(below) = edit.rows[d]
    BY <1>1 DEF Rank
  <2> HIDE DEF below
  <2>3. IsFiniteSet(below) /\ Cardinality(below) <= Cardinality(D) /\ Cardinality(below) # Cardinality(D)
    BY <1>3, <2>1, FS_Subset
  <2>4. Cardinality(below) \in Nat
    BY <2>3, FS_CardinalityType
  <2> QED
    BY <1>3, <2>2, <2>3, <2>4
<1>6. /\ DOMAIN destinations' = D
      /\ \A d \in D : /\ destinations'[d] \in [position: 0..2, enabled: BOOLEAN]
                      /\ destinations'[d].position = edit.rows[d]
  BY <1>1, <1>2 DEF DInv, Committed, Renumbering, EditRows
<1>7. Committed'
  <2>1. Count' = Cardinality(D) /\ Count' <= MAX_RESTREAM_DESTINATIONS
    BY <1>2, <1>3, <1>6 DEF Count, MAX_RESTREAM_DESTINATIONS
  <2> QED
    BY <1>3, <1>5, <1>6, <2>1 DEF DInv, Committed, Renumbering, EditRows
<1>8. Renumbering' /\ PositionsShown'
  BY <1>1 DEF DInv, Renumbering, EditRows, NoEdit, PositionsShown
<1> QED
  BY <1>4, <1>7, <1>8 DEF DInv

-----------------------------------------------------------------------------
(* The publishers' handlers.                                                *)

Early == {"none", "asking", "reading", "answered", "accepted"}
Stages == Early \cup {"online", "configuring", "configured", "failing", "deleting", "ending", "done"}
Upward == [at: Stages, path: Paths, sees: SUBSET Ids, session: 0..MaxPublishes, lost: BOOLEAN]
Downward == [at: {"none", "offline", "deleting", "ending", "done"}, session: 0..MaxPublishes]

MediaPath == [publisher: 0..MaxPublishes, forwards: 0..MaxPublishes, failed: BOOLEAN]

NodeTyped ==
    /\ key \in Paths
    /\ sessions \in [Publishers -> [status: {"none", "connecting", "live", "ended"}, fresh: BOOLEAN]]
    /\ active \in [Paths -> 0..MaxPublishes]
    /\ beats \subseteq Publishers /\ reports \subseteq Publishers
    /\ up \in [Publishers -> Upward]
    /\ down \in [Publishers -> Downward]
    /\ media \in [Paths -> MediaPath]

(* A handler that configures does it for a session. *)
Configures == \A n \in Publishers : up[n].at \in {"configuring", "configured", "failing"} => up[n].session # 0

(* The hooks of a publisher come in order: its path is online before it is offline. *)
HooksInOrder ==
    /\ \A n \in Publishers : up[n].at \in Early => down[n].at = "none"
    /\ \A p \in Paths, n \in Publishers :
         media[p].publisher = n => up[n].path = p /\ up[n].at \notin Early /\ down[n].at = "none"

HandledBy(n, p) == up[n].path = p /\ (up[n].at \in {"configured", "deleting"} \/ down[n].at = "deleting")

PathsHeld ==
    \A p \in Paths :
      \/ media[p].forwards = 0 \/ media[p].failed \/ active[p] # 0
      \/ \E n \in Publishers : HandledBy(n, p)

OneOpen == \A s, o \in Publishers : Open(s) /\ Open(o) => s = o

NInv == NodeTyped /\ Configures /\ HooksInOrder /\ PathsHeld /\ OneOpen

LEMMA InitNode == RestreamInit => NInv
<1> SUFFICES ASSUME RestreamInit PROVE NInv
  OBVIOUS
<1>1. NodeTyped
  BY RestreamBounds DEF RestreamInit, NodeTyped, MediaPath, Upward, Downward, Stages, Early, NoSession, NoPublisher, Publishers, Paths
<1>2. Configures /\ HooksInOrder /\ PathsHeld /\ OneOpen
  BY DEF RestreamInit, Configures, HooksInOrder, PathsHeld, OneOpen, Open, NoSession, NoPublisher, Early, Publishers
<1> QED
  BY <1>1, <1>2 DEF NInv

(* What every step of a handler leaves: the tables and the goroutines are of their kinds. *)
Tables ==
    /\ key \in Paths
    /\ sessions \in [Publishers -> [status: {"none", "connecting", "live", "ended"}, fresh: BOOLEAN]]
    /\ active \in [Paths -> 0..MaxPublishes]
    /\ beats \subseteq Publishers /\ reports \subseteq Publishers
    /\ media \in [Paths -> MediaPath]
    /\ OneOpen

Quiet(p) == media[p].forwards = 0 \/ media[p].failed \/ active[p] # 0

SamePublisher == \A p \in Paths : media'[p].publisher = media[p].publisher

(* A step of a handler of publisher n, up to what it leaves of the paths. *)
LEMMA UpwardStep ==
  ASSUME NInv, NEW n \in Publishers, NEW r \in Upward, up' = [up EXCEPT ![n] = r],
         UNCHANGED down, Tables', SamePublisher,
         r.at \in Early => up[n].at \in Early,
         r.path = up[n].path \/ up[n].at = "none",
         r.at \in {"configuring", "configured", "failing"} => r.session # 0,
         \A p \in Paths :
           \/ Quiet(p)'
           \/ r.path = p /\ r.at \in {"configured", "deleting"}
           \/ /\ UNCHANGED <<media[p], active[p]>>
              /\ ~(up[n].path = p /\ up[n].at \in {"configured", "deleting"})
  PROVE  NInv'
<1>1. up' \in [Publishers -> Upward] /\ up'[n] = r /\ \A m \in Publishers \ {n} : up'[m] = up[m]
  BY DEF NInv, NodeTyped
<1>2. NodeTyped'
  BY <1>1 DEF NInv, NodeTyped, Tables
<1>3. Configures'
  BY <1>1 DEF NInv, Configures
<1>4. HooksInOrder'
  BY <1>1 DEF NInv, HooksInOrder, SamePublisher, Early
<1>5. PathsHeld'
  <2> SUFFICES ASSUME NEW p \in Paths, ~Quiet(p)' PROVE \E m \in Publishers : HandledBy(m, p)'
    BY DEF PathsHeld, Quiet
  <2>1. CASE r.path = p /\ r.at \in {"configured", "deleting"}
    BY <1>1, <2>1 DEF HandledBy
  <2>2. CASE /\ UNCHANGED <<media[p], active[p]>>
             /\ ~(up[n].path = p /\ up[n].at \in {"configured", "deleting"})
    <3>1. PICK m \in Publishers : HandledBy(m, p)
      BY <2>2 DEF NInv, PathsHeld, Quiet
    <3>2. HandledBy(m, p)'
      BY <1>1, <2>2, <3>1 DEF HandledBy, NInv, HooksInOrder, Early
    <3> QED
      BY <3>2
  <2> QED
    BY <2>1, <2>2
<1> QED
  BY <1>2, <1>3, <1>4, <1>5 DEF NInv, Tables

(* A step of a publisher's offline hook. *)
LEMMA DownwardStep ==
  ASSUME NInv, NEW n \in Publishers, NEW r \in Downward, down' = [down EXCEPT ![n] = r],
         UNCHANGED up, Tables', up[n].at \notin Early,
         \A p \in Paths : (media'[p].publisher = media[p].publisher /\ media[p].publisher # n) \/ media'[p].publisher = 0,
         \A p \in Paths :
           \/ Quiet(p)'
           \/ up[n].path = p /\ r.at = "deleting"
           \/ UNCHANGED <<media[p].forwards, media[p].failed, active[p]>> /\ ~(up[n].path = p /\ down[n].at = "deleting")
  PROVE  NInv'
<1>1. down' \in [Publishers -> Downward] /\ down'[n] = r /\ \A m \in Publishers \ {n} : down'[m] = down[m]
  BY DEF NInv, NodeTyped
<1>2. NodeTyped'
  BY <1>1 DEF NInv, NodeTyped, Tables
<1>3. Configures'
  BY DEF NInv, Configures
<1>4. HooksInOrder'
  BY <1>1 DEF NInv, HooksInOrder, Publishers
<1>5. PathsHeld'
  <2> SUFFICES ASSUME NEW p \in Paths, ~Quiet(p)' PROVE \E m \in Publishers : HandledBy(m, p)'
    BY DEF PathsHeld, Quiet
  <2>1. CASE up[n].path = p /\ r.at = "deleting"
    BY <1>1, <2>1 DEF HandledBy
  <2>2. CASE UNCHANGED <<media[p].forwards, media[p].failed, active[p]>> /\ ~(up[n].path = p /\ down[n].at = "deleting")
    <3>1. PICK m \in Publishers : HandledBy(m, p)
      BY <2>2 DEF NInv, PathsHeld, Quiet
    <3>2. HandledBy(m, p)'
      BY <1>1, <2>2, <3>1 DEF HandledBy
    <3> QED
      BY <3>2
  <2> QED
    BY <2>1, <2>2
<1> QED
  BY <1>2, <1>3, <1>4, <1>5 DEF NInv, Tables

(* MediaMTX has a new publisher of a path, or none. *)
OnlyPublisher(path, n) ==
    /\ media' \in [Paths -> MediaPath]
    /\ \A p \in Paths : /\ media'[p].forwards = media[p].forwards /\ media'[p].failed = media[p].failed
                        /\ media'[p].publisher = IF p = path THEN n ELSE media[p].publisher

LEMMA PublisherSet ==
  ASSUME NodeTyped, NEW path \in Paths, NEW n \in 0..MaxPublishes,
         media' = [media EXCEPT ![path].publisher = n]
  PROVE  OnlyPublisher(path, n)
<1> DEFINE r == [media[path] EXCEPT !.publisher = n]
<1>1. media' = [media EXCEPT ![path] = r] /\ media \in [Paths -> MediaPath]
  BY DEF NodeTyped
<1>2. r \in MediaPath /\ r.publisher = n /\ r.forwards = media[path].forwards /\ r.failed = media[path].failed
  BY <1>1 DEF MediaPath
<1> HIDE DEF r
<1> QED
  BY <1>1, <1>2 DEF OnlyPublisher

(* A step that only the sessions and the heartbeats see. *)
LEMMA SessionStep ==
  ASSUME NInv, Tables', UNCHANGED <<active, up, down, media>>
  PROVE  NInv'
BY DEF NInv, NodeTyped, Tables, Configures, HooksInOrder, PathsHeld, HandledBy

LEMMA TablesKept == ASSUME NInv, UNCHANGED <<key, sessions, active, beats, reports, media>> PROVE Tables' /\ SamePublisher
BY DEF NInv, NodeTyped, Tables, OneOpen, Open, SamePublisher

LEMMA AuthorizeKeeps == ASSUME NInv, NEW n \in Publishers, authorize(n) PROVE NInv'
<1>1. PICK path \in 1..key :
        up' = [up EXCEPT ![n].path = path,
                         ![n].at = IF active[path] # 0 \/ Pending(path) THEN "done" ELSE "asking"]
  BY DEF authorize
<1> DEFINE at == IF active[path] # 0 \/ Pending(path) THEN "done" ELSE "asking"
<1>2. path \in Paths /\ up[n] \in Upward
  BY RestreamBounds DEF NInv, NodeTyped, Paths
<1>3. at \in {"done", "asking"} /\ up' = [up EXCEPT ![n].path = path, ![n].at = at]
  BY <1>1
<1> HIDE DEF at
<1> DEFINE r == [up[n] EXCEPT !.path = path, !.at = at]
<1>4. /\ up' = [up EXCEPT ![n] = r] /\ up[n].at = "none"
      /\ UNCHANGED <<key, sessions, active, beats, reports, down, media>>
  BY <1>3 DEF authorize
<1>5. r \in Upward /\ r.at = at
  BY <1>2, <1>3 DEF Upward, Stages, Early
<1> HIDE DEF r
<1> QED
  BY <1>3, <1>4, <1>5, TablesKept, UpwardStep DEF Early

LEMMA AuthorizePublisherKeeps ==
  ASSUME NInv, Made, NEW n \in Publishers, authorizePublisher(n) PROVE NInv'
<1> DEFINE enabled == {d \in DOMAIN destinations : destinations[d].enabled}
           at == IF up[n].path # key \/ enabled = {} THEN "answered" ELSE "reading"
           sees == IF up[n].path # key THEN {} ELSE enabled
           r == [up[n] EXCEPT !.at = at, !.sees = sees]
<1>1. enabled \in SUBSET Ids
  BY RestreamBounds DEF Made, Ids
<1>2. at \in {"answered", "reading"} /\ sees \in SUBSET Ids /\ up[n] \in Upward
  BY <1>1 DEF NInv, NodeTyped
<1>3. /\ up' = [up EXCEPT ![n].at = at, ![n].sees = sees] /\ up[n].at = "asking"
      /\ UNCHANGED <<key, sessions, active, beats, reports, down, media>>
  BY DEF authorizePublisher
<1> HIDE DEF at, sees
<1>4. up' = [up EXCEPT ![n] = r]
  BY <1>3
<1>5. r \in Upward /\ r.at = at /\ r.path = up[n].path
  BY <1>2 DEF Upward, Stages, Early
<1> HIDE DEF r
<1> QED
  BY <1>2, <1>3, <1>4, <1>5, TablesKept, UpwardStep DEF Early

LEMMA SessionInsertedKeeps ==
  ASSUME NInv, NEW n \in Publishers, SessionInserted(n) PROVE NInv'
<1>1. up[n] \in Upward /\ up[n].at = "reading" /\ n \in 0..MaxPublishes
  BY RestreamBounds DEF NInv, NodeTyped, SessionInserted, Publishers
<1>2. UNCHANGED <<key, active, beats, reports, down, media>>
  BY DEF SessionInserted
<1>3. CASE ~(up[n].sees \subseteq DOMAIN destinations)
  <2> DEFINE r == [up[n] EXCEPT !.at = "answered", !.sees = {}]
  <2>1. up' = [up EXCEPT ![n] = r] /\ UNCHANGED sessions
    BY <1>3 DEF SessionInserted
  <2>2. r \in Upward /\ r.at = "answered" /\ r.path = up[n].path
    BY <1>1 DEF Upward, Stages, Early
  <2> HIDE DEF r
  <2> QED
    BY <1>1, <1>2, <2>1, <2>2, TablesKept, UpwardStep DEF Early
<1>4. CASE up[n].sees \subseteq DOMAIN destinations
  <2> DEFINE r == [up[n] EXCEPT !.at = "answered", !.session = n, !.sees = {}]
  <2>1. up' = [up EXCEPT ![n] = r]
    BY <1>4 DEF SessionInserted
  <2>2. r \in Upward /\ r.at = "answered" /\ r.path = up[n].path
    BY <1>1 DEF Upward, Stages, Early
  <2>3. sessions' = [s \in Publishers |->
                       IF s = n THEN [status |-> "connecting", fresh |-> TRUE]
                       ELSE IF Open(s) THEN [sessions[s] EXCEPT !.status = "ended"] ELSE sessions[s]]
    BY <1>4 DEF SessionInserted
  <2>4. \A s \in Publishers : sessions[s] \in [status: {"none", "connecting", "live", "ended"}, fresh: BOOLEAN]
    BY DEF NInv, NodeTyped
  <2>5. /\ sessions' \in [Publishers -> [status: {"none", "connecting", "live", "ended"}, fresh: BOOLEAN]]
        /\ \A s \in Publishers \ {n} : sessions'[s].status \notin {"connecting", "live"}
    BY <2>3, <2>4 DEF Open
  <2>6. OneOpen'
    BY <2>5 DEF OneOpen, Open
  <2>7. Tables' /\ SamePublisher
    BY <1>2, <2>5, <2>6 DEF NInv, NodeTyped, Tables, SamePublisher
  <2> HIDE DEF r
  <2> QED
    BY <1>1, <1>2, <2>1, <2>2, <2>7, UpwardStep DEF Early
<1> QED
  BY <1>3, <1>4

LEMMA TimesOutKeeps == ASSUME NInv, NEW n \in Publishers, TimesOut(n) PROVE NInv'
<1> DEFINE r == [up[n] EXCEPT !.lost = TRUE]
<1>1. /\ up' = [up EXCEPT ![n] = r] /\ up[n].at \in {"asking", "reading", "answered"}
      /\ UNCHANGED <<key, sessions, active, beats, reports, down, media>>
  BY DEF TimesOut
<1>2. r \in Upward /\ r.at = up[n].at /\ r.path = up[n].path
  BY DEF NInv, NodeTyped, Upward
<1> HIDE DEF r
<1> QED
  BY <1>1, <1>2, TablesKept, UpwardStep DEF Early

LEMMA AnsweredKeeps == ASSUME NInv, NEW n \in Publishers, Answered(n) PROVE NInv'
<1>1. PICK at \in {"accepted", "ending", "done"}, taken \in BOOLEAN :
        /\ up' = [up EXCEPT ![n].at = at]
        /\ active' = [active EXCEPT ![up[n].path] = IF taken THEN n ELSE @]
  BY DEF Answered
<1> DEFINE r == [up[n] EXCEPT !.at = at]
<1>2. /\ up' = [up EXCEPT ![n] = r] /\ up[n].at = "answered"
      /\ UNCHANGED <<key, sessions, beats, reports, down, media>>
  BY <1>1 DEF Answered
<1>3. r \in Upward /\ r.at = at /\ r.path = up[n].path /\ up[n].path \in Paths
  BY DEF NInv, NodeTyped, Upward, Stages, Early
<1>4. /\ active' \in [Paths -> 0..MaxPublishes] /\ n # 0
      /\ \A p \in Paths : active'[p] # active[p] => active'[p] # 0
  BY <1>1, <1>3, RestreamBounds DEF NInv, NodeTyped, Publishers
<1>5. Tables' /\ SamePublisher
  BY <1>2, <1>4 DEF NInv, NodeTyped, Tables, OneOpen, Open, SamePublisher
<1>6. \A p \in Paths : Quiet(p)' \/ UNCHANGED <<media[p], active[p]>>
  BY <1>2, <1>4 DEF Quiet
<1> HIDE DEF r
<1> QED
  BY <1>2, <1>3, <1>5, <1>6, UpwardStep DEF Early

LEMMA LeavesEarlyKeeps == ASSUME NInv, NEW n \in Publishers, LeavesEarly(n) PROVE NInv'
<1> DEFINE r == [up[n] EXCEPT !.at = "done"]
<1>1. /\ up' = [up EXCEPT ![n] = r] /\ up[n].at = "accepted"
      /\ UNCHANGED <<key, sessions, active, beats, reports, down, media>>
  BY DEF LeavesEarly
<1>2. r \in Upward /\ r.at = "done" /\ r.path = up[n].path
  BY DEF NInv, NodeTyped, Upward, Stages, Early
<1> HIDE DEF r
<1> QED
  BY <1>1, <1>2, TablesKept, UpwardStep DEF Early

LEMMA AvailableKeeps == ASSUME NInv, NEW n \in Publishers, Available(n) PROVE NInv'
<1> DEFINE r == [up[n] EXCEPT !.at = "online"]
           path == up[n].path
<1>1. /\ up' = [up EXCEPT ![n] = r] /\ up[n].at = "accepted"
      /\ media' = [media EXCEPT ![path].publisher = n] /\ media[path].publisher = 0
      /\ UNCHANGED <<key, sessions, active, beats, reports, down>>
  BY DEF Available
<1>2. r \in Upward /\ r.at = "online" /\ r.path = path /\ r.session = up[n].session /\ path \in Paths
  BY DEF NInv, NodeTyped, Upward, Stages, Early
<1> HIDE DEF r, path
<1>3. up' \in [Publishers -> Upward] /\ up'[n] = r /\ \A m \in Publishers \ {n} : up'[m] = up[m]
  BY <1>1, <1>2 DEF NInv, NodeTyped
<1>9. /\ media' \in [Paths -> MediaPath]
      /\ \A p \in Paths : /\ media'[p].forwards = media[p].forwards /\ media'[p].failed = media[p].failed
                          /\ media'[p].publisher = IF p = path THEN n ELSE media[p].publisher
  <2>1. n \in 0..MaxPublishes /\ NodeTyped
    BY RestreamBounds DEF Publishers, NInv
  <2> QED
    <3>1. OnlyPublisher(path, n)
      BY <1>1, <1>2, <2>1, PublisherSet
    <3> QED
      BY <3>1 DEF OnlyPublisher
<1>4. NodeTyped'
  BY <1>1, <1>3, <1>9 DEF NInv, NodeTyped
<1>5. Configures'
  BY <1>2, <1>3 DEF NInv, Configures
<1>6. HooksInOrder'
  BY <1>1, <1>2, <1>3, <1>9 DEF NInv, HooksInOrder, Early
<1>7. PathsHeld'
  <2> SUFFICES ASSUME NEW p \in Paths, ~Quiet(p)' PROVE \E m \in Publishers : HandledBy(m, p)'
    BY DEF PathsHeld, Quiet
  <2>1. PICK m \in Publishers : HandledBy(m, p)
    BY <1>1, <1>9 DEF NInv, PathsHeld, Quiet
  <2>2. HandledBy(m, p)'
    BY <1>1, <1>2, <1>3, <2>1 DEF HandledBy, path
  <2> QED
    BY <2>2
<1>8. OneOpen'
  BY <1>1 DEF NInv, OneOpen, Open
<1> QED
  BY <1>4, <1>5, <1>6, <1>7, <1>8 DEF NInv

LEMMA UnavailableKeeps == ASSUME NInv, NEW n \in Publishers, Unavailable(n) PROVE NInv'
<1> DEFINE r == [down[n] EXCEPT !.at = "offline"]
<1>1. /\ down' = [down EXCEPT ![n] = r] /\ media[up[n].path].publisher = n
      /\ media' = [media EXCEPT ![up[n].path].publisher = 0]
      /\ UNCHANGED <<key, sessions, active, beats, reports, up>>
  BY DEF Unavailable
<1>2. up[n].path \in Paths /\ r \in Downward /\ r.at = "offline"
  BY DEF NInv, NodeTyped, Upward, Downward
<1>3. up[n].at \notin Early /\ down[n].at = "none" /\ 0 \in 0..MaxPublishes
  BY <1>1, <1>2, RestreamBounds DEF NInv, HooksInOrder
<1>4. /\ media' \in [Paths -> MediaPath]
      /\ \A p \in Paths : /\ media'[p].forwards = media[p].forwards /\ media'[p].failed = media[p].failed
                          /\ media'[p].publisher = IF p = up[n].path THEN 0 ELSE media[p].publisher
  <2>1. NodeTyped
    BY DEF NInv
  <2>2. OnlyPublisher(up[n].path, 0)
    BY <1>1, <1>2, <1>3, <2>1, PublisherSet
  <2> QED
    BY <2>2 DEF OnlyPublisher
<1>5. Tables'
  BY <1>1, <1>4 DEF NInv, NodeTyped, Tables, OneOpen, Open
<1>6. \A p \in Paths : (media'[p].publisher = media[p].publisher /\ media[p].publisher # n) \/ media'[p].publisher = 0
  BY <1>4 DEF NInv, HooksInOrder
<1> HIDE DEF r
<1> QED
  BY <1>1, <1>2, <1>3, <1>4, <1>5, <1>6, DownwardStep

LEMMA OnlineKeeps == ASSUME NInv, NEW n \in Publishers, online(n) PROVE NInv'
<1> DEFINE session == active[up[n].path]
           at == IF session = 0 THEN "done" ELSE "configuring"
           r == [up[n] EXCEPT !.at = at, !.session = session]
<1>1. /\ up' = [up EXCEPT ![n] = r] /\ up[n].at = "online"
      /\ UNCHANGED <<key, sessions, active, beats, reports, down, media>>
  BY DEF online
<1>2. up[n] \in Upward /\ session \in 0..MaxPublishes
  BY DEF NInv, NodeTyped, Upward
<1> HIDE DEF session
<1>3. at \in {"done", "configuring"} /\ (at = "configuring" => session # 0)
  OBVIOUS
<1> HIDE DEF at
<1>4. r \in Upward /\ r.at = at /\ r.path = up[n].path /\ r.session = session
  BY <1>2, <1>3 DEF Upward, Stages, Early
<1> HIDE DEF r
<1> QED
  BY <1>1, <1>3, <1>4, TablesKept, UpwardStep DEF Early

LEMMA ConfigureKeeps == ASSUME NInv, NEW n \in Publishers, Configure(n) PROVE NInv'
<1>1. PICK taken \in BOOLEAN, answered \in BOOLEAN :
        /\ answered => taken
        /\ up' = [up EXCEPT ![n].at = IF answered THEN "configured" ELSE "failing"]
        /\ media' = [media EXCEPT ![up[n].path].forwards = IF taken THEN up[n].session ELSE @,
                                  ![up[n].path].failed = IF taken THEN ~answered ELSE @]
  BY DEF Configure
<1> DEFINE path == up[n].path
           at == IF answered THEN "configured" ELSE "failing"
           r == [up[n] EXCEPT !.at = at]
           m == [media[path] EXCEPT !.forwards = IF taken THEN up[n].session ELSE @,
                                    !.failed = IF taken THEN ~answered ELSE @]
<1>2. /\ up' = [up EXCEPT ![n] = r] /\ up[n].at = "configuring"
      /\ UNCHANGED <<key, sessions, active, beats, reports, down>>
  BY <1>1 DEF Configure
<1>3. up[n] \in Upward /\ path \in Paths /\ media[path] \in MediaPath /\ up[n].session \in 0..MaxPublishes
  BY DEF NInv, NodeTyped, Upward
<1>4. r \in Upward /\ r.at = at /\ r.path = path /\ r.session = up[n].session
  BY <1>3 DEF Upward, Stages, Early
<1>5. up[n].session # 0
  BY <1>2 DEF NInv, Configures
<1>6. media' = [media EXCEPT ![path] = m] /\ media \in [Paths -> MediaPath]
  BY <1>1 DEF NInv, NodeTyped
<1>7. /\ m \in MediaPath /\ m.publisher = media[path].publisher
      /\ ~answered => m.failed \/ m = media[path]
  BY <1>3 DEF MediaPath
<1> HIDE DEF m, r, path
<1>8. Tables' /\ SamePublisher
  BY <1>2, <1>3, <1>6, <1>7 DEF NInv, NodeTyped, Tables, OneOpen, Open, SamePublisher
<1>9. ASSUME NEW p \in Paths
      PROVE  \/ Quiet(p)'
             \/ r.path = p /\ r.at \in {"configured", "deleting"}
             \/ UNCHANGED <<media[p], active[p]>>
  <2>1. CASE p # path
    BY <1>2, <1>6, <2>1
  <2>2. CASE p = path /\ answered
    BY <1>4, <2>2
  <2>3. CASE p = path /\ ~answered
    BY <1>2, <1>6, <1>7, <1>3, <2>3 DEF Quiet
  <2> QED
    BY <2>1, <2>2, <2>3
<1> QED
  BY <1>2, <1>4, <1>5, <1>8, <1>9, UpwardStep DEF Early, path

LEMMA ConfiguredKeeps == ASSUME NInv, NEW n \in Publishers, Configured(n) PROVE NInv'
<1> DEFINE session == active[up[n].path]
           kept == IF session = 0 THEN 0 ELSE up[n].session
           r == [up[n] EXCEPT !.at = AfterConfigure(n), !.session = kept]
<1>1. /\ up' = [up EXCEPT ![n] = r] /\ up[n].at = "configured"
      /\ UNCHANGED <<key, sessions, active, reports, down, media>>
      /\ beats' \subseteq beats \cup {up[n].session}
  BY DEF Configured
<1>2. up[n] \in Upward /\ up[n].path \in Paths /\ session \in 0..MaxPublishes
      /\ up[n].session \in 0..MaxPublishes /\ up[n].session # 0
  BY <1>1 DEF NInv, NodeTyped, Upward, Configures
<1>3. AfterConfigure(n) \in {"done", "deleting"} /\ (AfterConfigure(n) = "done" => session # 0)
  BY <1>2 DEF AfterConfigure
<1>4. kept \in 0..MaxPublishes
  BY <1>2
<1> HIDE DEF session, kept
<1>5. r \in Upward /\ r.at = AfterConfigure(n) /\ r.path = up[n].path
  BY <1>2, <1>3, <1>4 DEF Upward, Stages, Early
<1> HIDE DEF r
<1>6. beats' \subseteq Publishers
  BY <1>1, <1>2, RestreamBounds DEF NInv, NodeTyped, Publishers
<1>7. Tables' /\ SamePublisher
  BY <1>1, <1>6 DEF NInv, NodeTyped, Tables, OneOpen, Open, SamePublisher
<1>8. ASSUME NEW p \in Paths
      PROVE  \/ Quiet(p)'
             \/ r.path = p /\ r.at \in {"configured", "deleting"}
             \/ /\ UNCHANGED <<media[p], active[p]>>
                /\ ~(up[n].path = p /\ up[n].at \in {"configured", "deleting"})
  <2>1. CASE p # up[n].path
    BY <1>1, <2>1
  <2>2. CASE p = up[n].path
    BY <1>1, <1>3, <1>5, <2>2 DEF Quiet, session
  <2> QED
    BY <2>1, <2>2
<1> QED
  BY <1>1, <1>3, <1>5, <1>7, <1>8, UpwardStep DEF Early

LEMMA RemovedFacts ==
  ASSUME NodeTyped, NEW path \in Paths, Removed(path)
  PROVE  /\ active' \in [Paths -> 0..MaxPublishes] /\ beats' \subseteq Publishers
         /\ \A p \in Paths \ {path} : active'[p] = active[p]
BY RestreamBounds DEF NodeTyped, Removed

LEMMA AbandonKeeps == ASSUME NInv, NEW n \in Publishers, abandonSession(n) PROVE NInv'
<1>1. up[n].at = "failing" /\ UNCHANGED <<key, sessions, reports, down, media>>
  BY DEF abandonSession
<1>2. up[n] \in Upward /\ up[n].path \in Paths
  BY DEF NInv, NodeTyped, Upward
<1>3. CASE active[up[n].path] = up[n].session
  <2> DEFINE r == [up[n] EXCEPT !.at = "deleting"]
  <2>1. up' = [up EXCEPT ![n] = r] /\ Removed(up[n].path)
    BY <1>3 DEF abandonSession
  <2>2. r \in Upward /\ r.at = "deleting" /\ r.path = up[n].path
    BY <1>2 DEF Upward, Stages, Early
  <2> HIDE DEF r
  <2>3. /\ active' \in [Paths -> 0..MaxPublishes] /\ beats' \subseteq Publishers
        /\ \A p \in Paths \ {up[n].path} : active'[p] = active[p]
    BY <1>2, <2>1, RemovedFacts DEF NInv
  <2>4. Tables' /\ SamePublisher
    BY <1>1, <2>3 DEF NInv, NodeTyped, Tables, OneOpen, Open, SamePublisher
  <2> QED
    BY <1>1, <2>1, <2>2, <2>3, <2>4, UpwardStep DEF Early
<1>4. CASE active[up[n].path] # up[n].session
  <2> DEFINE r == [up[n] EXCEPT !.at = "done"]
  <2>1. up' = [up EXCEPT ![n] = r] /\ UNCHANGED <<active, beats>>
    BY <1>4 DEF abandonSession
  <2>2. r \in Upward /\ r.at = "done" /\ r.path = up[n].path
    BY <1>2 DEF Upward, Stages, Early
  <2> HIDE DEF r
  <2> QED
    BY <1>1, <2>1, <2>2, TablesKept, UpwardStep DEF Early
<1> QED
  BY <1>3, <1>4

LEMMA OfflineKeeps == ASSUME NInv, NEW n \in Publishers, offline(n) PROVE NInv'
<1> DEFINE session == active[up[n].path]
<1>1. down[n].at = "offline" /\ UNCHANGED <<key, sessions, reports, up, media>>
  BY DEF offline
<1>2. down[n] \in Downward /\ up[n].path \in Paths /\ session \in 0..MaxPublishes
  BY DEF NInv, NodeTyped, Upward
<1>3. up[n].at \notin Early /\ \A p \in Paths : media[p].publisher # n
  BY <1>1 DEF NInv, HooksInOrder
<1>4. CASE session = 0
  <2> DEFINE r == [down[n] EXCEPT !.at = "done"]
  <2>1. down' = [down EXCEPT ![n] = r] /\ UNCHANGED <<active, beats>>
    BY <1>4 DEF offline
  <2>2. r \in Downward
    BY <1>2 DEF Downward
  <2> HIDE DEF r
  <2> QED
    BY <1>1, <1>3, <2>1, <2>2, TablesKept, DownwardStep
<1>5. CASE session # 0
  <2> DEFINE r == [at |-> "deleting", session |-> session]
  <2>1. down' = [down EXCEPT ![n] = r] /\ Removed(up[n].path)
    BY <1>5 DEF offline
  <2>2. r \in Downward /\ r.at = "deleting"
    BY <1>2 DEF Downward
  <2> HIDE DEF r
  <2>3. /\ active' \in [Paths -> 0..MaxPublishes] /\ beats' \subseteq Publishers
        /\ \A p \in Paths \ {up[n].path} : active'[p] = active[p]
    BY <1>2, <2>1, RemovedFacts DEF NInv
  <2>4. Tables'
    BY <1>1, <2>3 DEF NInv, NodeTyped, Tables, OneOpen, Open
  <2> QED
    BY <1>1, <1>3, <2>1, <2>2, <2>3, <2>4, DownwardStep
<1> QED
  BY <1>4, <1>5

LEMMA DeletedFacts ==
  ASSUME NodeTyped, NEW path \in Paths, Deleted(path)
  PROVE  /\ media' \in [Paths -> MediaPath]
         /\ media'[path].publisher = media[path].publisher
         /\ media'[path].forwards = 0 \/ media'[path].failed
         /\ \A p \in Paths \ {path} : media'[p] = media[p]
<1>1. PICK answered \in BOOLEAN :
        media' = [media EXCEPT ![path].forwards = IF answered THEN 0 ELSE @, ![path].failed = ~answered]
  BY DEF Deleted
<1> DEFINE m == [media[path] EXCEPT !.forwards = IF answered THEN 0 ELSE @, !.failed = ~answered]
<1>2. media' = [media EXCEPT ![path] = m] /\ media \in [Paths -> MediaPath]
  BY <1>1 DEF NodeTyped
<1>3. m \in MediaPath /\ m.publisher = media[path].publisher /\ (m.forwards = 0 \/ m.failed)
  <2>1. media[path] \in MediaPath /\ 0 \in 0..MaxPublishes
    BY <1>2, RestreamBounds
  <2>2. CASE answered
    BY <2>1, <2>2 DEF MediaPath
  <2>3. CASE ~answered
    BY <2>1, <2>3 DEF MediaPath
  <2> QED
    BY <2>2, <2>3
<1> HIDE DEF m
<1> QED
  BY <1>2, <1>3

LEMMA DeleteMediaPathKeeps == ASSUME NInv, NEW n \in Publishers, deleteMediaPath(n) PROVE NInv'
<1> DEFINE path == up[n].path
           at == IF up[n].session = 0 THEN "done" ELSE "ending"
           r == [up[n] EXCEPT !.at = at]
<1>1. /\ up' = [up EXCEPT ![n] = r] /\ Deleted(path) /\ up[n].at = "deleting"
      /\ UNCHANGED <<key, sessions, active, beats, reports, down>>
  BY DEF deleteMediaPath
<1>2. up[n] \in Upward /\ path \in Paths
  BY DEF NInv, NodeTyped, Upward
<1>3. r \in Upward /\ r.at \in {"done", "ending"} /\ r.path = path
  BY <1>2 DEF Upward, Stages, Early
<1> HIDE DEF r, path
<1>4. /\ media' \in [Paths -> MediaPath]
      /\ media'[path].publisher = media[path].publisher
      /\ media'[path].forwards = 0 \/ media'[path].failed
      /\ \A p \in Paths \ {path} : media'[p] = media[p]
  BY <1>1, <1>2, DeletedFacts DEF NInv
<1>5. Tables' /\ SamePublisher
  BY <1>1, <1>4 DEF NInv, NodeTyped, Tables, OneOpen, Open, SamePublisher
<1>6. \A p \in Paths : Quiet(p)' \/ (UNCHANGED <<media[p], active[p]>> /\ up[n].path # p)
  BY <1>1, <1>4 DEF Quiet, path
<1> QED
  BY <1>1, <1>3, <1>5, <1>6, UpwardStep DEF Early, path

LEMMA DeletePathKeeps == ASSUME NInv, NEW n \in Publishers, Delete(n) PROVE NInv'
<1> DEFINE path == up[n].path
           r == [down[n] EXCEPT !.at = "ending"]
<1>1. /\ down' = [down EXCEPT ![n] = r] /\ Deleted(path) /\ down[n].at = "deleting"
      /\ UNCHANGED <<key, sessions, active, beats, reports, up>>
  BY DEF Delete
<1>2. down[n] \in Downward /\ path \in Paths
  BY DEF NInv, NodeTyped, Upward
<1>3. r \in Downward
  BY <1>2 DEF Downward
<1>4. up[n].at \notin Early /\ \A p \in Paths : media[p].publisher # n
  BY <1>1 DEF NInv, HooksInOrder
<1> HIDE DEF r, path
<1>5. /\ media' \in [Paths -> MediaPath]
      /\ media'[path].publisher = media[path].publisher
      /\ media'[path].forwards = 0 \/ media'[path].failed
      /\ \A p \in Paths \ {path} : media'[p] = media[p]
  BY <1>1, <1>2, DeletedFacts DEF NInv
<1>6. Tables' /\ SamePublisher
  BY <1>1, <1>5 DEF NInv, NodeTyped, Tables, OneOpen, Open, SamePublisher
<1>7. \A p \in Paths :
        \/ Quiet(p)'
        \/ up[n].path = p /\ r.at = "deleting"
        \/ UNCHANGED <<media[p].forwards, media[p].failed, active[p]>> /\ ~(up[n].path = p /\ down[n].at = "deleting")
  BY <1>1, <1>5 DEF Quiet, path
<1>8. \A p \in Paths : (media'[p].publisher = media[p].publisher /\ media[p].publisher # n) \/ media'[p].publisher = 0
  BY <1>4, <1>6 DEF SamePublisher
<1>9. down' = [down EXCEPT ![n] = r] /\ UNCHANGED up
  BY <1>1
<1> QED
  BY <1>3, <1>4, <1>6, <1>7, <1>8, <1>9, DownwardStep

(* No step but an authorization opens a session. *)
LEMMA SessionsClose ==
  ASSUME NInv, UNCHANGED <<key, active, reports, media>>, beats' = beats,
         NEW s, endSession(s)
  PROVE  Tables' /\ SamePublisher
<1>1. /\ sessions' \in [Publishers -> [status: {"none", "connecting", "live", "ended"}, fresh: BOOLEAN]]
      /\ \A o \in Publishers : Open(o)' => Open(o)
  <2>1. CASE sessions' = sessions
    BY <2>1 DEF NInv, NodeTyped, Open
  <2>2. CASE sessions' = [sessions EXCEPT ![s].status = "ended"]
    <3>1. \A o \in Publishers : sessions[o] \in [status: {"none", "connecting", "live", "ended"}, fresh: BOOLEAN]
      BY DEF NInv, NodeTyped
    <3>2. \A o \in Publishers : sessions'[o] = IF o = s THEN [sessions[s] EXCEPT !.status = "ended"] ELSE sessions[o]
      BY <2>2 DEF NInv, NodeTyped
    <3>3. sessions' = [o \in Publishers |-> sessions'[o]]
      BY <2>2 DEF NInv, NodeTyped
    <3>4. \A o \in Publishers : sessions'[o] \in [status: {"none", "connecting", "live", "ended"}, fresh: BOOLEAN]
      BY <3>1, <3>2
    <3>5. \A o \in Publishers : Open(o)' => Open(o)
      BY <3>1, <3>2 DEF Open
    <3> QED
      BY <3>3, <3>4, <3>5
  <2> QED
    BY <2>1, <2>2 DEF endSession
<1> QED
  BY <1>1 DEF NInv, NodeTyped, Tables, OneOpen, SamePublisher

LEMMA EndAuthorizationKeeps == ASSUME NInv, NEW n \in Publishers, endAuthorization(n) PROVE NInv'
<1> DEFINE r == [up[n] EXCEPT !.at = "done"]
<1>1. /\ up' = [up EXCEPT ![n] = r] /\ up[n].at = "ending" /\ endSession(up[n].session)
      /\ UNCHANGED <<key, active, beats, reports, down, media>>
  BY DEF endAuthorization
<1>2. r \in Upward /\ r.at = "done" /\ r.path = up[n].path
  BY DEF NInv, NodeTyped, Upward, Stages, Early
<1> HIDE DEF r
<1>3. Tables' /\ SamePublisher
  BY <1>1, SessionsClose
<1> QED
  BY <1>1, <1>2, <1>3, UpwardStep DEF Early

LEMMA EndKeeps == ASSUME NInv, NEW n \in Publishers, End(n) PROVE NInv'
<1> DEFINE r == [down[n] EXCEPT !.at = "done"]
<1>1. /\ down' = [down EXCEPT ![n] = r] /\ down[n].at = "ending" /\ endSession(down[n].session)
      /\ UNCHANGED <<key, active, beats, reports, up, media>>
  BY DEF End
<1>2. r \in Downward
  BY DEF NInv, NodeTyped, Downward
<1> HIDE DEF r
<1>3. up[n].at \notin Early /\ \A p \in Paths : media[p].publisher # n
  BY <1>1 DEF NInv, HooksInOrder
<1>4. Tables' /\ SamePublisher
  BY <1>1, SessionsClose
<1> QED
  BY <1>1, <1>2, <1>3, <1>4, DownwardStep DEF SamePublisher

LEMMA HeartbeatKeeps ==
  ASSUME NInv, NEW s \in Publishers, sendHeartbeat(s) \/ heartbeat(s) \/ GoesQuiet(s) PROVE NInv'
<1>1. UNCHANGED <<key, active, up, down, media>> /\ beats' \subseteq beats /\ reports' \subseteq reports \cup {s}
  BY DEF sendHeartbeat, heartbeat, Recorded, GoesQuiet
<1>2. UNCHANGED sessions \/ \E to \in {"connecting", "live"}, fresh \in BOOLEAN :
        Open(s) /\ sessions' = [sessions EXCEPT ![s].status = to, ![s].fresh = fresh]
  <2>1. CASE GoesQuiet(s)
    <3> DEFINE to == sessions[s].status
    <3>1. Open(s) /\ to \in {"connecting", "live"} /\ sessions' = [sessions EXCEPT ![s].fresh = FALSE]
      BY <2>1 DEF GoesQuiet, Open
    <3>2. sessions' = [sessions EXCEPT ![s].status = to, ![s].fresh = FALSE]
      <4>1. sessions[s] \in [status: {"none", "connecting", "live", "ended"}, fresh: BOOLEAN]
        BY DEF NInv, NodeTyped
      <4>2. [sessions[s] EXCEPT !.status = to, !.fresh = FALSE] = [sessions[s] EXCEPT !.fresh = FALSE]
        BY <4>1
      <4> QED
        BY <3>1, <4>2 DEF NInv, NodeTyped
    <3> QED
      BY <3>1, <3>2
  <2>2. CASE sendHeartbeat(s)
    BY <2>2 DEF sendHeartbeat
  <2>3. CASE heartbeat(s)
    BY <2>3 DEF heartbeat, Recorded
  <2> QED
    BY <2>1, <2>2, <2>3
<1>3. /\ sessions' \in [Publishers -> [status: {"none", "connecting", "live", "ended"}, fresh: BOOLEAN]]
      /\ \A o \in Publishers : Open(o)' => Open(o)
  <2>1. CASE UNCHANGED sessions
    BY <2>1 DEF NInv, NodeTyped, Open
  <2>2. ASSUME NEW to \in {"connecting", "live"}, NEW fresh \in BOOLEAN, Open(s),
               sessions' = [sessions EXCEPT ![s].status = to, ![s].fresh = fresh]
        PROVE  /\ sessions' \in [Publishers -> [status: {"none", "connecting", "live", "ended"}, fresh: BOOLEAN]]
               /\ \A o \in Publishers : Open(o)' => Open(o)
    <3> DEFINE r == [sessions[s] EXCEPT !.status = to, !.fresh = fresh]
    <3>1. sessions' = [sessions EXCEPT ![s] = r]
      BY <2>2
    <3>2. r \in [status: {"none", "connecting", "live", "ended"}, fresh: BOOLEAN]
      BY DEF NInv, NodeTyped
    <3> HIDE DEF r
    <3>3. sessions \in [Publishers -> [status: {"none", "connecting", "live", "ended"}, fresh: BOOLEAN]]
      BY DEF NInv, NodeTyped
    <3>4. sessions' \in [Publishers -> [status: {"none", "connecting", "live", "ended"}, fresh: BOOLEAN]]
      BY <3>1, <3>2, <3>3
    <3>5. \A o \in Publishers : Open(o)' => Open(o)
      BY <2>2, <3>1, <3>3 DEF Open
    <3> QED
      BY <3>4, <3>5
  <2> QED
    BY <1>2, <2>1, <2>2
<1> QED
  <2>1. beats' \subseteq Publishers /\ reports' \subseteq Publishers /\ key \in Paths
    BY <1>1 DEF NInv, NodeTyped
  <2>2. Tables'
    BY <1>1, <1>3, <2>1 DEF NInv, NodeTyped, Tables, OneOpen
  <2> QED
    BY <1>1, <2>2, SessionStep

LEMMA OwnerKeeps ==
  ASSUME NInv,
         \/ createDestination \/ setDestinationEnabled \/ deleteDestination \/ Renumbers \/ DeletionCommits
         \/ rotateIngestKey \/ config \/ sessionDestinations
  PROVE  NInv'
<1>1. UNCHANGED <<sessions, active, beats, reports, up, down, media>> /\ key' \in {key, key + 1} /\ key' <= MaxKey
  BY RestreamBounds DEF createDestination, setDestinationEnabled, deleteDestination, Renumbers, DeletionCommits,
     rotateIngestKey, config, sessionDestinations, NInv, NodeTyped, Paths
<1>2. Tables'
  BY <1>1, RestreamBounds DEF NInv, NodeTyped, Tables, OneOpen, Open, Paths
<1> QED
  BY <1>1, <1>2, SessionStep

PublisherStep(n) ==
    \/ authorize(n) \/ authorizePublisher(n) \/ SessionInserted(n) \/ TimesOut(n) \/ Answered(n)
    \/ Available(n) \/ LeavesEarly(n) \/ Unavailable(n)
    \/ online(n) \/ Configure(n) \/ Configured(n) \/ abandonSession(n) \/ offline(n)
    \/ deleteMediaPath(n) \/ Delete(n) \/ endAuthorization(n) \/ End(n)
    \/ sendHeartbeat(n) \/ heartbeat(n) \/ GoesQuiet(n)

LEMMA PublisherStepKeepsNode == ASSUME NInv, Made, NEW n \in Publishers, PublisherStep(n) PROVE NInv'
BY AuthorizeKeeps, AuthorizePublisherKeeps, SessionInsertedKeeps, TimesOutKeeps, AnsweredKeeps, AvailableKeeps,
   LeavesEarlyKeeps, UnavailableKeeps, OnlineKeeps, ConfigureKeeps, ConfiguredKeeps, AbandonKeeps, OfflineKeeps,
   DeleteMediaPathKeeps, DeletePathKeeps, EndAuthorizationKeeps, EndKeeps, HeartbeatKeeps DEF PublisherStep

LEMMA PublisherStepSpends ==
  ASSUME NEW n \in Publishers, PublisherStep(n)
  PROVE  UNCHANGED <<destinations, edit, page>> /\ (UNCHANGED edits \/ Disturbs)
<1>1. CASE authorize(n) \/ authorizePublisher(n) \/ SessionInserted(n) \/ TimesOut(n) \/ Available(n) \/ LeavesEarly(n) \/ Unavailable(n)
  BY <1>1 DEF authorize, authorizePublisher, SessionInserted, TimesOut, Available, LeavesEarly, Unavailable
<1>2. CASE Answered(n) \/ Configure(n) \/ deleteMediaPath(n) \/ Delete(n) \/ endAuthorization(n) \/ End(n)
  BY <1>2 DEF Answered, Configure, deleteMediaPath, Delete, Deleted, endAuthorization, End, endSession, Costs
<1>3. CASE online(n) \/ Configured(n) \/ abandonSession(n) \/ offline(n) \/ sendHeartbeat(n) \/ heartbeat(n) \/ GoesQuiet(n)
  BY <1>3 DEF online, Configured, abandonSession, offline, sendHeartbeat, heartbeat, GoesQuiet
<1> QED
  BY <1>1, <1>2, <1>3 DEF PublisherStep

-----------------------------------------------------------------------------
(* The results.                                                             *)

RestreamInv == DInv /\ NInv

LEMMA RestreamNextInvariant == RestreamInv /\ [RestreamNext]_restreamVars => RestreamInv'
<1> SUFFICES ASSUME RestreamInv, [RestreamNext]_restreamVars PROVE RestreamInv'
  OBVIOUS
<1>1. CASE createDestination \/ setDestinationEnabled \/ deleteDestination \/ Renumbers \/ DeletionCommits
  BY <1>1, CreateKeeps, EnableKeeps, DeleteKeeps, RenumberKeeps, CommitKeeps, OwnerKeeps DEF RestreamInv
<1>2. CASE rotateIngestKey \/ config \/ sessionDestinations
  <2>1. /\ UNCHANGED <<destinations, edit>> /\ (UNCHANGED edits \/ Disturbs)
        /\ page'.positions \in {page.positions, {}, {destinations[d].position : d \in DOMAIN destinations}}
    BY <1>2 DEF rotateIngestKey, config, sessionDestinations, NoView
  <2> QED
    BY <1>2, <2>1, RestKeeps, OwnerKeeps DEF RestreamInv
<1>3. CASE \E n \in Publishers : PublisherStep(n)
  <2>1. UNCHANGED <<destinations, edit, page>> /\ (UNCHANGED edits \/ Disturbs)
    BY <1>3, PublisherStepSpends
  <2> QED
    BY <1>3, <2>1, RestKeeps, PublisherStepKeepsNode DEF RestreamInv, DInv
<1>4. CASE UNCHANGED restreamVars
  <2>1. UNCHANGED <<destinations, edit, edits, page>> /\ UNCHANGED <<key, sessions, active, beats, reports, up, down, media>>
    BY <1>4 DEF restreamVars
  <2>2. DInv'
    BY <2>1, RestKeeps DEF RestreamInv
  <2>3. NInv'
    BY <2>1, TablesKept, SessionStep DEF RestreamInv
  <2> QED
    BY <2>2, <2>3 DEF RestreamInv
<1> QED
  BY <1>1, <1>2, <1>3, <1>4 DEF RestreamNext, PublisherStep

LEMMA RestreamInvariance == RestreamSpec => []RestreamInv
<1>1. RestreamInit => RestreamInv
  BY InitDestinations, InitNode DEF RestreamInv
<1> QED
  BY <1>1, RestreamNextInvariant, PTL DEF RestreamSpec

\* Type correctness; in particular no row is created beyond the ids that were
\* given out, and every handler and goroutine is of a session that exists.
THEOREM RestreamTyped == RestreamSpec => []RestreamTypeOK
<1>1. RestreamInv => RestreamTypeOK
  <2> SUFFICES ASSUME RestreamInv PROVE RestreamTypeOK
    OBVIOUS
  <2>1. DOMAIN destinations \subseteq Ids
    BY RestreamBounds DEF RestreamInv, DInv, Made, Ids
  <2>2. edit.at \in {"none", "renumbering"} /\ DOMAIN edit.rows \subseteq DOMAIN destinations
    BY DEF RestreamInv, DInv, Renumbering, EditRows
  <2>3. \A n \in Publishers : up[n].path \in Paths /\ up[n].session \in 0..MaxPublishes
    BY DEF RestreamInv, NInv, NodeTyped, Upward
  <2> QED
    BY <2>1, <2>2, <2>3 DEF RestreamInv, DInv, Committed, NInv, NodeTyped, MediaPath, RestreamTypeOK
<1> QED
  BY <1>1, RestreamInvariance, PTL

\* deleteDestination's argument, for any number of edits: each UPDATE of the
\* loop moves a row to a slot that is free, so the immediate unique constraint
\* is never violated, and what is committed or read by the page has no gap.
THEOREM PositionsAlwaysHold == RestreamSpec => []PositionsHold
<1>1. RestreamInv => PositionsHold
  BY PositionsFill DEF RestreamInv, DInv, Renumbering, EditRows, PositionsShown, Count, PositionsHold, MAX_RESTREAM_DESTINATIONS
<1> QED
  BY <1>1, RestreamInvariance, PTL

\* However authorizations, hooks and late answers of any number of publishers
\* interleave, forwards that MediaMTX took have a session or a handler that
\* will remove them (online looks at the session a second time), and no two
\* sessions of the owner are open.
THEOREM ForwardsAlwaysOwned == RestreamSpec => []ForwardsHaveOwner
<1>1. RestreamInv => ForwardsHaveOwner
  BY DEF RestreamInv, NInv, PathsHeld, HandledBy, OneOpen, ForwardsHaveOwner
<1> QED
  BY <1>1, RestreamInvariance, PTL
=============================================================================
