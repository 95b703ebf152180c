-------------------------- MODULE HostPolicyRounds --------------------------
(* What a round of hostpolicy.rs leaves behind, from the invariant of           *)
(* HostPolicyProofs: how many rows it may lose, and that a round without        *)
(* disturbance leaves RFW in sync.                                              *)
EXTENDS HostPolicyProofs, FiniteSetTheorems

\* A set that gains one element has one more.
LEMMA OneMore ==
    ASSUME NEW S, IsFiniteSet(S), NEW x, NEW T, T \subseteq S \cup {x}
    PROVE  IsFiniteSet(T) /\ Cardinality(T) <= Cardinality(S) + 1
PROOF
  <1>1. /\ IsFiniteSet(S \cup {x})
        /\ Cardinality(S \cup {x}) <= Cardinality(S) + 1
        /\ Cardinality(S \cup {x}) \in Nat /\ Cardinality(S) \in Nat
    BY FS_AddElement, FS_CardinalityType
  <1>2. IsFiniteSet(T) /\ Cardinality(T) <= Cardinality(S \cup {x}) /\ Cardinality(T) \in Nat
    BY <1>1, FS_Subset, FS_CardinalityType
  <1> QED
    BY <1>1, <1>2

-----------------------------------------------------------------------------
(* Rows that may get lost *)

\* Rows of the agent that are not owned both in memory and on disk: a restart or
\* a failing step away from being orphans.
Lost ==
    {x \in rfw : x.by = "agent" /\ x.id # id
                 /\ x.id \notin OwnIn(mem) \cap OwnIn(disk)}

LostBounded == IsFiniteSet(rfw) /\ Cardinality(Lost) <= faults + crashes

\* Failing steps and restarts are counted.
LEMMA FaultsGrow ==
    ASSUME IInv, Next
    PROVE  faults <= faults' /\ crashes <= crashes'
PROOF
  <1> USE DEF Fine, Fault, Saved, NotSaved, Done, Goto, Begin, round, outside, Outside, Unsupported
  <1>0. faults \in Nat /\ crashes \in Nat
    BY TypeParts DEF IInv, Counters
  <1>1. CASE Reconcile
    BY <1>0, <1>1 DEF Reconcile
  <1>2. CASE List
    BY <1>0, <1>2 DEF List
  <1>3. CASE KeepRule
    BY <1>0, <1>3 DEF KeepRule
  <1>4. CASE PostRule
    BY <1>0, <1>4 DEF PostRule
  <1>5. CASE RecordRule
    BY <1>0, <1>5 DEF RecordRule
  <1>6. CASE DeleteRule
    BY <1>0, <1>6 DEF DeleteRule
  <1>7. CASE ForgetRule
    BY <1>0, <1>7 DEF ForgetRule
  <1>8. CASE ApplyAbuse
    BY <1>0, <1>8 DEF ApplyAbuse
  <1>9. ASSUME NEW r \in 1..MaxRev, NEW p \in Policies, Apply(r, p)
        PROVE  faults <= faults' /\ crashes <= crashes'
    BY <1>0, <1>9 DEF Apply
  <1>10. ASSUME NEW x \in rfw, DeleteManual(x)
        PROVE  faults <= faults' /\ crashes <= crashes'
    BY <1>0, <1>10 DEF DeleteManual
  <1>11. ASSUME NEW b \in Bodies, AdminAdd(b)
        PROVE  faults <= faults' /\ crashes <= crashes'
    BY <1>0, <1>11 DEF AdminAdd
  <1>12. ASSUME NEW x \in rfw, AdminRemove(x)
        PROVE  faults <= faults' /\ crashes <= crashes'
    BY <1>0, <1>12 DEF AdminRemove
  <1>13. ASSUME NEW x \in rfw, NEW b \in Bodies, AdminEdit(x, b)
        PROVE  faults <= faults' /\ crashes <= crashes'
    BY <1>0, <1>13 DEF AdminEdit
  <1>14. CASE BridgeChange
    BY <1>0, <1>14 DEF BridgeChange
  <1>15. CASE Crash
    BY <1>0, <1>15 DEF Crash
  <1> QED
    BY <1>1, <1>2, <1>3, <1>4, <1>5, <1>6, <1>7, <1>8,
       <1>9, <1>10, <1>11, <1>12, <1>13, <1>14, <1>15 DEF Next, Step, Serve, Admin

\* A step that loses no row.
LEMMA LosesNone ==
    ASSUME IInv, LostBounded, Next, IsFiniteSet(rfw'), Lost' \subseteq Lost
    PROVE  LostBounded'
PROOF
  <1>1. IsFiniteSet(Lost) /\ IsFiniteSet(Lost')
    BY FS_Subset DEF LostBounded, Lost
  <1>2. Cardinality(Lost') <= Cardinality(Lost)
    BY <1>1, FS_Subset
  <1>3. Cardinality(Lost) <= faults + crashes /\ Cardinality(Lost) \in Nat /\ Cardinality(Lost') \in Nat
    BY <1>1, FS_CardinalityType DEF LostBounded
  <1>4. /\ faults \in Nat /\ crashes \in Nat /\ faults' \in Nat /\ crashes' \in Nat
        /\ faults <= faults' /\ crashes <= crashes'
    BY TypeParts, CountersNext, FaultsGrow DEF IInv, Counters
  <1>5. Cardinality(Lost') <= faults' + crashes'
    BY <1>2, <1>3, <1>4
  <1> QED
    BY <1>5 DEF LostBounded

\* A step that fails, or a restart, loses at most the row that waits to be recorded.
LEMMA LosesOne ==
    ASSUME IInv, LostBounded, Next, rfw' = rfw, Lost' \subseteq Lost \cup {x \in rfw : x.id = id},
           faults' + crashes' = faults + crashes + 1
    PROVE  LostBounded'
PROOF
  <1>1. IsFiniteSet(Lost) /\ IsFiniteSet(rfw')
    BY FS_Subset DEF LostBounded, Lost
  <1>2. Cardinality(Lost) <= faults + crashes /\ Cardinality(Lost) \in Nat
    BY <1>1, FS_CardinalityType DEF LostBounded
  <1>3. faults \in Nat /\ crashes \in Nat
    BY TypeParts DEF IInv, Counters
  <1>4. CASE \E x \in rfw : x.id = id
    <2>1. PICK x \in rfw : x.id = id
      BY <1>4
    <2>2. {y \in rfw : y.id = id} \subseteq {x}
      BY <2>1 DEF IInv, TypeOK
    <2>3. Lost' \subseteq Lost \cup {x}
      BY <2>2
    <2>4. IsFiniteSet(Lost') /\ Cardinality(Lost') <= Cardinality(Lost) + 1
      BY Zenon, <1>1, <2>3, OneMore
    <2>5. Cardinality(Lost') \in Nat
      BY <2>4, FS_CardinalityType
    <2>6. Cardinality(Lost') <= faults' + crashes'
      BY <1>2, <1>3, <2>4, <2>5
    <2> QED
      BY <1>1, <2>6 DEF LostBounded
  <1>5. CASE ~ \E x \in rfw : x.id = id
    <2>1. Lost' \subseteq Lost
      BY <1>5
    <2> QED
      BY <1>1, <2>1, LosesNone
  <1> QED
    BY <1>4, <1>5

\* The rows of the agent that it may forget are counted by failing steps and restarts.
LEMMA LostNext ==
    ASSUME IInv, LostBounded, Next
    PROVE  LostBounded'
PROOF
  <1> USE DEF Fine, Fault, Saved, NotSaved, Done, Goto, Begin, round, outside, Outside, Unsupported
  <1>0. /\ IsFiniteSet(rfw) /\ Cardinality(Lost) <= faults + crashes
        /\ \A x \in rfw : x.id # 0
        /\ at \in {"none", "list", "rules", "abuse"} => id = 0
        /\ given \in Nat /\ faults \in Nat /\ crashes \in Nat
        /\ \A x \in rfw : x.id <= given /\ x.id \in Nat
    BY DEF IInv, TypeOK, LostBounded, Steps, Given, Rows, Ids
  <1>1. CASE Reconcile
    <2>1. rfw' = rfw /\ mem' = mem /\ disk' = disk /\ id' = id
      BY <1>1 DEF Reconcile
    <2>2. Lost' \subseteq Lost
      BY <2>1 DEF Lost
    <2> QED
      BY <1>0, <2>1, <2>2, LosesNone
  <1>2. CASE List
    <2>1. id' = 0
      BY <1>0, <1>2 DEF List
    <2>4. rfw' = rfw /\ mem' = mem /\ disk' = disk 
      BY <1>2 DEF List
    <2>2. Lost' \subseteq Lost
      BY <1>0, <2>1, <2>4, <1>2 DEF Lost, List
    <2> QED
      BY <1>0, <2>4, <2>2, LosesNone
  <1>3. CASE KeepRule
    <2>1. rfw' = rfw /\ mem' = mem /\ disk' = disk /\ id' = id
      BY <1>3 DEF KeepRule
    <2>2. Lost' \subseteq Lost
      BY <2>1 DEF Lost
    <2> QED
      BY <1>0, <2>1, <2>2, LosesNone
  <1>4. CASE PostRule
    <2> DEFINE new == [id |-> given + 1, body |-> Head(todo)[2], by |-> "agent"]
    <2>1. \/ rfw' = rfw /\ id' = 0
          \/ rfw' = rfw \cup {new} /\ id' = given + 1
      BY <1>4 DEF PostRule
    <2>2. mem' = mem /\ disk' = disk /\ id = 0
      BY Zenon, <1>0, <1>4 DEF PostRule
    <2>3. new.id = given + 1
      OBVIOUS
    <2> HIDE DEF new
    <2>4. IsFiniteSet(rfw')
      BY <1>0, <2>1, FS_AddElement
    <2>5. Lost' \subseteq Lost
      BY <1>0, <2>1, <2>2, <2>3 DEF Lost
    <2> QED
      BY <2>4, <2>5, LosesNone
  <1>5. CASE RecordRule
    <2>1. rfw' = rfw /\ id' = 0 /\ crashes' = crashes
      BY <1>5 DEF RecordRule
    <2>2. CASE disk' = mem' /\ mem' # mem
      <3>2. OwnIn(mem') = OwnIn(mem) \cup {id}
        BY <1>5, <2>2, RecordOwn
      <3>3. Lost' \subseteq Lost
        BY <2>1, <2>2, <3>2 DEF Lost
      <3> QED
        BY <1>0, <2>1, <3>3, LosesNone
    <2>3. CASE disk' = disk /\ Fault
      <3>1. OwnIn(mem) \subseteq OwnIn(mem')
        BY <1>5, RecordOwn
      <3>2. Lost' \subseteq Lost \cup {x \in rfw : x.id = id}
        BY <2>1, <2>3, <3>1 DEF Lost
      <3>3. faults' + crashes' = faults + crashes + 1
        BY <1>0, <2>1, <2>3
      <3> QED
        BY <2>1, <3>2, <3>3, LosesOne
    <2> QED
      BY Zenon, <1>5, <2>2, <2>3, Recorded DEF RecordRule
  <1>6. CASE DeleteRule
    <2>1. rfw' \subseteq rfw /\ mem' = mem /\ disk' = disk /\ at = "rules"
      BY <1>6 DEF DeleteRule, Without
    <2>2. IsFiniteSet(rfw')
      BY <1>0, <2>1, FS_Subset
    <2>3. Lost' \subseteq Lost
      BY <1>0, <2>1 DEF Lost
    <2> QED
      BY <2>2, <2>3, LosesNone
  <1>7. CASE ForgetRule
    <2>1. rfw' = rfw /\ id' = 0 /\ (disk' = disk \/ disk' = mem')
      BY <1>7 DEF ForgetRule
    <2>2. OwnIn(mem') = OwnIn(mem) \ {id} /\ \A x \in rfw : x.id # id
      BY Zenon, <1>7, ForgetOwn DEF IInv, Steps, ForgetRule
    <2>3. Lost' \subseteq Lost
      BY <2>1, <2>2 DEF Lost
    <2> QED
      BY <1>0, <2>1, <2>3, LosesNone
  <1>8. CASE ApplyAbuse
    <2>1. rfw' = rfw /\ mem' = mem /\ disk' = disk /\ id' = 0
      BY <1>8 DEF ApplyAbuse
    <2>2. Lost' \subseteq Lost
      BY <1>0, <2>1, <1>8 DEF Lost, ApplyAbuse, Mirrored
    <2> QED
      BY <1>0, <2>1, <2>2, LosesNone
  <1>9. ASSUME NEW r \in 1..MaxRev, NEW p \in Policies, Apply(r, p)
        PROVE  LostBounded'
    <2>1. rfw' = rfw /\ id' = id /\ (disk' = disk \/ disk' = mem')
      BY Zenon, <1>9, ApplyRound DEF Apply
    <2>2. OwnIn(mem') = OwnIn(mem)
      BY <1>9, ApplyOwn
    <2>3. Lost' \subseteq Lost
      BY <2>1, <2>2 DEF Lost
    <2> QED
      BY <1>0, <2>1, <2>3, LosesNone
  <1>10. ASSUME NEW x \in rfw, DeleteManual(x)
        PROVE  LostBounded'
    <2>1. rfw' \subseteq rfw /\ mem' = mem /\ disk' = disk /\ id' = id
      BY <1>10 DEF DeleteManual
    <2>2. IsFiniteSet(rfw')
      BY <1>0, <2>1, FS_Subset
    <2>3. Lost' \subseteq Lost
      BY <2>1 DEF Lost
    <2> QED
      BY <2>2, <2>3, LosesNone
  <1>11. ASSUME NEW b \in Bodies, AdminAdd(b)
        PROVE  LostBounded'
    <2> DEFINE new == [id |-> given + 1, body |-> b, by |-> "admin"]
    <2>1. rfw' = rfw \cup {new} /\ mem' = mem /\ disk' = disk /\ id' = id
      BY <1>11 DEF AdminAdd
    <2>2. new.by # "agent"
      OBVIOUS
    <2> HIDE DEF new
    <2>3. IsFiniteSet(rfw')
      BY <1>0, <2>1, FS_AddElement
    <2>4. Lost' \subseteq Lost
      BY <2>1, <2>2 DEF Lost
    <2> QED
      BY <2>3, <2>4, LosesNone
  <1>12. ASSUME NEW x \in rfw, AdminRemove(x)
        PROVE  LostBounded'
    <2>1. rfw' \subseteq rfw /\ mem' = mem /\ disk' = disk /\ id' = id
      BY <1>12 DEF AdminRemove
    <2>2. IsFiniteSet(rfw')
      BY <1>0, <2>1, FS_Subset
    <2>3. Lost' \subseteq Lost
      BY <2>1 DEF Lost
    <2> QED
      BY <2>2, <2>3, LosesNone
  <1>13. ASSUME NEW x \in rfw, NEW b \in Bodies, AdminEdit(x, b)
        PROVE  LostBounded'
    <2> DEFINE new == [x EXCEPT !.body = b]
    <2>1. /\ rfw' = (rfw \ {x}) \cup {new} /\ mem' = mem /\ disk' = disk /\ id' = id
          /\ faults' = faults /\ crashes' = crashes
      BY <1>13 DEF AdminEdit
    <2>2. new.id = x.id /\ new.by = x.by
      BY DEF IInv, TypeOK, Rows
    <2> HIDE DEF new
    <2>3. IsFiniteSet(rfw \ {x}) /\ IsFiniteSet(rfw')
      BY Zenon, <1>0, <2>1, FS_RemoveElement, FS_AddElement
    <2>4. IsFiniteSet(Lost) /\ Cardinality(Lost) \in Nat
      BY <1>0, FS_Subset, FS_CardinalityType DEF Lost
    <2>5. CASE x \in Lost
      <3>1. Lost' \subseteq (Lost \ {x}) \cup {new}
        BY <2>1, <2>2 DEF Lost
      <3>2. IsFiniteSet(Lost \ {x}) /\ Cardinality(Lost \ {x}) = Cardinality(Lost) - 1
        BY <2>4, <2>5, FS_RemoveElement
      <3>3. IsFiniteSet(Lost') /\ Cardinality(Lost') <= Cardinality(Lost \ {x}) + 1
        BY <3>1, <3>2, OneMore
      <3>4. Cardinality(Lost') \in Nat
        BY <3>3, FS_CardinalityType
      <3>5. Cardinality(Lost') <= faults' + crashes'
        BY <1>0, <2>1, <2>4, <3>2, <3>3, <3>4
      <3> QED
        BY <2>3, <3>5 DEF LostBounded
    <2>6. CASE x \notin Lost
      <3>1. Lost' \subseteq Lost
        BY <2>1, <2>2, <2>6 DEF Lost
      <3> QED
        BY <2>3, <3>1, LosesNone
    <2> QED BY <2>5, <2>6
  <1>14. CASE BridgeChange
    <2>1. rfw' = rfw /\ mem' = mem /\ disk' = disk /\ id' = id
      BY <1>14 DEF BridgeChange
    <2>2. Lost' \subseteq Lost
      BY <2>1 DEF Lost
    <2> QED
      BY <1>0, <2>1, <2>2, LosesNone
  <1>15. CASE Crash
    <2>1. rfw' = rfw /\ mem' = disk /\ disk' = disk /\ id' = 0
      BY <1>15 DEF Crash
    <2>2. Lost' \subseteq Lost \cup {x \in rfw : x.id = id}
      BY <2>1 DEF Lost
    <2>3. faults' + crashes' = faults + crashes + 1
      BY <1>0, <1>15 DEF Crash
    <2> QED
      BY <2>1, <2>2, <2>3, LosesOne
  <1> QED
    BY <1>1, <1>2, <1>3, <1>4, <1>5, <1>6, <1>7, <1>8,
       <1>9, <1>10, <1>11, <1>12, <1>13, <1>14, <1>15 DEF Next, Step, Serve, Admin

-----------------------------------------------------------------------------
(* A round without disturbance *)

\* What is still to be looked at is the rest of the desired rules.
Rest(t, r) ==
    Len(t) <= Len(r) /\ \A k \in 1..Len(t) : t[k] = r[Len(r) - Len(t) + k]

\* The desired rules that have been looked at in this round.
Seen == 1..(Len(mem.pol.rules) - Len(todo))

\* Owned row i serves desired rule j.
Serves(i, j) ==
    /\ mem.own[i].key = mem.pol.rules[j][1] /\ mem.own[i].body = mem.pol.rules[j][2]
    /\ \E x \in rfw : x.id = mem.own[i].id /\ x.body = mem.pol.rules[j][2]

Chosen(i) == mem.own[i].id \in sel

RowsReal == todo # <<>> => \A y \in rows : \E x \in rfw : x.id = y.id /\ x.body = y.body
ChosenServe == \A i \in 1..Len(mem.own) : Chosen(i) => \E j \in Seen : Serves(i, j)
SeenServed ==
    \A j \in Seen : \E i \in 1..Len(mem.own) :
       Chosen(i) /\ mem.own[i].key = mem.pol.rules[j][1]
ServedOnce ==
    \A i, k \in 1..Len(mem.own) :
       Chosen(i) /\ Chosen(k) /\ mem.own[i].key = mem.own[k].key => i = k
RowMade == at = "record" => \E x \in rfw : x.id = id /\ x.body = Head(todo)[2]

\* In a round without disturbance each rule seen has one owned row selected for it,
\* and nothing else is selected.
Mirroring ==
    calm /\ at \in {"rules", "record", "forget"} =>
       /\ Rest(todo, mem.pol.rules)
       /\ RowsReal /\ ChosenServe /\ SeenServed /\ ServedOnce /\ RowMade

\* The loop over the desired rules goes on to the next one.
LEMMA Advance ==
    ASSUME NEW S, NEW r \in Seq(S), NEW t \in Seq(S), t # <<>>, Rest(t, r)
    PROVE  /\ Head(t) = r[Len(r) - Len(t) + 1]
           /\ Len(r) - Len(t) \in Nat /\ Len(r) - Len(t) + 1 \in 1..Len(r)
           /\ Len(r) - Len(Tail(t)) = Len(r) - Len(t) + 1
           /\ Rest(Tail(t), r)
PROOF
  <1>1. /\ Len(t) \in Nat /\ Len(t) > 0 /\ Len(r) \in Nat /\ Len(t) <= Len(r)
        /\ Head(t) = t[1] /\ Len(Tail(t)) = Len(t) - 1
        /\ \A k \in 1..Len(Tail(t)) : Tail(t)[k] = t[k + 1]
    BY DEF Rest
  <1>2. t[1] = r[Len(r) - Len(t) + 1]
    BY <1>1 DEF Rest
  <1>3. ASSUME NEW k \in 1..Len(Tail(t))
        PROVE  Tail(t)[k] = r[Len(r) - Len(Tail(t)) + k]
    <2>1. k + 1 \in 1..Len(t) /\ Tail(t)[k] = t[k + 1]
      BY <1>1
    <2>2. t[k + 1] = r[Len(r) - Len(t) + (k + 1)]
      BY <2>1 DEF Rest
    <2>3. Len(r) - Len(t) + (k + 1) = Len(r) - Len(Tail(t)) + k
      BY <1>1
    <2> QED
      BY <2>1, <2>2, <2>3
  <1>4. Rest(Tail(t), r)
    BY <1>1, <1>3 DEF Rest
  <1> QED
    BY <1>1, <1>2, <1>4

LEMMA MirrorList ==
    ASSUME IInv, Mirroring, List, calm', at' = "rules"
    PROVE  Mirroring'
PROOF
  <1>1. /\ todo' = mem.pol.rules /\ sel' = {} /\ mem' = mem /\ rfw' = rfw
        /\ rows' = {[id |-> x.id, body |-> x.body] : x \in rfw}
    BY Zenon DEF List, Listed, Goto, Unsupported, Done
  <1>2. mem.pol.rules \in Seq(Keys \X Bodies)
    BY Zenon DEF IInv, TypeOK, States, AllPolicies
  <1>3. Rest(mem.pol.rules, mem.pol.rules) /\ Len(mem.pol.rules) - Len(mem.pol.rules) = 0
    BY <1>2 DEF Rest
  <1>4. RowsReal'
    BY <1>1 DEF RowsReal
  <1>5. ChosenServe' /\ ServedOnce'
    BY <1>1 DEF ChosenServe, ServedOnce, Chosen
  <1>6. SeenServed'
    BY <1>1, <1>3 DEF SeenServed, Seen
  <1> QED
    BY <1>1, <1>3, <1>4, <1>5, <1>6 DEF Mirroring, RowMade

LEMMA MirrorKeep ==
    ASSUME IInv, Mirroring, KeepRule, calm'
    PROVE  Mirroring'
PROOF
  <1>1. /\ at = "rules" /\ calm /\ todo # <<>> /\ todo' = Tail(todo) /\ at' = at
        /\ mem' = mem /\ rfw' = rfw /\ rows' = rows
    BY DEF KeepRule, Fine
  <1>2. /\ Rest(todo, mem.pol.rules)
        /\ RowsReal /\ ChosenServe /\ SeenServed /\ ServedOnce
    BY <1>1 DEF Mirroring
  <1>3. PICK c \in 1..Len(mem.own) :
              /\ sel' = sel \cup {mem.own[c].id}
              /\ mem.own[c].id \notin sel /\ Matches(mem.own[c], Head(todo))
    BY Kept
  <1> DEFINE r == mem.pol.rules
             P == Len(r) - Len(todo)
  <1>4. r \in Seq(Keys \X Bodies) /\ todo \in Seq(Keys \X Bodies)
    BY DEF IInv, TypeOK, States, AllPolicies
  <1>5. /\ Head(todo) = r[P + 1] /\ P \in Nat /\ P + 1 \in 1..Len(r)
        /\ Len(r) - Len(Tail(todo)) = P + 1 /\ Rest(Tail(todo), r)
    BY Zenon, <1>1, <1>2, <1>4, Advance
  <1>6. Seen = 1..P /\ Seen' = 1..(P + 1)
    BY <1>1, <1>5 DEF Seen
  <1>7. mem.own[c].key = r[P + 1][1] /\ mem.own[c].body = r[P + 1][2]
    BY Zenon, <1>3, <1>5 DEF Matches
  <1>8. \E x \in rfw : x.id = mem.own[c].id /\ x.body = r[P + 1][2]
    <2>1. [id |-> mem.own[c].id, body |-> r[P + 1][2]] \in rows
      BY Zenon, <1>3, <1>5 DEF Matches
    <2> QED
      BY Zenon, <1>1, <1>2, <2>1 DEF RowsReal
  <1>9. \A i \in 1..Len(mem.own) : Chosen(i)' <=> Chosen(i) \/ i = c
    BY Zenon, <1>1, <1>3 DEF Chosen, IInv, DistinctIn
  <1>10. \A i, j : Serves(i, j)' <=> Serves(i, j)
    BY Zenon, <1>1 DEF Serves
  <1>11. Serves(c, P + 1)
    BY Zenon, <1>7, <1>8 DEF Serves
  <1>12. \A i, j \in 1..Len(r) : r[i][1] = r[j][1] => i = j
    BY Zenon DEF IInv, DistinctIn
  <1>13. \A j \in 1..P : j \in 1..(P + 1) /\ j # P + 1 /\ j \in 1..Len(r)
    BY <1>5
  <1> HIDE DEF P
  <1>14. ChosenServe'
    BY <1>1, <1>2, <1>5, <1>6, <1>9, <1>10, <1>11, <1>13 DEF ChosenServe
  <1>15. SeenServed'
    <2>1. ASSUME NEW j \in 1..(P + 1)
          PROVE  \E i \in 1..Len(mem.own) : Chosen(i)' /\ mem.own[i].key = r[j][1]
      <3>1. CASE j = P + 1
        BY Zenon, <1>3, <1>7, <1>9, <3>1
      <3>2. CASE j # P + 1
        <4>1. j \in 1..P
          BY <1>5, <3>2
        <4> QED
          BY Zenon, <1>2, <1>6, <1>9, <4>1 DEF SeenServed
      <3> QED
        BY <3>1, <3>2
    <2> QED
      BY <1>1, <1>6, <2>1 DEF SeenServed
  <1>16. \A i \in 1..Len(mem.own) : Chosen(i) => mem.own[i].key # mem.own[c].key
    BY <1>2, <1>5, <1>6, <1>7, <1>12, <1>13 DEF ChosenServe, Serves
  <1>17. ServedOnce'
    BY ZenonT(30), <1>1, <1>2, <1>9, <1>16 DEF ServedOnce
  <1>18. RowsReal'
    BY <1>1, <1>2 DEF RowsReal
  <1> QED
    BY <1>1, <1>5, <1>14, <1>15, <1>17, <1>18 DEF Mirroring, RowMade

LEMMA MirrorPost ==
    ASSUME IInv, Mirroring, PostRule, calm'
    PROVE  Mirroring'
PROOF
  <1> DEFINE new == [id |-> given + 1, body |-> Head(todo)[2], by |-> "agent"]
  <1>1. CASE Done
    BY <1>1 DEF Done, Mirroring
  <1>2. CASE ~ Done
    <2>1. /\ at = "rules" /\ calm /\ todo' = todo /\ at' = "record" /\ id' = given + 1
          /\ mem' = mem /\ rows' = rows /\ sel' = sel /\ rfw' = rfw \cup {new}
      BY Zenon, <1>2 DEF PostRule, Fine
    <2>2. /\ Rest(todo, mem.pol.rules)
          /\ RowsReal /\ ChosenServe /\ SeenServed /\ ServedOnce
      BY Zenon, <2>1 DEF Mirroring
    <2>3. new.id = given + 1 /\ new.body = Head(todo)[2]
      BY Zenon
    <2> HIDE DEF new
    <2>4. RowMade'
      BY Zenon, <2>1, <2>3 DEF RowMade
    <2>5. \A i, j : Serves(i, j) => Serves(i, j)'
      BY Zenon, <2>1 DEF Serves
    <2>6. \A i : Chosen(i)' <=> Chosen(i)
      BY <2>1 DEF Chosen
    <2>7. Seen' = Seen
      BY Zenon, <2>1 DEF Seen
    <2>8. ChosenServe'
      BY Zenon, <2>1, <2>2, <2>5, <2>6, <2>7 DEF ChosenServe
    <2>9. SeenServed' /\ ServedOnce'
      BY Zenon, <2>1, <2>2, <2>6, <2>7 DEF SeenServed, ServedOnce
    <2>10. RowsReal'
      BY Zenon, <2>1, <2>2 DEF RowsReal
    <2> QED
      BY <2>1, <2>2, <2>4, <2>8, <2>9, <2>10 DEF Mirroring
  <1> QED
    BY <1>1, <1>2

\* The declared rules are the entries of the list, 1 to its length.
LEMMA RangeOfSeq ==
    ASSUME NEW S, NEW s \in Seq(S)
    PROVE  Range(s) = {s[j] : j \in 1..Len(s)}
  BY DEF Range

LEMMA MirrorRecord ==
    ASSUME IInv, Mirroring, RecordRule, calm'
    PROVE  Mirroring'
PROOF
  <1>1. /\ at = "record" /\ calm /\ todo' = Tail(todo) /\ at' = "rules"
        /\ rfw' = rfw /\ rows' = rows /\ sel' = sel \cup {id}
    BY Zenon DEF RecordRule, Saved, NotSaved, Fine, Fault
  <1>2. /\ Rest(todo, mem.pol.rules)
        /\ RowsReal /\ ChosenServe /\ SeenServed /\ ServedOnce /\ RowMade
    BY <1>1 DEF Mirroring
  <1>3. mem' # mem
    BY Recorded DEF Fault
  <1> DEFINE r == mem.pol.rules
  <1>4. r \in Seq(Keys \X Bodies) /\ todo \in Seq(Keys \X Bodies)
    BY DEF IInv, TypeOK, States, AllPolicies
  <1>5. todo # <<>> /\ id \notin OwnIn(mem)
    BY Zenon, <1>1 DEF IInv, Steps
  <1>9. Len(mem.own) \in Nat
    BY DEF IInv, TypeOK, States
  <1>23. PICK c : c = Len(mem.own) + 1
    OBVIOUS
  <1>24. PICK P : P = Len(r) - Len(todo)
    OBVIOUS
  <1>6. /\ Head(todo) = r[P + 1] /\ P \in Nat /\ P + 1 \in 1..Len(r)
        /\ Len(r) - Len(Tail(todo)) = P + 1 /\ Rest(Tail(todo), r)
    BY ZenonT(30), <1>2, <1>4, <1>5, <1>24, Advance
  <1>7. /\ mem'.pol = mem.pol /\ Len(mem'.own) = c
        /\ mem'.own[c].key = r[P + 1][1] /\ mem'.own[c].body = r[P + 1][2]
        /\ mem'.own[c].id = id
        /\ \A i \in 1..Len(mem.own) : mem'.own[i] = mem.own[i]
    <2> DEFINE o == [key |-> Head(todo)[1], id |-> id, body |-> Head(todo)[2]]
    <2>1. /\ mem'.pol = mem.pol /\ Len(mem'.own) = c /\ mem'.own[c] = o
          /\ \A i \in 1..Len(mem.own) : mem'.own[i] = mem.own[i]
      BY Zenon, <1>3, <1>23, RecordOwn
    <2>2. o.key = r[P + 1][1] /\ o.body = r[P + 1][2] /\ o.id = id
      BY Zenon, <1>6
    <2> HIDE DEF o
    <2> QED
      BY Zenon, <2>1, <2>2
  <1>8. Seen = 1..P /\ Seen' = 1..(P + 1)
    BY Zenon, <1>1, <1>6, <1>7, <1>24 DEF Seen
  <1>10. /\ \A i \in 1..c : i = c \/ i \in 1..Len(mem.own)
         /\ c \in 1..c /\ \A i \in 1..Len(mem.own) : i # c /\ i \in 1..c
    BY <1>9, <1>23
  <1>11. Chosen(c)' /\ \A i \in 1..Len(mem.own) : Chosen(i)' <=> Chosen(i)
    BY Zenon, <1>1, <1>5, <1>7 DEF Chosen, OwnIn
  <1>12. \A i \in 1..Len(mem.own) : \A j : Serves(i, j)' <=> Serves(i, j)
    BY ZenonT(30), <1>1, <1>7 DEF Serves
  <1>13. Serves(c, P + 1)'
    <2>1. \E x \in rfw : x.id = id /\ x.body = r[P + 1][2]
      BY Zenon, <1>1, <1>2, <1>6 DEF RowMade
    <2> QED
      BY Zenon, <1>1, <1>7, <2>1 DEF Serves
  <1>14. \A i, j \in 1..Len(r) : r[i][1] = r[j][1] => i = j
    BY Zenon DEF IInv, DistinctIn
  <1>15. \A j \in 1..P : j \in 1..(P + 1) /\ j # P + 1 /\ j \in 1..Len(r)
    BY <1>6
  <1>16. \A j \in 1..(P + 1) : j = P + 1 \/ j \in 1..P
    BY <1>6
  <1>17. P + 1 \in 1..(P + 1)
    BY <1>6
  <1>18. ChosenServe'
    BY Zenon, <1>2, <1>7, <1>8, <1>10, <1>11, <1>12, <1>13, <1>15, <1>17 DEF ChosenServe
  <1>19. SeenServed'
    <2>1. ASSUME NEW j \in 1..(P + 1)
          PROVE  \E i \in 1..c : Chosen(i)' /\ mem'.own[i].key = r[j][1]
      <3>1. CASE j = P + 1
        BY Zenon, <1>7, <1>10, <1>11, <3>1
      <3>2. CASE j \in 1..P
        BY <1>2, <1>7, <1>8, <1>10, <1>11, <3>2 DEF SeenServed
      <3> QED
        BY Zenon, <1>16, <3>1, <3>2
    <2> QED
      BY Zenon, <1>7, <1>8, <2>1 DEF SeenServed
  <1>20. \A i \in 1..Len(mem.own) : Chosen(i) => mem.own[i].key # mem'.own[c].key
    <2>1. ASSUME NEW i \in 1..Len(mem.own), Chosen(i)
          PROVE  mem.own[i].key # mem'.own[c].key
      <3>1. PICK j \in 1..P : Serves(i, j)
        BY Zenon, <1>2, <1>8, <2>1 DEF ChosenServe
      <3>2. mem.own[i].key = r[j][1] /\ j # P + 1 /\ j \in 1..Len(r)
        BY Zenon, <1>15, <3>1 DEF Serves
      <3> QED
        BY ZenonT(30), <1>6, <1>7, <1>14, <3>2
    <2> QED
      BY Zenon, <2>1
  <1>21. ServedOnce'
    <2>1. ASSUME NEW i \in 1..c, NEW k \in 1..c, Chosen(i)', Chosen(k)',
                 mem'.own[i].key = mem'.own[k].key
          PROVE  i = k
      <3>1. CASE i = c /\ k = c
        BY Zenon, <3>1
      <3>2. CASE i = c /\ k \in 1..Len(mem.own)
        BY Zenon, <1>7, <1>11, <1>20, <2>1, <3>2
      <3>3. CASE i \in 1..Len(mem.own) /\ k = c
        BY Zenon, <1>7, <1>11, <1>20, <2>1, <3>3
      <3>4. CASE i \in 1..Len(mem.own) /\ k \in 1..Len(mem.own)
        BY Zenon, <1>2, <1>7, <1>11, <2>1, <3>4 DEF ServedOnce
      <3> QED
        BY Zenon, <1>10, <3>1, <3>2, <3>3, <3>4
    <2> QED
      BY Zenon, <1>7, <2>1 DEF ServedOnce
  <1>22. RowsReal'
    BY Zenon, <1>1, <1>2, <1>5 DEF RowsReal
  <1> QED
    BY Zenon, <1>1, <1>6, <1>7, <1>18, <1>19, <1>21, <1>22 DEF Mirroring, RowMade

LEMMA MirrorDelete ==
    ASSUME IInv, Mirroring, DeleteRule, calm'
    PROVE  Mirroring'
PROOF
  <1>1. CASE Done
    BY <1>1 DEF Done, Mirroring
  <1>2. CASE ~ Done
    <2> DEFINE n == mem.own[FirstObsolete].id
    <2>1. /\ at = "rules" /\ calm /\ todo = <<>> /\ todo' = todo /\ at' = "forget"
          /\ mem' = mem /\ sel' = sel
          /\ Obsolete # {}
      BY Zenon, <1>2 DEF DeleteRule, Fine
    <2>2. rfw' = rfw \/ rfw' = Without(n)
      BY Zenon DEF DeleteRule
    <2>3. n \notin sel
      BY Zenon, <2>1, FirstIsObsolete DEF IInv
    <2> HIDE DEF n
    <2>4. /\ Rest(todo, mem.pol.rules)
          /\ RowsReal /\ ChosenServe /\ SeenServed /\ ServedOnce
      BY <2>1 DEF Mirroring
    <2>5. \A i, j : Chosen(i) /\ Serves(i, j) => Serves(i, j)'
      BY Zenon, <2>1, <2>2, <2>3 DEF Serves, Chosen, Without
    <2>6. \A i : Chosen(i)' <=> Chosen(i)
      BY <2>1 DEF Chosen
    <2>7. Seen' = Seen
      BY <2>1 DEF Seen
    <2>8. ChosenServe'
      BY <2>1, <2>4, <2>5, <2>6, <2>7 DEF ChosenServe
    <2>9. SeenServed' /\ ServedOnce'
      BY Zenon, <2>1, <2>4, <2>6, <2>7 DEF SeenServed, ServedOnce
    <2> QED
      BY Zenon, <2>1, <2>4, <2>8, <2>9 DEF Mirroring, RowMade, RowsReal
  <1> QED
    BY <1>1, <1>2

LEMMA MirrorForget ==
    ASSUME IInv, Mirroring, ForgetRule, calm'
    PROVE  Mirroring'
PROOF
  <1> DEFINE f == FirstObsolete
             up(i) == IF i < f THEN i ELSE i + 1
             down(i) == IF i < f THEN i ELSE i - 1
  <1>1. /\ at = "forget" /\ calm /\ todo' = todo /\ at' = "rules"
        /\ rfw' = rfw /\ sel' = sel
    BY Zenon DEF ForgetRule, Saved, NotSaved, Fine, Fault, Goto
  <1>2. /\ Rest(todo, mem.pol.rules)
        /\ ChosenServe /\ SeenServed /\ ServedOnce
    BY <1>1 DEF Mirroring
  <1>3. todo = <<>>
    BY Zenon, <1>1 DEF IInv, Steps
  <1>4. /\ mem'.pol = mem.pol /\ f \in 1..Len(mem.own)
        /\ Shifted(mem, mem', f) /\ ~ Chosen(f)
    BY Zenon, ForgetOwn DEF Chosen
  <1>5. Len(mem.own) \in Nat
    BY DEF IInv, TypeOK, States
  <1> HIDE DEF f
  <1>6. \A i \in 1..Len(mem'.own) :
           up(i) \in 1..Len(mem.own) /\ mem'.own[i] = mem.own[up(i)]
    BY <1>4, <1>5 DEF Shifted
  <1>7. \A i \in 1..Len(mem.own) : i # f =>
           down(i) \in 1..Len(mem'.own) /\ up(down(i)) = i
    BY <1>4, <1>5 DEF Shifted
  <1>8. \A i, k \in 1..Len(mem'.own) : up(i) = up(k) => i = k
    BY <1>4, <1>5 DEF Shifted
  <1> HIDE DEF up, down
  <1>9. \A i \in 1..Len(mem'.own) : Chosen(i)' <=> Chosen(up(i))
    BY Zenon, <1>1, <1>6 DEF Chosen
  <1>10. \A i \in 1..Len(mem'.own) : \A j : Serves(i, j)' <=> Serves(up(i), j)
    BY Zenon, <1>1, <1>4, <1>6 DEF Serves
  <1>11. Seen' = Seen
    BY <1>1, <1>4 DEF Seen
  <1>12. ChosenServe'
    BY Zenon, <1>2, <1>6, <1>9, <1>10, <1>11 DEF ChosenServe
  <1>13. SeenServed'
    <2>1. ASSUME NEW j \in Seen
          PROVE  \E i \in 1..Len(mem'.own) : Chosen(i)' /\ mem'.own[i].key = mem.pol.rules[j][1]
      <3>1. PICK i \in 1..Len(mem.own) : Chosen(i) /\ mem.own[i].key = mem.pol.rules[j][1]
        BY <1>2 DEF SeenServed
      <3>2. i # f
        BY <1>4, <3>1
      <3>3. down(i) \in 1..Len(mem'.own) /\ up(down(i)) = i
        BY <1>7, <3>2
      <3> QED
        BY Zenon, <1>6, <1>9, <3>1, <3>3
    <2> QED
      BY Zenon, <1>4, <1>11, <2>1 DEF SeenServed
  <1>14. ServedOnce'
    BY Zenon, <1>2, <1>6, <1>8, <1>9 DEF ServedOnce
  <1> QED
    BY Zenon, <1>1, <1>2, <1>3, <1>4, <1>12, <1>13, <1>14 DEF Mirroring, RowMade, RowsReal

\* A step that is not part of a round without disturbance has nothing to keep.
LEMMA MirrorNext ==
    ASSUME IInv, Mirroring, Next
    PROVE  Mirroring'
PROOF
  <1> USE DEF Fine, Fault, Saved, NotSaved, Done, Goto, Begin, round, outside, Outside, Unsupported
  <1>0. job = "none" => at = "none"
    BY DEF IInv, Steps
  <1>1. CASE Reconcile
    <2>1. at' \notin {"rules", "record", "forget"}
      BY <1>0, <1>1 DEF Reconcile
    <2> QED
      BY <2>1 DEF Mirroring
  <1>2. CASE List
    <2>1. at' \in {"rules", "abuse", "none"}
      BY Zenon, <1>2 DEF List
    <2> QED
      BY Zenon, <1>2, <2>1, MirrorList DEF Mirroring
  <1>3. CASE KeepRule
    BY <1>3, MirrorKeep DEF Mirroring
  <1>4. CASE PostRule
    BY <1>4, MirrorPost DEF Mirroring
  <1>5. CASE RecordRule
    BY <1>5, MirrorRecord DEF Mirroring
  <1>6. CASE DeleteRule
    BY <1>6, MirrorDelete DEF Mirroring
  <1>7. CASE ForgetRule
    BY <1>7, MirrorForget DEF Mirroring
  <1>8. CASE ApplyAbuse
    <2>1. at' \notin {"rules", "record", "forget"}
      BY <1>0, <1>8 DEF ApplyAbuse
    <2> QED
      BY <2>1 DEF Mirroring
  <1>9. ASSUME NEW r \in 1..MaxRev, NEW p \in Policies, Apply(r, p)
        PROVE  Mirroring'
    <2>1. at' \notin {"rules", "record", "forget"}
      BY <1>0, <1>9, ApplyRound
    <2> QED
      BY Zenon, <2>1 DEF Mirroring
  <1>10. ASSUME NEW x \in rfw, DeleteManual(x)
        PROVE  Mirroring'
    <2>1. at' \notin {"rules", "record", "forget"}
      BY <1>0, <1>10 DEF DeleteManual
    <2> QED
      BY <2>1 DEF Mirroring
  <1>11. ASSUME NEW b \in Bodies, AdminAdd(b)
        PROVE  Mirroring'
    <2>1. calm' = FALSE
      BY Zenon, <1>11 DEF AdminAdd
    <2> QED
      BY Zenon, <2>1 DEF Mirroring
  <1>12. ASSUME NEW x \in rfw, AdminRemove(x)
        PROVE  Mirroring'
    <2>1. calm' = FALSE
      BY <1>12 DEF AdminRemove
    <2> QED
      BY Zenon, <2>1 DEF Mirroring
  <1>13. ASSUME NEW x \in rfw, NEW b \in Bodies, AdminEdit(x, b)
        PROVE  Mirroring'
    <2>1. calm' = FALSE
      BY <1>13 DEF AdminEdit
    <2> QED
      BY Zenon, <2>1 DEF Mirroring
  <1>14. CASE BridgeChange
    <2>1. calm' = FALSE
      BY Zenon, <1>14 DEF BridgeChange
    <2> QED
      BY <2>1 DEF Mirroring
  <1>15. CASE Crash
    <2>1. calm' = FALSE
      BY Zenon, <1>15 DEF Crash
    <2> QED
      BY <2>1 DEF Mirroring
  <1> QED
    BY <1>1, <1>2, <1>3, <1>4, <1>5, <1>6, <1>7, <1>8,
       <1>9, <1>10, <1>11, <1>12, <1>13, <1>14, <1>15 DEF Next, Step, Serve, Admin

-----------------------------------------------------------------------------
(* The theorems *)

LEMMA RoundsInit ==
    Init => LostBounded /\ Mirroring
PROOF
  <1> SUFFICES ASSUME Init
               PROVE  LostBounded /\ Mirroring
    OBVIOUS
  <1>1. rfw = {} /\ Lost = {} /\ faults + crashes = 0
    BY DEF Init, Lost
  <1>2. LostBounded
    BY <1>1, FS_EmptySet DEF LostBounded
  <1> QED
    BY Zenon, <1>2 DEF Init, Mirroring

LEMMA RoundsNext ==
    IInv /\ LostBounded /\ Mirroring /\ [Next]_vars => LostBounded' /\ Mirroring'
PROOF
  <1> SUFFICES ASSUME IInv, LostBounded, Mirroring, [Next]_vars
               PROVE  LostBounded' /\ Mirroring'
    OBVIOUS
  <1>1. CASE Next
    BY <1>1, LostNext, MirrorNext
  <1>2. CASE UNCHANGED vars
    <2> USE <1>2 DEF vars
    <2>1. LostBounded'
      BY Zenon DEF LostBounded, Lost
    <2>2. Mirroring'
      <3>1. Seen' = Seen
        BY DEF Seen
      <3>2. \A i : Chosen(i)' <=> Chosen(i)
        BY Zenon DEF Chosen
      <3>3. \A i, j : Serves(i, j)' <=> Serves(i, j)
        BY Zenon DEF Serves
      <3>4. ChosenServe => ChosenServe'
        BY Zenon, <3>1, <3>2, <3>3 DEF ChosenServe
      <3>5. SeenServed => SeenServed'
        BY Zenon, <3>1, <3>2 DEF SeenServed
      <3>6. ServedOnce => ServedOnce'
        BY Zenon, <3>2 DEF ServedOnce
      <3> QED
        BY Zenon, <3>4, <3>5, <3>6 DEF Mirroring, RowsReal, RowMade
    <2> QED
      BY Zenon, <2>1, <2>2
  <1> QED
    BY <1>1, <1>2

LEMMA RoundsInvariant ==
    Spec => [](IInv /\ LostBounded /\ Mirroring)
BY RoundsInit, RoundsNext, InvInit, InvNext, PTL DEF Spec

\* reconcile_rfw saves every id it is given at once: however many rules, rounds and
\* administrators there are, the rows it created and no longer knows are at most as
\* many as failed steps and restarts.
THEOREM OrphansAreBounded ==
    Spec => []OrphansBounded
PROOF
  <1>1. IInv /\ LostBounded => OrphansBounded
    <2> SUFFICES ASSUME IInv, LostBounded
                 PROVE  Cardinality(Orphans) <= faults + crashes
      BY DEF OrphansBounded
    <2>1. OwnIds = OwnIn(mem)
      BY DEF OwnIds, OwnIn
    <2>2. Orphans \subseteq Lost
      BY <2>1 DEF Orphans, Lost
    <2>3. IsFiniteSet(Lost) /\ Cardinality(Lost) <= faults + crashes
      BY Zenon, FS_Subset DEF LostBounded, Lost
    <2>4. /\ IsFiniteSet(Orphans) /\ Cardinality(Orphans) <= Cardinality(Lost)
          /\ Cardinality(Orphans) \in Nat /\ Cardinality(Lost) \in Nat
      BY <2>2, <2>3, FS_Subset, FS_CardinalityType
    <2>5. faults \in Nat /\ crashes \in Nat
      BY TypeParts DEF IInv, Counters
    <2> QED
      BY <2>3, <2>4, <2>5
  <1> QED
    BY <1>1, RoundsInvariant, PTL

\* A round of reconcile in which nothing fails or changes leaves RFW in sync, as
\* readback sees it, and owns nothing that is not desired.
THEOREM RoundsInSync ==
    Spec => []RoundInSync
PROOF
  <1>1. IInv /\ Mirroring => RoundInSync
    <2> SUFFICES ASSUME IInv, Mirroring, Mirrored, calm
                 PROVE  InSync /\ Len(mem.own) = Len(mem.pol.rules)
      BY DEF RoundInSync
    <2> DEFINE r == mem.pol.rules
               own == mem.own
               L == Len(mem.own)
               R == Len(mem.pol.rules)
    <2>1. /\ at = "rules" /\ todo = <<>> /\ Obsolete = {}
          /\ Rest(todo, r) /\ ChosenServe /\ SeenServed /\ ServedOnce
      BY DEF Mirrored, Mirroring
    <2>2. r \in Seq(Keys \X Bodies) /\ own \in Seq(Owned)
      BY Zenon DEF IInv, TypeOK, States, AllPolicies
    <2>3. Seen = 1..R /\ L \in Nat /\ R \in Nat
      BY <2>1, <2>2 DEF Seen
    <2>4. \A i \in 1..L : Chosen(i)
      BY <2>1 DEF Obsolete, Chosen
    <2>5. \A i, j \in 1..R : r[i][1] = r[j][1] => i = j
      BY Zenon DEF IInv, DistinctIn
    <2>6. \A i \in 1..L : \E j \in 1..R : Serves(i, j)
      BY <2>1, <2>3, <2>4 DEF ChosenServe
    <2>7. \A j \in 1..R : \E i \in 1..L : own[i].key = r[j][1]
      BY Zenon, <2>1, <2>3 DEF SeenServed
    <2>8. \A i, k \in 1..L : own[i].key = own[k].key => i = k
      BY Zenon, <2>1, <2>4 DEF ServedOnce
    <2>9. Range(r) = {r[j] : j \in 1..R}
      BY Zenon, <2>2, RangeOfSeq
    <2>10. InSync
      <3>1. ASSUME NEW x \in rfw, NEW i \in 1..L, own[i].id = x.id
            PROVE  \E d \in Range(r) : own[i].key = d[1] /\ own[i].body = d[2] /\ x.body = d[2]
        <4>1. PICK j \in 1..R : Serves(i, j)
          BY <2>6
        <4>2. \A y \in rfw : y.id = x.id => y = x
          BY Zenon DEF IInv, TypeOK
        <4>3. own[i].key = r[j][1] /\ own[i].body = r[j][2] /\ x.body = r[j][2]
          BY Zenon, <3>1, <4>1, <4>2 DEF Serves
        <4> QED
          BY Zenon, <2>9, <4>3
      <3>2. ASSUME NEW j \in 1..R
            PROVE  /\ \E i \in 1..L : own[i].key = r[j][1]
                   /\ own[OwnerOf(r[j][1])].body = r[j][2]
                   /\ \E x \in rfw : x.id = own[OwnerOf(r[j][1])].id /\ x.body = r[j][2]
        <4> DEFINE K == {i \in 1..L : own[i].key = r[j][1]}
        <4>1. K \in SUBSET Nat /\ K # {}
          <5>1. 1..L \subseteq Nat
            OBVIOUS
          <5> QED
            BY Zenon, <2>7, <5>1
        <4>2. OwnerOf(r[j][1]) = CHOOSE i \in K : \A k \in K : i <= k
          BY DEF OwnerOf
        <4>3. \E i \in K : \A k \in K : i <= k
          BY Zenon, <4>1, Smallest
        <4>4. OwnerOf(r[j][1]) \in K
          BY Zenon, <4>2, <4>3
        <4>5. PICK o \in 1..L : o = OwnerOf(r[j][1]) /\ own[o].key = r[j][1]
          BY Zenon, <4>4
        <4>6. PICK k \in 1..R : Serves(o, k)
          BY <2>6
        <4>7. k = j
          BY Zenon, <2>5, <4>5, <4>6 DEF Serves
        <4> QED
          BY Zenon, <2>7, <4>5, <4>6, <4>7 DEF Serves
      <3>3. ASSUME NEW d \in Range(r)
            PROVE  /\ \E i \in 1..L : own[i].key = d[1]
                   /\ own[OwnerOf(d[1])].body = d[2]
                   /\ \E x \in rfw : x.id = own[OwnerOf(d[1])].id /\ x.body = d[2]
        <4>1. PICK j \in 1..R : d = r[j]
          BY Zenon, <2>9
        <4> QED
          BY Zenon, <3>2, <4>1
      <3> QED
        BY Zenon, <3>1, <3>3 DEF InSync
    <2>11. L = R
      <3> DEFINE g == [i \in 1..L |-> CHOOSE j \in 1..R : own[i].key = r[j][1]]
      <3>1. \A i \in 1..L : g[i] \in 1..R /\ own[i].key = r[g[i]][1]
        BY Zenon, <2>6 DEF Serves
      <3>2. g \in [1..L -> 1..R]
        BY Zenon, <3>1
      <3> HIDE DEF g
      <3>3. ASSUME NEW i \in 1..L, NEW k \in 1..L, g[i] = g[k]
            PROVE  i = k
        <4>1. own[i].key = own[k].key
          BY Zenon, <3>1, <3>3
        <4> QED
          BY Zenon, <2>8, <4>1
      <3>4. \A j \in 1..R : \E i \in 1..L : g[i] = j
        <4>1. ASSUME NEW j \in 1..R
              PROVE  \E i \in 1..L : g[i] = j
          <5>1. PICK i \in 1..L : own[i].key = r[j][1]
            BY <2>7
          <5>2. g[i] \in 1..R /\ r[g[i]][1] = r[j][1]
            BY Zenon, <3>1, <5>1
          <5>3. g[i] = j
            BY Zenon, <2>5, <5>2
          <5> QED BY <5>3
        <4> QED BY <4>1
      <3>5. g \in Bijection(1..L, 1..R)
        BY <3>2, <3>3, <3>4 DEF Bijection, Injection, Surjection, IsInjective
      <3>6. ExistsBijection(1..L, 1..R)
        BY <3>5 DEF ExistsBijection
      <3>7. IsFiniteSet(1..L) /\ Cardinality(1..L) = L /\ Cardinality(1..R) = R
        <4>1. ASSUME NEW n \in Nat
              PROVE  IsFiniteSet(1..n) /\ Cardinality(1..n) = n
          <5>1. /\ IsFiniteSet(1..n)
                /\ Cardinality(1..n) = IF 1 > n THEN 0 ELSE n - 1 + 1
            BY FS_Interval
          <5> QED BY <5>1
        <4> HIDE DEF L, R
        <4> QED BY <2>3, <4>1
      <3>8. Cardinality(1..R) = Cardinality(1..L)
        BY <3>6, <3>7, FS_Bijection
      <3> QED
        BY <3>7, <3>8
    <2> QED
      BY <2>10, <2>11
  <1> QED
    BY <1>1, RoundsInvariant, PTL
=============================================================================
