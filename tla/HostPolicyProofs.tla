-------------------------- MODULE HostPolicyProofs --------------------------
(* What HostPolicy's runs check, for every number of keys, rows, changes,      *)
(* failing steps and restarts.                                                 *)
EXTENDS HostPolicy, WellFoundedInduction, TLAPS

-----------------------------------------------------------------------------
(* Sequences, finite sets *)

\* Vec::remove.
LEMMA Removed ==
    ASSUME NEW S, NEW s \in Seq(S), NEW i \in 1..Len(s)
    PROVE  /\ RemoveAt(s, i) \in Seq(S)
           /\ Len(RemoveAt(s, i)) = Len(s) - 1
           /\ \A j \in 1..(Len(s) - 1) :
                 RemoveAt(s, i)[j] = IF j < i THEN s[j] ELSE s[j + 1]
  BY DEF RemoveAt

\* The first of a set of indices is one of them.
LEMMA Smallest ==
    ASSUME NEW S \in SUBSET Nat, S # {}
    PROVE  \E i \in S : \A j \in S : i <= j
PROOF
  <1> DEFINE R == {ss \in Nat \X Nat : ss[1] < ss[2]}
  <1>1. R = OpToRel(<, Nat)
    BY Zenon DEF OpToRel
  <1>2. IsWellFoundedOn(R, Nat)
    BY <1>1, NatLessThanWellFounded, Zenon
  <1>3. \A x, y \in Nat : x < y => <<x, y>> \in R
    OBVIOUS
  <1> HIDE DEF R
  <1>4. \E x \in S : \A y \in S : ~ (<<y, x>> \in R)
    BY Zenon, <1>2, WFMin
  <1>5. PICK x \in S : \A y \in S : ~ (<<y, x>> \in R)
    BY <1>4
  <1>6. x \in Nat /\ \A y \in S : y \in Nat /\ ~ (y < x)
    BY Zenon, <1>3, <1>5
  <1> QED
    BY <1>6

-----------------------------------------------------------------------------
(* The inductive invariant *)

OwnIn(m) == {m.own[i].id : i \in 1..Len(m.own)}

\* The keys of a policy and the ids of what is owned are distinct.
DistinctIn(m) ==
    /\ \A i, j \in 1..Len(m.pol.rules) : m.pol.rules[i][1] = m.pol.rules[j][1] => i = j
    /\ \A i, j \in 1..Len(m.own) : m.own[i].id = m.own[j].id => i = j

Given ==
    /\ \A x \in rfw : x.id <= given
    /\ \A n \in OwnIn(mem) \cup OwnIn(disk) : n <= given
    /\ id <= given

\* What the step of a round that comes next relies on: the row RFW has just made is
\* nobody's yet, the one just deleted is gone, and a listed row is listed.
Steps ==
    /\ job = "none" <=> at = "none"
    /\ at \in {"none", "list", "rules", "abuse"} => id = 0
    /\ at = "record" => /\ todo # <<>>
                        /\ id # 0 /\ id \notin OwnIn(mem) \cup OwnIn(disk)
    /\ at = "forget" => /\ todo = <<>>
                        /\ Obsolete # {} /\ id = mem.own[FirstObsolete].id
                        /\ \A x \in rfw : x.id # id
    /\ sel \subseteq OwnIn(mem)
    /\ at \in {"rules", "record", "forget"} =>
          \A x \in rfw : x.id \in OwnIn(mem) =>
             x.id \in sel \/ \E y \in rows : y.id = x.id

Manual ==
    \A x \in rfw : x.by = "admin" =>
       /\ x.id \notin OwnIn(mem) \cup OwnIn(disk)
       /\ at = "record" => x.id # id

RevisionsOrdered == disk.rev <= mem.rev

IInv ==
    /\ TypeOK
    /\ DistinctIn(mem) /\ DistinctIn(disk)
    /\ Given /\ Steps /\ Manual /\ RevisionsOrdered

-----------------------------------------------------------------------------
(* managed_rules *)

LEMMA OwnEmpty ==
    ASSUME NEW m, m.own = <<>>
    PROVE  OwnIn(m) = {}
BY DEF OwnIn

\* push.
LEMMA Pushed ==
    ASSUME NEW m \in States, NEW o \in Owned, NEW n,
           n = [m EXCEPT !.own = Append(@, o)]
    PROVE  /\ n \in States /\ n.rev = m.rev /\ n.pol = m.pol
           /\ Len(n.own) = Len(m.own) + 1 /\ n.own[Len(n.own)] = o
           /\ \A i \in 1..Len(m.own) : n.own[i] = m.own[i]
           /\ OwnIn(n) = OwnIn(m) \cup {o.id}
           /\ DistinctIn(m) /\ o.id \notin OwnIn(m) => DistinctIn(n)
PROOF
  <1>1. m.own \in Seq(Owned) /\ Append(m.own, o) \in Seq(Owned)
    BY DEF States
  <1>2. n \in States /\ n.rev = m.rev /\ n.pol = m.pol /\ n.own = Append(m.own, o)
    BY Zenon, <1>1 DEF States
  <1>3. /\ Len(n.own) = Len(m.own) + 1 /\ n.own[Len(n.own)] = o /\ Len(m.own) \in Nat
        /\ \A i \in 1..Len(m.own) : n.own[i] = m.own[i]
    BY <1>1, <1>2
  <1>4. OwnIn(n) = OwnIn(m) \cup {o.id}
    BY <1>3 DEF OwnIn
  <1>5. DistinctIn(m) /\ o.id \notin OwnIn(m) => DistinctIn(n)
    BY <1>2, <1>3 DEF DistinctIn, OwnIn
  <1> QED
    BY Zenon, <1>2, <1>3, <1>4, <1>5

\* Row i is gone and those after it have moved up.
Shifted(m, n, i) ==
    /\ Len(n.own) = Len(m.own) - 1
    /\ \A j \in 1..Len(n.own) : n.own[j] = IF j < i THEN m.own[j] ELSE m.own[j + 1]

\* remove.
LEMMA Dropped ==
    ASSUME NEW m \in States, NEW i \in 1..Len(m.own), DistinctIn(m), NEW n,
           n = [m EXCEPT !.own = RemoveAt(@, i)]
    PROVE  /\ n \in States /\ n.rev = m.rev /\ n.pol = m.pol
           /\ Shifted(m, n, i)
           /\ OwnIn(n) = OwnIn(m) \ {m.own[i].id}
           /\ DistinctIn(n)
PROOF
  <1>1. m.own \in Seq(Owned) /\ Len(m.own) \in Nat
    BY DEF States
  <1>2. /\ RemoveAt(m.own, i) \in Seq(Owned)
        /\ Len(RemoveAt(m.own, i)) = Len(m.own) - 1
        /\ \A j \in 1..(Len(m.own) - 1) :
              RemoveAt(m.own, i)[j] = IF j < i THEN m.own[j] ELSE m.own[j + 1]
    BY <1>1, Removed
  <1>3. n \in States /\ n.rev = m.rev /\ n.pol = m.pol /\ n.own = RemoveAt(m.own, i)
    BY <1>2 DEF States
  <1>4. /\ Len(n.own) = Len(m.own) - 1
        /\ \A j \in 1..Len(n.own) : n.own[j] = IF j < i THEN m.own[j] ELSE m.own[j + 1]
    BY <1>2, <1>3
  <1>5. OwnIn(n) \subseteq OwnIn(m) \ {m.own[i].id}
    <2>1. ASSUME NEW j \in 1..Len(n.own)
          PROVE  \E k \in 1..Len(m.own) : k # i /\ n.own[j] = m.own[k]
      <3>1. CASE j < i
        BY <3>1, <1>1, <1>4
      <3>2. CASE ~ (j < i)
        <4>1. j + 1 \in 1..Len(m.own) /\ j + 1 # i /\ n.own[j] = m.own[j + 1]
          BY <3>2, <1>1, <1>4
        <4> QED BY <4>1
      <3> QED BY <3>1, <3>2
    <2> QED BY <2>1 DEF OwnIn, DistinctIn
  <1>6. ASSUME NEW j \in 1..Len(m.own), m.own[j].id # m.own[i].id
        PROVE  m.own[j].id \in OwnIn(n)
    <2>1. CASE j < i
      <3>1. j \in 1..Len(n.own) /\ n.own[j] = m.own[j]
        BY <2>1, <1>1, <1>4
      <3> QED BY <3>1 DEF OwnIn
    <2>2. CASE j > i
      <3>1. j - 1 \in 1..Len(n.own) /\ n.own[j - 1] = m.own[j]
        BY <2>2, <1>1, <1>4
      <3> QED BY <3>1 DEF OwnIn
    <2> QED BY <2>1, <2>2, <1>6
  <1>7. OwnIn(m) \ {m.own[i].id} \subseteq OwnIn(n)
    BY <1>6 DEF OwnIn
  <1>8. ASSUME NEW j \in 1..Len(n.own), NEW k \in 1..Len(n.own), n.own[j].id = n.own[k].id
        PROVE  j = k
    <2> DEFINE j2 == IF j < i THEN j ELSE j + 1
               k2 == IF k < i THEN k ELSE k + 1
    <2>1. ASSUME NEW x \in 1..Len(n.own)
          PROVE  \/ x < i /\ x \in 1..Len(m.own) /\ n.own[x] = m.own[x]
                 \/ ~ (x < i) /\ x + 1 \in 1..Len(m.own) /\ n.own[x] = m.own[x + 1]
      BY <1>1, <1>4
    <2>2. j2 \in 1..Len(m.own) /\ n.own[j] = m.own[j2]
      BY Zenon, <2>1
    <2>3. k2 \in 1..Len(m.own) /\ n.own[k] = m.own[k2]
      BY Zenon, <2>1
    <2>4. j2 = k2 => j = k
      BY <1>1, <1>4
    <2> HIDE DEF j2, k2
    <2> QED BY Zenon, <1>8, <2>2, <2>3, <2>4 DEF DistinctIn
  <1>9. DistinctIn(n)
    BY <1>3, <1>8 DEF DistinctIn
  <1> QED
    BY <1>3, <1>4, <1>5, <1>7, <1>9 DEF Shifted

\* The loop over managed_rules stops at an obsolete one.
LEMMA FirstIsObsolete ==
    ASSUME TypeOK, Obsolete # {}
    PROVE  /\ FirstObsolete \in 1..Len(mem.own)
           /\ mem.own[FirstObsolete].id \notin sel
           /\ mem.own[FirstObsolete].id \in OwnIn(mem)
           /\ mem.own[FirstObsolete].id \in Ids
PROOF
  <1>1. mem.own \in Seq(Owned)
    BY DEF TypeOK, States
  <1>2. Obsolete \in SUBSET Nat
    BY <1>1 DEF Obsolete
  <1>3. FirstObsolete \in Obsolete
    BY Zenon, <1>2, Smallest DEF FirstObsolete
  <1>4. FirstObsolete \in 1..Len(mem.own) /\ mem.own[FirstObsolete].id \notin sel
    BY <1>3 DEF Obsolete
  <1>5. mem.own[FirstObsolete] \in Owned
    BY <1>1, <1>4
  <1> QED
    BY <1>4, <1>5 DEF OwnIn, Owned

-----------------------------------------------------------------------------
(* The steps *)

\* What is owned in memory and on disk, and the revisions, step by step.
LEMMA StoreNext ==
    ASSUME IInv, Next
    PROVE  /\ mem' \in States /\ disk' \in States
           /\ DistinctIn(mem') /\ DistinctIn(disk')
           /\ disk'.rev <= mem'.rev
PROOF
  <1> USE DEF IInv, TypeOK, RevisionsOrdered
  <1>1. CASE Reconcile
    BY <1>1 DEF Reconcile
  <1>2. CASE List
    BY <1>2 DEF List
  <1>3. CASE KeepRule
    BY <1>3 DEF KeepRule
  <1>4. CASE PostRule
    BY <1>4 DEF PostRule
  <1>5. CASE RecordRule
    <2>1. CASE mem' = mem /\ disk' = disk
      BY <2>1
    <2>2. CASE mem' = [mem EXCEPT !.own = Append(@, [key |-> Head(todo)[1], id |-> id,
                                                     body |-> Head(todo)[2]])]
      <3> DEFINE o == [key |-> Head(todo)[1], id |-> id, body |-> Head(todo)[2]]
      <3>1. o \in Owned
        BY <1>5 DEF RecordRule, Steps, Owned, Ids
      <3>2. o.id \notin OwnIn(mem)
        BY Zenon, <1>5 DEF RecordRule, Steps
      <3>5. mem \in States /\ DistinctIn(mem) /\ mem' = [mem EXCEPT !.own = Append(@, o)]
        BY Zenon, <2>2
      <3>3. mem' \in States /\ DistinctIn(mem') /\ mem'.rev = mem.rev
        <4> HIDE DEF o, IInv, TypeOK, RevisionsOrdered
        <4> QED
          BY <3>1, <3>2, <3>5, Pushed
      <3>4. disk' = disk \/ disk' = mem'
        BY <1>5 DEF RecordRule, Saved, NotSaved
      <3> QED
        BY <3>3, <3>4 DEF States
    <2> QED
      BY Zenon, <1>5, <2>1, <2>2 DEF RecordRule
  <1>6. CASE DeleteRule
    BY <1>6 DEF DeleteRule
  <1>7. CASE ForgetRule
    <2>1. FirstObsolete \in 1..Len(mem.own)
      BY <1>7, FirstIsObsolete DEF ForgetRule, Steps
    <2>2. mem' \in States /\ DistinctIn(mem') /\ mem'.rev = mem.rev
      BY Zenon, <1>7, <2>1, Dropped DEF ForgetRule
    <2>3. disk' = disk \/ disk' = mem'
      BY <1>7 DEF ForgetRule, Saved, NotSaved
    <2> QED
      BY <2>2, <2>3 DEF States
  <1>8. CASE ApplyAbuse
    BY <1>8 DEF ApplyAbuse
  <1>9. ASSUME NEW r \in 1..MaxRev, NEW p \in Policies, Apply(r, p)
        PROVE  /\ mem' \in States /\ disk' \in States
               /\ DistinctIn(mem') /\ DistinctIn(disk')
               /\ disk'.rev <= mem'.rev
    <2>1. p \in AllPolicies
      BY HostPolicyAssumption
    <2>2. r \in 0..MaxRev
      BY HostPolicyAssumption
    <2>3. /\ mem' \in States /\ mem'.rev = r /\ mem'.pol = p /\ mem'.own = mem.own
          /\ r >= mem.rev
      <3>1. mem' = [mem EXCEPT !.rev = r, !.pol = p] /\ mem \in States
        BY <1>9 DEF Apply
      <3>2. /\ DOMAIN mem' = {"rev", "pol", "own"}
            /\ mem'.rev = r /\ mem'.pol = p /\ mem'.own = mem.own
        BY <3>1 DEF States
      <3>3. mem' \in States
        BY Zenon, <2>1, <2>2, <3>1 DEF States
      <3>4. r >= mem.rev
        BY <1>9, <2>2 DEF Apply, Accepts, States
      <3> QED BY <3>2, <3>3, <3>4
    <2>4. DistinctIn(mem')
      BY <2>3, HostPolicyAssumption DEF DistinctIn
    <2>5. disk' = disk \/ disk' = mem'
      BY <1>9 DEF Apply, Saved, NotSaved
    <2> QED
      BY <2>3, <2>4, <2>5 DEF States
  <1>10. ASSUME NEW x \in rfw, DeleteManual(x)
        PROVE  /\ mem' \in States /\ disk' \in States
               /\ DistinctIn(mem') /\ DistinctIn(disk')
               /\ disk'.rev <= mem'.rev
    BY <1>10 DEF DeleteManual
  <1>11. ASSUME NEW b \in Bodies, AdminAdd(b)
        PROVE  /\ mem' \in States /\ disk' \in States
               /\ DistinctIn(mem') /\ DistinctIn(disk')
               /\ disk'.rev <= mem'.rev
    BY <1>11 DEF AdminAdd, Outside
  <1>12. ASSUME NEW x \in rfw, AdminRemove(x)
        PROVE  /\ mem' \in States /\ disk' \in States
               /\ DistinctIn(mem') /\ DistinctIn(disk')
               /\ disk'.rev <= mem'.rev
    BY <1>12 DEF AdminRemove, Outside
  <1>13. ASSUME NEW x \in rfw, NEW b \in Bodies, AdminEdit(x, b)
        PROVE  /\ mem' \in States /\ disk' \in States
               /\ DistinctIn(mem') /\ DistinctIn(disk')
               /\ disk'.rev <= mem'.rev
    BY <1>13 DEF AdminEdit, Outside
  <1>14. CASE BridgeChange
    BY <1>14 DEF BridgeChange, Outside
  <1>15. CASE Crash
    BY <1>15 DEF Crash, States
  <1> QED
    BY <1>1, <1>2, <1>3, <1>4, <1>5, <1>6, <1>7, <1>8,
       <1>9, <1>10, <1>11, <1>12, <1>13, <1>14, <1>15 DEF Next, Step, Serve, Admin

\* What an action that changes mem does to the ids that are owned.
LEMMA RecordOwn ==
    ASSUME IInv, RecordRule, mem' # mem
    PROVE  /\ mem' = [mem EXCEPT !.own = Append(@, [key |-> Head(todo)[1], id |-> id,
                                                    body |-> Head(todo)[2]])]
           /\ OwnIn(mem') = OwnIn(mem) \cup {id} /\ mem'.pol = mem.pol
           /\ Len(mem'.own) = Len(mem.own) + 1
           /\ mem'.own[Len(mem'.own)] = [key |-> Head(todo)[1], id |-> id,
                                         body |-> Head(todo)[2]]
           /\ \A i \in 1..Len(mem.own) : mem'.own[i] = mem.own[i]
PROOF
  <1>1. [key |-> Head(todo)[1], id |-> id, body |-> Head(todo)[2]] \in Owned
    BY DEF IInv, RecordRule, Steps, TypeOK, Owned, Ids
  <1>2. mem' = [mem EXCEPT !.own = Append(@, [key |-> Head(todo)[1], id |-> id,
                                              body |-> Head(todo)[2]])]
    BY DEF RecordRule
  <1>3. mem \in States
    BY DEF IInv, TypeOK
  <1> QED
    BY <1>1, <1>2, <1>3, Pushed

LEMMA ForgetOwn ==
    ASSUME IInv, ForgetRule
    PROVE  /\ OwnIn(mem') = OwnIn(mem) \ {id} /\ mem'.pol = mem.pol
           /\ FirstObsolete \in 1..Len(mem.own)
           /\ Shifted(mem, mem', FirstObsolete)
           /\ id = mem.own[FirstObsolete].id /\ id \notin sel
PROOF
  <1>1. Obsolete # {} /\ id = mem.own[FirstObsolete].id /\ TypeOK
    BY DEF IInv, ForgetRule, Steps
  <1>2. FirstObsolete \in 1..Len(mem.own) /\ id \notin sel
    BY <1>1, FirstIsObsolete
  <1>3. mem \in States /\ DistinctIn(mem)
    BY DEF IInv, TypeOK
  <1>4. mem' = [mem EXCEPT !.own = RemoveAt(@, FirstObsolete)]
    BY DEF ForgetRule
  <1>5. OwnIn(mem') = OwnIn(mem) \ {mem.own[FirstObsolete].id} /\ mem'.pol = mem.pol
    BY <1>2, <1>3, <1>4, Dropped
  <1>6. Shifted(mem, mem', FirstObsolete)
    BY <1>2, <1>3, <1>4, Dropped
  <1> QED
    BY <1>1, <1>2, <1>5, <1>6

LEMMA ApplyOwn ==
    ASSUME IInv, NEW r, NEW p, Apply(r, p)
    PROVE  mem'.own = mem.own /\ OwnIn(mem') = OwnIn(mem) /\ mem'.pol = p
PROOF
  <1>1. mem \in States /\ mem' = [mem EXCEPT !.rev = r, !.pol = p]
    BY DEF IInv, TypeOK, Apply
  <1>2. mem'.own = mem.own /\ mem'.pol = p
    BY <1>1 DEF States
  <1> QED
    BY <1>2 DEF OwnIn

\* The owned row that is kept serves the rule.
LEMMA Kept ==
    ASSUME IInv, KeepRule
    PROVE  \E k \in 1..Len(mem.own) :
              /\ sel' = sel \cup {mem.own[k].id}
              /\ mem.own[k].id \notin sel /\ Matches(mem.own[k], Head(todo))
PROOF
  <1> DEFINE K == Serving(Head(todo))
             k == CHOOSE i \in K : \A j \in K : i <= j
  <1>1. mem.own \in Seq(Owned)
    BY DEF IInv, TypeOK, States
  <1>2. K \in SUBSET Nat /\ K # {}
    BY <1>1 DEF KeepRule, Serving
  <1>3. k \in K
    BY <1>2, Smallest
  <1>4. sel' = sel \cup {mem.own[k].id}
    BY DEF KeepRule
  <1> HIDE DEF k
  <1>5. k \in 1..Len(mem.own) /\ mem.own[k].id \notin sel /\ Matches(mem.own[k], Head(todo))
    BY <1>3 DEF Serving
  <1> HIDE DEF K
  <1> QED
    BY <1>4, <1>5

\* An answer that adds nothing to managed_rules ends the round.
LEMMA Recorded ==
    ASSUME IInv, RecordRule, mem' = mem
    PROVE  Fault /\ Done /\ disk' = disk
PROOF
  <1>1. [key |-> Head(todo)[1], id |-> id, body |-> Head(todo)[2]] \in Owned
    BY DEF IInv, RecordRule, Steps, TypeOK, Owned, Ids
  <1>2. mem \in States
    BY DEF IInv, TypeOK
  <1>3. mem' # [mem EXCEPT !.own = Append(@, [key |-> Head(todo)[1], id |-> id,
                                              body |-> Head(todo)[2]])]
    <2>1. mem.own \in Seq(Owned)
      BY <1>2 DEF States
    <2>2. Len(Append(mem.own, [key |-> Head(todo)[1], id |-> id, body |-> Head(todo)[2]]))
             # Len(mem.own)
      BY <1>1, <2>1
    <2> QED
      BY <1>2, <2>2 DEF States
  <1> QED
    BY <1>3 DEF RecordRule

\* A request that is saved begins a round.
LEMMA ApplyRound ==
    ASSUME NEW r, NEW p, Apply(r, p)
    PROVE  job = "none" /\ (Begin("apply") \/ UNCHANGED round)
BY Zenon DEF Apply

\* TypeOK in parts.
RfwTypes ==
    /\ rfw \subseteq Rows
    /\ \A x, y \in rfw : x.id = y.id => x = y
    /\ given \in 0..MaxRows

RoundTypes ==
    /\ job \in {"none", "apply", "reconcile"}
    /\ at \in {"none", "list", "rules", "record", "forget", "abuse"}
    /\ todo \in Seq(Keys \X Bodies)
    /\ rows \subseteq [id : Ids, body : Bodies]
    /\ sel \subseteq Ids /\ id \in 0..MaxRows

Counters ==
    /\ acked \in 0..MaxRev
    /\ changes \in 0..MaxChanges /\ faults \in 0..MaxFaults
    /\ crashes \in 0..MaxCrashes

FlagTypes == abuse \in {"off", "on", "part"} /\ bridge \in BOOLEAN /\ calm \in BOOLEAN

LEMMA TypeParts ==
    TypeOK <=> /\ mem \in States /\ disk \in States
               /\ RfwTypes /\ RoundTypes /\ Counters /\ FlagTypes
BY DEF TypeOK, RfwTypes, RoundTypes, Counters, FlagTypes

\* A round that ends is empty.
LEMMA DoneTypes ==
    ASSUME Done
    PROVE  RoundTypes'
PROOF
  <1>1. 0 \in 0..MaxRows
    BY HostPolicyAssumption
  <1> QED
    BY <1>1 DEF Done, RoundTypes

\* RFW's rows have ids it has given, each once.
LEMMA RfwNext ==
    ASSUME IInv, Next
    PROVE  RfwTypes'
PROOF
  <1> USE TypeParts DEF IInv, RfwTypes
  <1>1. CASE Reconcile
    BY <1>1 DEF Reconcile
  <1>2. CASE List
    BY <1>2 DEF List
  <1>3. CASE KeepRule
    BY <1>3 DEF KeepRule
  <1>4. CASE PostRule
    <2>1. CASE rfw' = rfw /\ given' = given
      BY <2>1
    <2>2. CASE /\ given < MaxRows /\ given' = given + 1
               /\ rfw' = rfw \cup {[id |-> given + 1, body |-> Head(todo)[2], by |-> "agent"]}
      <3>1. Head(todo)[2] \in Bodies
        BY <1>4 DEF PostRule, RoundTypes
      <3> DEFINE new == [id |-> given + 1, body |-> Head(todo)[2], by |-> "agent"]
      <3>2. new \in Rows /\ new.id = given + 1 /\ given + 1 \in 0..MaxRows
        BY <2>2, <3>1, HostPolicyAssumption DEF Rows, Ids
      <3>3. \A y \in rfw : y.id # given + 1
        BY DEF Given, Rows, Ids
      <3> HIDE DEF new
      <3> QED
        BY <2>2, <3>2, <3>3 DEF new
    <2> QED
      BY <1>4, <2>1, <2>2 DEF PostRule
  <1>5. CASE RecordRule
    BY <1>5 DEF RecordRule
  <1>6. CASE DeleteRule
    BY Zenon, <1>6 DEF DeleteRule, Without
  <1>7. CASE ForgetRule
    BY <1>7 DEF ForgetRule
  <1>8. CASE ApplyAbuse
    BY <1>8 DEF ApplyAbuse
  <1>9. ASSUME NEW r \in 1..MaxRev, NEW p \in Policies, Apply(r, p)
        PROVE  RfwTypes'
    BY <1>9 DEF Apply
  <1>10. ASSUME NEW x \in rfw, DeleteManual(x)
        PROVE  RfwTypes'
    BY <1>10 DEF DeleteManual
  <1>11. ASSUME NEW b \in Bodies, AdminAdd(b)
        PROVE  RfwTypes'
    <2> DEFINE new == [id |-> given + 1, body |-> b, by |-> "admin"]
    <2>1. new \in Rows /\ new.id = given + 1 /\ given + 1 \in 0..MaxRows
      BY <1>11, HostPolicyAssumption DEF AdminAdd, Rows, Ids
    <2>2. \A y \in rfw : y.id # given + 1
      BY DEF Given, Rows, Ids
    <2>3. rfw' = rfw \cup {new} /\ given' = given + 1
      BY <1>11 DEF AdminAdd
    <2> HIDE DEF new
    <2> QED
      BY <2>1, <2>2, <2>3
  <1>12. ASSUME NEW x \in rfw, AdminRemove(x)
        PROVE  RfwTypes'
    BY <1>12 DEF AdminRemove, Outside
  <1>13. ASSUME NEW x \in rfw, NEW b \in Bodies, AdminEdit(x, b)
        PROVE  RfwTypes'
    <2> DEFINE new == [x EXCEPT !.body = b]
    <2>1. new \in Rows /\ new.id = x.id
      BY DEF Rows
    <2>2. rfw' = (rfw \ {x}) \cup {new} /\ given' = given
      BY <1>13 DEF AdminEdit
    <2> HIDE DEF new
    <2> QED
      BY <2>1, <2>2
  <1>14. CASE BridgeChange
    BY <1>14 DEF BridgeChange, Outside
  <1>15. CASE Crash
    BY <1>15 DEF Crash
  <1> QED
    BY <1>1, <1>2, <1>3, <1>4, <1>5, <1>6, <1>7, <1>8,
       <1>9, <1>10, <1>11, <1>12, <1>13, <1>14, <1>15 DEF Next, Step, Serve, Admin

\* Types of a round.
LEMMA RoundNext ==
    ASSUME IInv, Next
    PROVE  RoundTypes'
PROOF
  <1> USE TypeParts, HostPolicyAssumption
      DEF IInv, RoundTypes, Fine, Fault, Saved, NotSaved, Goto, Begin, round, outside, Outside
  <1>1. CASE Reconcile
    BY Zenon, <1>1 DEF Reconcile
  <1>2. CASE List
    <2>1. mem.pol.rules \in Seq(Keys \X Bodies)
      BY DEF States, AllPolicies
    <2>2. {[id |-> x.id, body |-> x.body] : x \in rfw} \subseteq [id : Ids, body : Bodies]
      BY DEF RfwTypes, Rows
    <2> DEFINE R == {[id |-> x.id, body |-> x.body] : x \in rfw}
    <2>3. \/ at' = "abuse" /\ id' = 0 /\ UNCHANGED <<job, todo, rows, sel>>
          \/ at' = "rules" /\ todo' = mem.pol.rules /\ sel' = {} /\ rows' = R
             /\ UNCHANGED <<job, id>>
          \/ Done
      BY Zenon, <1>2 DEF List, Listed, Unsupported
    <2> HIDE DEF R
    <2>4. CASE Done
      BY <2>4, DoneTypes
    <2>5. CASE ~ Done
      BY <2>1, <2>2, <2>3, <2>5 DEF R
    <2> QED
      BY Zenon, <2>4, <2>5
  <1>3. CASE KeepRule
    <2> DEFINE K == Serving(Head(todo))
               k == CHOOSE i \in K : \A j \in K : i <= j
    <2>1. mem.own \in Seq(Owned)
      BY DEF States
    <2>2. K \in SUBSET Nat /\ K # {} /\ K \subseteq 1..Len(mem.own)
      <3>1. K \subseteq 1..Len(mem.own)
        BY Zenon DEF Serving
      <3>2. K # {}
        BY Zenon, <1>3 DEF KeepRule
      <3>3. 1..Len(mem.own) \subseteq Nat
        BY <2>1
      <3> QED
        BY Zenon, <3>1, <3>2, <3>3
    <2>3. k \in 1..Len(mem.own)
      BY Zenon, <2>2, Smallest
    <2> HIDE DEF k
    <2>4. mem.own[k] \in Owned
      BY <2>1, <2>3
    <2>5. mem.own[k].id \in Ids
      BY <2>4 DEF Owned
    <2>6. sel' = sel \cup {mem.own[k].id}
      BY <1>3 DEF KeepRule, k
    <2> HIDE DEF K
    <2>7. todo' = Tail(todo) /\ todo # <<>> /\ UNCHANGED <<job, at, rows, id>>
      BY Zenon, <1>3 DEF KeepRule
    <2>8. todo' \in Seq(Keys \X Bodies)
      BY <2>7
    <2> QED
      BY <2>5, <2>6, <2>7, <2>8
  <1>4. CASE PostRule
    <2>1. \/ at' = "record" /\ id' = given + 1 /\ given < MaxRows
             /\ UNCHANGED <<job, todo, rows, sel>>
          \/ Done
      BY Zenon, <1>4 DEF PostRule
    <2>2. CASE Done
      BY <2>2, DoneTypes
    <2>3. CASE ~ Done
      BY <2>1, <2>3 DEF RfwTypes
    <2> QED
      BY <2>2, <2>3
  <1>5. CASE RecordRule
    <2>1. \/ at' = "rules" /\ id' = 0 /\ todo' = Tail(todo) /\ sel' = sel \cup {id}
             /\ UNCHANGED <<job, rows>>
          \/ Done
      BY <1>5 DEF RecordRule
    <2>2. id \in Ids /\ todo # <<>>
      BY <1>5 DEF RecordRule, Steps, Ids
    <2>3. Tail(todo) \in Seq(Keys \X Bodies)
      BY <2>2
    <2>4. CASE Done
      BY <2>4, DoneTypes
    <2>5. CASE ~ Done
      <3>1. /\ at' = "rules" /\ id' = 0 /\ job' = job /\ rows' = rows
            /\ todo' \in Seq(Keys \X Bodies)
        BY Zenon, <2>1, <2>3, <2>5
      <3>2. sel' \subseteq Ids
        BY <2>1, <2>2, <2>5
      <3> QED
        BY <3>1, <3>2
    <2> QED
      BY <2>4, <2>5
  <1>6. CASE DeleteRule
    <2>1. mem.own[FirstObsolete].id \in Ids
      BY Zenon, <1>6, FirstIsObsolete DEF DeleteRule
    <2>2. \/ at' = "forget" /\ id' = mem.own[FirstObsolete].id
             /\ UNCHANGED <<job, todo, rows, sel>>
          \/ Done
      BY Zenon, <1>6 DEF DeleteRule
    <2>3. CASE Done
      BY <2>3, DoneTypes
    <2>4. CASE ~ Done
      BY <2>1, <2>2, <2>4 DEF Ids
    <2> QED
      BY <2>3, <2>4
  <1>7. CASE ForgetRule
    <2>1. \/ at' = "rules" /\ id' = 0 /\ UNCHANGED <<job, todo, rows, sel>>
          \/ Done
      BY <1>7 DEF ForgetRule
    <2>2. CASE Done
      BY <2>2, DoneTypes
    <2>3. CASE ~ Done
      BY <2>1, <2>3
    <2> QED
      BY <2>2, <2>3
  <1>8. CASE ApplyAbuse
    BY Zenon, <1>8, DoneTypes DEF ApplyAbuse
  <1>9. ASSUME NEW r \in 1..MaxRev, NEW p \in Policies, Apply(r, p)
        PROVE  RoundTypes'
    BY <1>9 DEF Apply
  <1>10. ASSUME NEW x \in rfw, DeleteManual(x)
        PROVE  RoundTypes'
    BY Zenon, <1>10 DEF DeleteManual
  <1>11. ASSUME NEW b \in Bodies, AdminAdd(b)
        PROVE  RoundTypes'
    BY Zenon, <1>11 DEF AdminAdd
  <1>12. ASSUME NEW x \in rfw, AdminRemove(x)
        PROVE  RoundTypes'
    BY Zenon, <1>12 DEF AdminRemove
  <1>13. ASSUME NEW x \in rfw, NEW b \in Bodies, AdminEdit(x, b)
        PROVE  RoundTypes'
    BY <1>13 DEF AdminEdit
  <1>14. CASE BridgeChange
    BY Zenon, <1>14 DEF BridgeChange
  <1>15. CASE Crash
    BY Zenon, <1>15, DoneTypes DEF Crash
  <1> QED
    BY Zenon, <1>1, <1>2, <1>3, <1>4, <1>5, <1>6, <1>7, <1>8,
       <1>9, <1>10, <1>11, <1>12, <1>13, <1>14, <1>15 DEF Next, Step, Serve, Admin

\* Counters stay within their bounds.
LEMMA CountersNext ==
    ASSUME IInv, Next
    PROVE  Counters'
PROOF
  <1> USE TypeParts, HostPolicyAssumption
      DEF IInv, Fine, Fault, Saved, NotSaved, Done, Goto, Begin, round, outside, Outside, Unsupported
  <1>0. ASSUME acked' \in 0..MaxRev,
               changes' = changes \/ (changes < MaxChanges /\ changes' = changes + 1),
               faults' = faults \/ (faults < MaxFaults /\ faults' = faults + 1),
               crashes' = crashes \/ (crashes < MaxCrashes /\ crashes' = crashes + 1)
        PROVE  Counters'
    <2>1. ASSUME NEW n \in Nat, NEW x \in 0..n, NEW y, y = x \/ (x < n /\ y = x + 1)
          PROVE  y \in 0..n
      BY <2>1
    <2> QED
      BY Zenon, <1>0, <2>1 DEF Counters
  <1>00. acked \in 0..MaxRev
    BY Zenon DEF Counters
  <1>1. CASE Reconcile
    BY Zenon, <1>0, <1>00, <1>1 DEF Reconcile
  <1>2. CASE List
    BY Zenon, <1>0, <1>00, <1>2 DEF List
  <1>3. CASE KeepRule
    BY Zenon, <1>0, <1>00, <1>3 DEF KeepRule
  <1>4. CASE PostRule
    BY Zenon, <1>0, <1>00, <1>4 DEF PostRule
  <1>5. CASE RecordRule
    BY Zenon, <1>0, <1>00, <1>5 DEF RecordRule
  <1>6. CASE DeleteRule
    BY Zenon, <1>0, <1>00, <1>6 DEF DeleteRule
  <1>7. CASE ForgetRule
    BY Zenon, <1>0, <1>00, <1>7 DEF ForgetRule
  <1>8. CASE ApplyAbuse
    <2>1. mem.rev \in 0..MaxRev
      BY Zenon DEF States
    <2> QED
      BY Zenon, <1>0, <1>00, <1>8, <2>1 DEF ApplyAbuse
  <1>9. ASSUME NEW r \in 1..MaxRev, NEW p \in Policies, Apply(r, p)
        PROVE  Counters'
    BY Zenon, <1>0, <1>00, <1>9 DEF Apply
  <1>10. ASSUME NEW x \in rfw, DeleteManual(x)
        PROVE  Counters'
    BY Zenon, <1>0, <1>00, <1>10 DEF DeleteManual
  <1>11. ASSUME NEW b \in Bodies, AdminAdd(b)
        PROVE  Counters'
    BY Zenon, <1>0, <1>00, <1>11 DEF AdminAdd
  <1>12. ASSUME NEW x \in rfw, AdminRemove(x)
        PROVE  Counters'
    BY Zenon, <1>0, <1>00, <1>12 DEF AdminRemove
  <1>13. ASSUME NEW x \in rfw, NEW b \in Bodies, AdminEdit(x, b)
        PROVE  Counters'
    BY Zenon, <1>0, <1>00, <1>13 DEF AdminEdit
  <1>14. CASE BridgeChange
    BY Zenon, <1>0, <1>00, <1>14 DEF BridgeChange
  <1>15. CASE Crash
    BY Zenon, <1>0, <1>00, <1>15 DEF Crash
  <1> QED
    BY Zenon, <1>1, <1>2, <1>3, <1>4, <1>5, <1>6, <1>7, <1>8,
       <1>9, <1>10, <1>11, <1>12, <1>13, <1>14, <1>15 DEF Next, Step, Serve, Admin

\* Types of the rest.
LEMMA FlagsNext ==
    ASSUME IInv, Next
    PROVE  FlagTypes'
PROOF
  <1> USE TypeParts DEF IInv, FlagTypes, Fine, Fault, Saved, NotSaved, Done, Goto, Begin, round, outside, Outside, Unsupported
  <1>1. CASE Reconcile
    BY <1>1, Zenon DEF Reconcile
  <1>2. CASE List
    BY <1>2, Zenon DEF List
  <1>3. CASE KeepRule
    BY <1>3, Zenon DEF KeepRule
  <1>4. CASE PostRule
    BY <1>4, Zenon DEF PostRule
  <1>5. CASE RecordRule
    BY <1>5, Zenon DEF RecordRule
  <1>6. CASE DeleteRule
    BY <1>6, Zenon DEF DeleteRule
  <1>7. CASE ForgetRule
    BY <1>7, Zenon DEF ForgetRule
  <1>8. CASE ApplyAbuse
    BY <1>8, Zenon DEF ApplyAbuse
  <1>9. ASSUME NEW r \in 1..MaxRev, NEW p \in Policies, Apply(r, p)
        PROVE  FlagTypes'
    BY <1>9, Zenon DEF Apply
  <1>10. ASSUME NEW x \in rfw, DeleteManual(x)
        PROVE  FlagTypes'
    BY <1>10, Zenon DEF DeleteManual
  <1>11. ASSUME NEW b \in Bodies, AdminAdd(b)
        PROVE  FlagTypes'
    BY <1>11, Zenon DEF AdminAdd
  <1>12. ASSUME NEW x \in rfw, AdminRemove(x)
        PROVE  FlagTypes'
    BY <1>12, Zenon DEF AdminRemove
  <1>13. ASSUME NEW x \in rfw, NEW b \in Bodies, AdminEdit(x, b)
        PROVE  FlagTypes'
    BY <1>13, Zenon DEF AdminEdit
  <1>14. CASE BridgeChange
    BY <1>14, Zenon DEF BridgeChange
  <1>15. CASE Crash
    BY <1>15, Zenon DEF Crash
  <1> QED
    BY Zenon, <1>1, <1>2, <1>3, <1>4, <1>5, <1>6, <1>7, <1>8,
       <1>9, <1>10, <1>11, <1>12, <1>13, <1>14, <1>15 DEF Next, Step, Serve, Admin

\* Ids that are owned are ids.
LEMMA OwnTypes ==
    ASSUME TypeOK
    PROVE  OwnIn(mem) \subseteq Ids /\ OwnIn(disk) \subseteq Ids
PROOF
  <1>1. ASSUME NEW m \in States
        PROVE  OwnIn(m) \subseteq Ids
    <2>1. m.own \in Seq(Owned)
      BY DEF States
    <2>2. \A i \in 1..Len(m.own) : m.own[i] \in Owned
      BY <2>1
    <2> QED
      BY <2>2 DEF OwnIn, Owned
  <1> QED
    BY <1>1 DEF TypeOK

\* Only the id RFW has just answered becomes an owned one.
LEMMA OwnNext ==
    ASSUME IInv, Next
    PROVE  /\ OwnIn(mem') \subseteq OwnIn(mem) \cup OwnIn(disk) \cup {n \in {id} : at = "record"}
           /\ OwnIn(disk') \subseteq OwnIn(mem) \cup OwnIn(disk) \cup {n \in {id} : at = "record"}
PROOF
  <1>1. CASE Reconcile
    BY Zenon, <1>1 DEF Reconcile
  <1>2. CASE List
    BY Zenon, <1>2 DEF List
  <1>3. CASE KeepRule
    BY Zenon, <1>3 DEF KeepRule
  <1>4. CASE PostRule
    BY <1>4 DEF PostRule
  <1>5. CASE RecordRule
    <2>1. at = "record" /\ (disk' = disk \/ disk' = mem')
      BY <1>5 DEF RecordRule, Saved, NotSaved
    <2>2. CASE mem' = mem
      BY <2>1, <2>2
    <2>3. CASE mem' # mem
      BY <1>5, <2>1, <2>3, RecordOwn
    <2> QED
      BY Zenon, <2>2, <2>3
  <1>6. CASE DeleteRule
    BY Zenon, <1>6 DEF DeleteRule
  <1>7. CASE ForgetRule
    <2>1. disk' = disk \/ disk' = mem'
      BY <1>7 DEF ForgetRule, Saved, NotSaved
    <2> QED
      BY Zenon, <1>7, <2>1, ForgetOwn
  <1>8. CASE ApplyAbuse
    BY <1>8 DEF ApplyAbuse
  <1>9. ASSUME NEW r \in 1..MaxRev, NEW p \in Policies, Apply(r, p)
        PROVE  /\ OwnIn(mem') \subseteq OwnIn(mem) \cup OwnIn(disk) \cup {n \in {id} : at = "record"}
               /\ OwnIn(disk') \subseteq OwnIn(mem) \cup OwnIn(disk) \cup {n \in {id} : at = "record"}
    <2>1. disk' = disk \/ disk' = mem'
      BY <1>9 DEF Apply, Saved, NotSaved
    <2> QED
      BY <1>9, <2>1, ApplyOwn
  <1>10. ASSUME NEW x \in rfw, DeleteManual(x)
        PROVE  /\ OwnIn(mem') \subseteq OwnIn(mem) \cup OwnIn(disk) \cup {n \in {id} : at = "record"}
               /\ OwnIn(disk') \subseteq OwnIn(mem) \cup OwnIn(disk) \cup {n \in {id} : at = "record"}
    BY <1>10 DEF DeleteManual
  <1>11. ASSUME NEW b \in Bodies, AdminAdd(b)
        PROVE  /\ OwnIn(mem') \subseteq OwnIn(mem) \cup OwnIn(disk) \cup {n \in {id} : at = "record"}
               /\ OwnIn(disk') \subseteq OwnIn(mem) \cup OwnIn(disk) \cup {n \in {id} : at = "record"}
    BY Zenon, <1>11 DEF AdminAdd, Outside
  <1>12. ASSUME NEW x \in rfw, AdminRemove(x)
        PROVE  /\ OwnIn(mem') \subseteq OwnIn(mem) \cup OwnIn(disk) \cup {n \in {id} : at = "record"}
               /\ OwnIn(disk') \subseteq OwnIn(mem) \cup OwnIn(disk) \cup {n \in {id} : at = "record"}
    BY Zenon, <1>12 DEF AdminRemove, Outside
  <1>13. ASSUME NEW x \in rfw, NEW b \in Bodies, AdminEdit(x, b)
        PROVE  /\ OwnIn(mem') \subseteq OwnIn(mem) \cup OwnIn(disk) \cup {n \in {id} : at = "record"}
               /\ OwnIn(disk') \subseteq OwnIn(mem) \cup OwnIn(disk) \cup {n \in {id} : at = "record"}
    BY <1>13 DEF AdminEdit, Outside
  <1>14. CASE BridgeChange
    BY <1>14 DEF BridgeChange, Outside
  <1>15. CASE Crash
    BY <1>15 DEF Crash
  <1> QED
    BY Zenon, <1>1, <1>2, <1>3, <1>4, <1>5, <1>6, <1>7, <1>8,
       <1>9, <1>10, <1>11, <1>12, <1>13, <1>14, <1>15 DEF Next, Step, Serve, Admin

\* RFW has given the ids of its rows.
LEMMA RowsGiven ==
    ASSUME IInv, Next
    PROVE  (\A y \in rfw' : y.id <= given') /\ id' <= given' /\ given <= given'
PROOF
  <1> USE DEF Fine, Fault, Saved, NotSaved, Done, Goto, Begin, round, outside, Outside, Unsupported
  <1>0. /\ given \in Nat /\ id \in Nat /\ id <= given
        /\ \A y \in rfw : y.id <= given /\ y.id \in Nat /\ y \in Rows
        /\ \A n \in OwnIn(mem) : n <= given
        /\ TypeOK
    BY DEF IInv, TypeOK, Given, Rows, Ids
  <1>1. CASE Reconcile
    BY <1>0, <1>1 DEF Reconcile
  <1>2. CASE List
    BY <1>0, <1>2 DEF List
  <1>3. CASE KeepRule
    BY <1>0, <1>3 DEF KeepRule
  <1>4. CASE PostRule
    <2>1. \/ rfw' = rfw /\ given' = given /\ id' = 0
          \/ /\ rfw' = rfw \cup {[id |-> given + 1, body |-> Head(todo)[2], by |-> "agent"]}
             /\ given' = given + 1 /\ id' = given + 1
      BY Zenon, <1>0, <1>4 DEF PostRule
    <2> QED
      BY <1>0, <2>1
  <1>5. CASE RecordRule
    <2>1. rfw' = rfw /\ given' = given /\ id' = 0
      BY <1>0, <1>5 DEF RecordRule
    <2> QED
      BY <1>0, <2>1
  <1>6. CASE DeleteRule
    <2>1. mem.own[FirstObsolete].id <= given
      BY Zenon, <1>0, <1>6, FirstIsObsolete DEF DeleteRule
    <2>2. rfw' \subseteq rfw /\ given' = given /\ id' \in {0, mem.own[FirstObsolete].id}
      BY Zenon, <1>0, <1>6 DEF DeleteRule, Without
    <2> QED
      BY <1>0, <2>1, <2>2
  <1>7. CASE ForgetRule
    <2>1. rfw' = rfw /\ given' = given /\ id' = 0
      BY <1>0, <1>7 DEF ForgetRule
    <2> QED
      BY <1>0, <2>1
  <1>8. CASE ApplyAbuse
    BY <1>0, <1>8 DEF ApplyAbuse
  <1>9. ASSUME NEW r \in 1..MaxRev, NEW p \in Policies, Apply(r, p)
        PROVE  (\A y \in rfw' : y.id <= given') /\ id' <= given' /\ given <= given'
    BY <1>0, <1>9 DEF Apply
  <1>10. ASSUME NEW x \in rfw, DeleteManual(x)
        PROVE  (\A y \in rfw' : y.id <= given') /\ id' <= given' /\ given <= given'
    BY <1>0, <1>10 DEF DeleteManual
  <1>11. ASSUME NEW b \in Bodies, AdminAdd(b)
        PROVE  (\A y \in rfw' : y.id <= given') /\ id' <= given' /\ given <= given'
    BY <1>0, <1>11 DEF AdminAdd
  <1>12. ASSUME NEW x \in rfw, AdminRemove(x)
        PROVE  (\A y \in rfw' : y.id <= given') /\ id' <= given' /\ given <= given'
    BY <1>0, <1>12 DEF AdminRemove
  <1>13. ASSUME NEW x \in rfw, NEW b \in Bodies, AdminEdit(x, b)
        PROVE  (\A y \in rfw' : y.id <= given') /\ id' <= given' /\ given <= given'
    <2>1. [x EXCEPT !.body = b].id = x.id
      BY <1>0 DEF Rows
    <2>2. rfw' = (rfw \ {x}) \cup {[x EXCEPT !.body = b]} /\ given' = given /\ id' = id
      BY <1>13 DEF AdminEdit
    <2>3. \A y \in rfw' : \E z \in rfw : y.id = z.id
      BY Zenon, <2>1, <2>2
    <2> QED
      BY <1>0, <2>2, <2>3
  <1>14. CASE BridgeChange
    BY <1>0, <1>14 DEF BridgeChange
  <1>15. CASE Crash
    BY <1>0, <1>15 DEF Crash
  <1> QED
    BY Zenon, <1>1, <1>2, <1>3, <1>4, <1>5, <1>6, <1>7, <1>8,
       <1>9, <1>10, <1>11, <1>12, <1>13, <1>14, <1>15 DEF Next, Step, Serve, Admin

LEMMA GivenNext ==
    ASSUME IInv, Next
    PROVE  Given'
PROOF
  <1>1. (\A y \in rfw' : y.id <= given') /\ id' <= given' /\ given <= given' /\ given' \in Nat
    BY RowsGiven, RfwNext DEF RfwTypes
  <1>2. \A n \in OwnIn(mem) \cup OwnIn(disk) \cup {id} : n \in Nat /\ n <= given
    BY OwnTypes DEF IInv, Given, TypeOK, Ids
  <1>3. given \in Nat
    BY DEF IInv, TypeOK
  <1>4. \A n \in OwnIn(mem') \cup OwnIn(disk') : n <= given'
    BY <1>1, <1>2, <1>3, OwnNext
  <1> QED
    BY Zenon, <1>1, <1>4 DEF Given

\* Where the rows of RFW come from.
LEMMA RowNext ==
    ASSUME IInv, Next
    PROVE  /\ \A y \in rfw' : y.id = given + 1 \/ \E z \in rfw : z.id = y.id /\ z.by = y.by
           /\ at' = "record" => \/ at = "record" /\ id' = id
                               \/ /\ id' = given + 1
                                  /\ \A y \in rfw' : y.by = "admin" => y.id # given + 1
PROOF
  <1> USE DEF Fine, Fault, Saved, NotSaved, Done, Goto, Begin, round, outside, Outside, Unsupported
  <1>0. given \in Nat /\ \A y \in rfw : y.id <= given /\ y.id \in Nat /\ y \in Rows
    BY DEF IInv, TypeOK, Given, Rows, Ids
  <1>1. CASE Reconcile
    BY Zenon, <1>1 DEF Reconcile
  <1>2. CASE List
    BY Zenon, <1>2 DEF List
  <1>3. CASE KeepRule
    BY Zenon, <1>3 DEF KeepRule
  <1>4. CASE PostRule
    <2>1. \/ rfw' = rfw /\ at' = "none"
          \/ /\ rfw' = rfw \cup {[id |-> given + 1, body |-> Head(todo)[2], by |-> "agent"]}
             /\ id' = given + 1
      BY Zenon, <1>4 DEF PostRule
    <2>2. \A y \in rfw : y.id # given + 1
      BY <1>0
    <2> QED
      BY <2>1, <2>2
  <1>5. CASE RecordRule
    <2>1. rfw' = rfw /\ at' # "record"
      BY <1>5 DEF RecordRule
    <2> QED
      BY <2>1
  <1>6. CASE DeleteRule
    <2>1. rfw' \subseteq rfw /\ at' # "record"
      BY Zenon, <1>6 DEF DeleteRule, Without
    <2> QED
      BY <2>1
  <1>7. CASE ForgetRule
    <2>1. rfw' = rfw /\ at' # "record"
      BY <1>7 DEF ForgetRule
    <2> QED
      BY <2>1
  <1>8. CASE ApplyAbuse
    BY <1>8 DEF ApplyAbuse
  <1>9. ASSUME NEW r \in 1..MaxRev, NEW p \in Policies, Apply(r, p)
        PROVE  /\ \A y \in rfw' : y.id = given + 1 \/ \E z \in rfw : z.id = y.id /\ z.by = y.by
               /\ at' = "record" => \/ at = "record" /\ id' = id
                                   \/ /\ id' = given + 1
                                      /\ \A y \in rfw' : y.by = "admin" => y.id # given + 1
    BY <1>9 DEF Apply
  <1>10. ASSUME NEW x \in rfw, DeleteManual(x)
        PROVE  /\ \A y \in rfw' : y.id = given + 1 \/ \E z \in rfw : z.id = y.id /\ z.by = y.by
               /\ at' = "record" => \/ at = "record" /\ id' = id
                                   \/ /\ id' = given + 1
                                      /\ \A y \in rfw' : y.by = "admin" => y.id # given + 1
    BY <1>10 DEF DeleteManual
  <1>11. ASSUME NEW b \in Bodies, AdminAdd(b)
        PROVE  /\ \A y \in rfw' : y.id = given + 1 \/ \E z \in rfw : z.id = y.id /\ z.by = y.by
               /\ at' = "record" => \/ at = "record" /\ id' = id
                                   \/ /\ id' = given + 1
                                      /\ \A y \in rfw' : y.by = "admin" => y.id # given + 1
    BY <1>11 DEF AdminAdd
  <1>12. ASSUME NEW x \in rfw, AdminRemove(x)
        PROVE  /\ \A y \in rfw' : y.id = given + 1 \/ \E z \in rfw : z.id = y.id /\ z.by = y.by
               /\ at' = "record" => \/ at = "record" /\ id' = id
                                   \/ /\ id' = given + 1
                                      /\ \A y \in rfw' : y.by = "admin" => y.id # given + 1
    BY Zenon, <1>12 DEF AdminRemove
  <1>13. ASSUME NEW x \in rfw, NEW b \in Bodies, AdminEdit(x, b)
        PROVE  /\ \A y \in rfw' : y.id = given + 1 \/ \E z \in rfw : z.id = y.id /\ z.by = y.by
               /\ at' = "record" => \/ at = "record" /\ id' = id
                                   \/ /\ id' = given + 1
                                      /\ \A y \in rfw' : y.by = "admin" => y.id # given + 1
    <2>1. [x EXCEPT !.body = b].id = x.id /\ [x EXCEPT !.body = b].by = x.by
      BY <1>0 DEF Rows
    <2>2. rfw' = (rfw \ {x}) \cup {[x EXCEPT !.body = b]} /\ at' = at /\ id' = id
      BY <1>13 DEF AdminEdit
    <2> QED
      BY Zenon, <2>1, <2>2
  <1>14. CASE BridgeChange
    BY <1>14 DEF BridgeChange
  <1>15. CASE Crash
    BY Zenon, <1>15 DEF Crash
  <1> QED
    BY Zenon, <1>1, <1>2, <1>3, <1>4, <1>5, <1>6, <1>7, <1>8,
       <1>9, <1>10, <1>11, <1>12, <1>13, <1>14, <1>15 DEF Next, Step, Serve, Admin

\* What an administrator made is never owned.
LEMMA ManualNext ==
    ASSUME IInv, Next
    PROVE  Manual'
PROOF
  <1>1. /\ given \in Nat /\ id \in Nat /\ id <= given
        /\ \A y \in rfw : y.id <= given /\ y.id \in Nat
        /\ \A n \in OwnIn(mem) \cup OwnIn(disk) : n <= given /\ n \in Nat
    BY OwnTypes DEF IInv, TypeOK, Given, Rows, Ids
  <1> SUFFICES ASSUME NEW y \in rfw', y.by = "admin"
               PROVE  /\ y.id \notin OwnIn(mem') \cup OwnIn(disk')
                      /\ at' = "record" => y.id # id'
    BY DEF Manual
  <1>2. CASE y.id = given + 1
    <2>1. y.id \notin OwnIn(mem') \cup OwnIn(disk')
      BY <1>1, <1>2, OwnNext
    <2> QED
      BY <1>1, <1>2, <2>1, RowNext
  <1>3. CASE \E z \in rfw : z.id = y.id /\ z.by = y.by
    <2>1. /\ y.id \notin OwnIn(mem) \cup OwnIn(disk)
          /\ at = "record" => y.id # id
          /\ y.id # given + 1
      BY <1>1, <1>3 DEF IInv, Manual
    <2>2. y.id \notin OwnIn(mem') \cup OwnIn(disk')
      BY <2>1, OwnNext
    <2> QED
      BY <2>1, <2>2, RowNext
  <1> QED
    BY Zenon, <1>2, <1>3, RowNext

\* Steps in parts.
AtRecord ==
    /\ job = "none" <=> at = "none"
    /\ at \in {"none", "list", "rules", "abuse"} => id = 0
    /\ at = "record" => /\ todo # <<>>
                        /\ id # 0 /\ id \notin OwnIn(mem) \cup OwnIn(disk)

AtForget ==
    at = "forget" => /\ todo = <<>>
                     /\ Obsolete # {} /\ id = mem.own[FirstObsolete].id
                     /\ \A x \in rfw : x.id # id

Selected == sel \subseteq OwnIn(mem)

AllListed ==
    at \in {"rules", "record", "forget"} =>
       \A x \in rfw : x.id \in OwnIn(mem) =>
          x.id \in sel \/ \E y \in rows : y.id = x.id

LEMMA StepParts == Steps <=> AtRecord /\ AtForget /\ Selected /\ AllListed
BY Zenon DEF Steps, AtRecord, AtForget, Selected, AllListed

\* A row that waits to be recorded is new.
LEMMA RecordNext ==
    ASSUME IInv, Next
    PROVE  AtRecord'
PROOF
  <1>0. /\ given \in Nat /\ AtRecord
        /\ \A n \in OwnIn(mem) \cup OwnIn(disk) : n <= given /\ n \in Nat
    <2>0. AtRecord /\ Given /\ TypeOK /\ given \in 0..MaxRows
      BY Zenon, StepParts DEF IInv, TypeOK
    <2>1. given \in Nat
      BY <2>0, HostPolicyAssumption
    <2>2. Ids \subseteq Nat
      BY HostPolicyAssumption DEF Ids
    <2> QED
      BY Zenon, OwnTypes, <2>0, <2>1, <2>2 DEF Given
  <1> USE DEF AtRecord, Fine, Fault, Saved, NotSaved, Done, Goto, Begin, round, outside, Outside, Unsupported
  <1>1. CASE Reconcile
    BY Zenon, <1>0, <1>1 DEF Reconcile
  <1>2. CASE List
    <2>1. (at' \in {"rules", "abuse"} /\ id' = 0 /\ job' = job /\ at # "none") \/ Done
      BY Zenon, <1>0, <1>2 DEF List
    <2> QED
      BY Zenon, <1>0, <2>1
  <1>3. CASE KeepRule
    <2>1. at' = "rules" /\ id' = id /\ at = "rules" /\ job' = job
      BY Zenon, <1>0, <1>3 DEF KeepRule
    <2> QED
      BY <1>0, <2>1
  <1>4. CASE PostRule
    <2>1. \/ Done
          \/ /\ at = "rules" /\ job' = job /\ at' = "record" /\ id' = given + 1 /\ todo' = todo /\ todo # <<>>
             /\ mem' = mem /\ disk' = disk
      BY Zenon, <1>0, <1>4 DEF PostRule
    <2> QED
      BY <1>0, <2>1
  <1>5. CASE RecordRule
    <2>1. id' = 0 /\ ((at' = "rules" /\ job' = job /\ at # "none") \/ Done)
      BY <1>0, <1>5 DEF RecordRule
    <2> QED
      BY <1>0, <2>1
  <1>6. CASE DeleteRule
    <2>1. (at' = "forget" /\ job' = job) \/ Done
      BY Zenon, <1>6 DEF DeleteRule
    <2> QED
      BY Zenon, <1>0, <2>1, <1>6 DEF DeleteRule
  <1>7. CASE ForgetRule
    <2>1. id' = 0 /\ ((at' = "rules" /\ job' = job /\ at # "none") \/ Done)
      BY <1>0, <1>7 DEF ForgetRule
    <2> QED
      BY <1>0, <2>1
  <1>8. CASE ApplyAbuse
    BY Zenon, <1>0, <1>8 DEF ApplyAbuse
  <1>9. ASSUME NEW r \in 1..MaxRev, NEW p \in Policies, Apply(r, p)
        PROVE  AtRecord'
    <2>1. id' = id /\ ((at' = "list" /\ job' = "apply") \/ (at' = at /\ job' = job))
      BY <1>9, ApplyRound
    <2>2. at = "none"
      BY <1>0, <1>9 DEF Apply
    <2> QED
      BY Zenon, <1>0, <2>1, <2>2
  <1>10. ASSUME NEW x \in rfw, DeleteManual(x)
        PROVE  AtRecord'
    BY Zenon, <1>0, <1>10 DEF DeleteManual
  <1>11. ASSUME NEW b \in Bodies, AdminAdd(b)
        PROVE  AtRecord'
    BY Zenon, <1>0, <1>11 DEF AdminAdd
  <1>12. ASSUME NEW x \in rfw, AdminRemove(x)
        PROVE  AtRecord'
    BY Zenon, <1>0, <1>12 DEF AdminRemove
  <1>13. ASSUME NEW x \in rfw, NEW b \in Bodies, AdminEdit(x, b)
        PROVE  AtRecord'
    BY <1>0, <1>13 DEF AdminEdit
  <1>14. CASE BridgeChange
    BY <1>0, <1>14 DEF BridgeChange
  <1>15. CASE Crash
    BY <1>0, <1>15 DEF Crash
  <1> QED
    BY Zenon, <1>1, <1>2, <1>3, <1>4, <1>5, <1>6, <1>7, <1>8,
       <1>9, <1>10, <1>11, <1>12, <1>13, <1>14, <1>15 DEF Next, Step, Serve, Admin

\* The row that is to be forgotten is an obsolete one, and gone.
LEMMA ForgetNext ==
    ASSUME IInv, Next
    PROVE  AtForget'
PROOF
  <1> USE DEF AtForget, Fine, Fault, Saved, NotSaved, Done, Goto, Begin, round, outside, Outside, Unsupported
  <1>0. /\ given \in Nat /\ id \in Nat /\ id <= given /\ AtForget /\ AllListed /\ TypeOK
        /\ job = "none" => at = "none"
    BY StepParts DEF IInv, TypeOK, Given, AtRecord
  <1>1. CASE Reconcile
    <2>1. at' = "list" \/ at' = at
      BY Zenon, <1>1 DEF Reconcile
    <2>2. at = "none"
      BY Zenon, <1>0, <1>1 DEF Reconcile
    <2> QED
      BY <2>1, <2>2
  <1>2. CASE List
    <2>1. at' # "forget"
      BY Zenon, <1>2 DEF List
    <2> QED
      BY Zenon, <2>1
  <1>3. CASE KeepRule
    <2>1. at' # "forget"
      BY <1>3 DEF KeepRule
    <2> QED
      BY <2>1
  <1>4. CASE PostRule
    <2>1. at' # "forget"
      BY Zenon, <1>4 DEF PostRule
    <2> QED
      BY <2>1
  <1>5. CASE RecordRule
    <2>1. at' # "forget"
      BY <1>5 DEF RecordRule
    <2> QED
      BY <2>1
  <1>6. CASE DeleteRule
    <2>1. CASE Done
      BY <2>1
    <2>2. CASE ~ Done
      <3>1. /\ todo = <<>> /\ Obsolete # {}
            /\ mem' = mem /\ sel' = sel /\ at' = "forget" /\ todo' = todo
            /\ id' = mem.own[FirstObsolete].id
            /\ rfw' = IF \E y \in rows : y.id = mem.own[FirstObsolete].id
                      THEN Without(mem.own[FirstObsolete].id) ELSE rfw
        BY Zenon, <1>6, <2>2 DEF DeleteRule
      <3>2. Obsolete' = Obsolete /\ FirstObsolete' = FirstObsolete
        BY Zenon, <3>1 DEF Obsolete, FirstObsolete
      <3>3. \A y \in rfw' : y.id # mem.own[FirstObsolete].id
        <4>1. CASE \E y \in rows : y.id = mem.own[FirstObsolete].id
          BY Zenon, <3>1, <4>1 DEF Without
        <4>2. CASE ~ \E y \in rows : y.id = mem.own[FirstObsolete].id
          <5>1. mem.own[FirstObsolete].id \in OwnIn(mem) /\ mem.own[FirstObsolete].id \notin sel
            BY Zenon, <1>0, <3>1, FirstIsObsolete
          <5>2. at = "rules" /\ rfw' = rfw
            BY Zenon, <1>6, <3>1, <4>2 DEF DeleteRule
          <5> QED
            BY Zenon, <1>0, <4>2, <5>1, <5>2 DEF AllListed
        <4> QED BY Zenon, <4>1, <4>2
      <3> QED
        BY Zenon, <3>1, <3>2, <3>3
    <2> QED BY Zenon, <2>1, <2>2
  <1>7. CASE ForgetRule
    <2>1. at' # "forget"
      BY <1>7 DEF ForgetRule
    <2> QED
      BY <2>1
  <1>8. CASE ApplyAbuse
    <2>1. at' # "forget"
      BY <1>8 DEF ApplyAbuse
    <2> QED
      BY <2>1
  <1>9. ASSUME NEW r \in 1..MaxRev, NEW p \in Policies, Apply(r, p)
        PROVE  AtForget'
    <2>1. at' = "list" \/ at' = at
      BY <1>9, ApplyRound
    <2>2. at = "none"
      BY <1>0, <1>9 DEF Apply
    <2> QED
      BY <2>1, <2>2
  <1>10. ASSUME NEW x \in rfw, DeleteManual(x)
        PROVE  AtForget'
    <2>1. /\ mem' = mem /\ sel' = sel /\ at' = at /\ id' = id /\ todo' = todo
          /\ \A y \in rfw' : y.id = given + 1 \/ \E z \in rfw : z.id = y.id
      BY Zenon, <1>10, RowNext DEF DeleteManual
    <2>2. Obsolete' = Obsolete /\ FirstObsolete' = FirstObsolete
      BY <2>1 DEF Obsolete, FirstObsolete
    <2> QED
      BY <1>0, <2>1, <2>2
  <1>11. ASSUME NEW b \in Bodies, AdminAdd(b)
        PROVE  AtForget'
    <2>1. /\ mem' = mem /\ sel' = sel /\ at' = at /\ id' = id /\ todo' = todo
          /\ \A y \in rfw' : y.id = given + 1 \/ \E z \in rfw : z.id = y.id
      BY Zenon, <1>11, RowNext DEF AdminAdd
    <2>2. Obsolete' = Obsolete /\ FirstObsolete' = FirstObsolete
      BY Zenon, <2>1 DEF Obsolete, FirstObsolete
    <2> QED
      BY <1>0, <2>1, <2>2
  <1>12. ASSUME NEW x \in rfw, AdminRemove(x)
        PROVE  AtForget'
    <2>1. /\ mem' = mem /\ sel' = sel /\ at' = at /\ id' = id /\ todo' = todo
          /\ \A y \in rfw' : y.id = given + 1 \/ \E z \in rfw : z.id = y.id
      BY Zenon, <1>12, RowNext DEF AdminRemove
    <2>2. Obsolete' = Obsolete /\ FirstObsolete' = FirstObsolete
      BY <2>1 DEF Obsolete, FirstObsolete
    <2> QED
      BY <1>0, <2>1, <2>2
  <1>13. ASSUME NEW x \in rfw, NEW b \in Bodies, AdminEdit(x, b)
        PROVE  AtForget'
    <2>1. /\ mem' = mem /\ sel' = sel /\ at' = at /\ id' = id /\ todo' = todo
          /\ \A y \in rfw' : y.id = given + 1 \/ \E z \in rfw : z.id = y.id
      BY <1>13, RowNext DEF AdminEdit
    <2>2. Obsolete' = Obsolete /\ FirstObsolete' = FirstObsolete
      BY Zenon, <2>1 DEF Obsolete, FirstObsolete
    <2> QED
      BY <1>0, <2>1, <2>2
  <1>14. CASE BridgeChange
    <2>1. /\ mem' = mem /\ sel' = sel /\ at' = at /\ id' = id /\ todo' = todo
          /\ \A y \in rfw' : y.id = given + 1 \/ \E z \in rfw : z.id = y.id
      BY Zenon, <1>14, RowNext DEF BridgeChange
    <2>2. Obsolete' = Obsolete /\ FirstObsolete' = FirstObsolete
      BY <2>1 DEF Obsolete, FirstObsolete
    <2> QED
      BY <1>0, <2>1, <2>2
  <1>15. CASE Crash
    <2>1. at' # "forget"
      BY <1>15 DEF Crash
    <2> QED
      BY <2>1
  <1> QED
    BY Zenon, <1>1, <1>2, <1>3, <1>4, <1>5, <1>6, <1>7, <1>8,
       <1>9, <1>10, <1>11, <1>12, <1>13, <1>14, <1>15 DEF Next, Step, Serve, Admin

\* What is selected is owned.
LEMMA SelectedNext ==
    ASSUME IInv, Next
    PROVE  Selected'
PROOF
  <1> USE DEF Selected, Fine, Fault, Saved, NotSaved, Done, Goto, Begin, round, outside, Outside, Unsupported
  <1>0. Selected
    BY StepParts DEF IInv
  <1>1. CASE Reconcile
    <2>1. mem' = mem /\ sel' = sel
      BY Zenon, <1>1 DEF Reconcile
    <2> QED
      BY <1>0, <2>1
  <1>2. CASE List
    <2>1. mem' = mem /\ (sel' = sel \/ sel' = {})
      BY Zenon, <1>2 DEF List
    <2> QED
      BY <1>0, <2>1
  <1>3. CASE KeepRule
    <2>1. PICK k \in 1..Len(mem.own) : sel' = sel \cup {mem.own[k].id}
      BY Zenon, <1>3, Kept
    <2>2. mem' = mem
      BY Zenon, <1>3 DEF KeepRule
    <2> QED
      BY <1>0, <2>1, <2>2 DEF OwnIn
  <1>4. CASE PostRule
    <2>1. mem' = mem /\ (sel' = sel \/ sel' = {})
      BY Zenon, <1>4 DEF PostRule
    <2> QED
      BY <1>0, <2>1
  <1>5. CASE RecordRule
    <2>1. sel' = {} \/ (sel' = sel \cup {id} /\ mem' # mem)
      <3>1. CASE mem' = mem
        BY <1>5, <3>1, Recorded
      <3>2. CASE mem' # mem
        BY <1>5, <3>2 DEF RecordRule
      <3> QED BY <3>1, <3>2
    <2> QED
      BY <1>0, <1>5, <2>1, RecordOwn
  <1>6. CASE DeleteRule
    <2>1. mem' = mem /\ (sel' = sel \/ sel' = {})
      BY Zenon, <1>6 DEF DeleteRule
    <2> QED
      BY <1>0, <2>1
  <1>7. CASE ForgetRule
    <2>1. sel' = sel \/ sel' = {}
      BY <1>7 DEF ForgetRule
    <2> QED
      BY Zenon, <1>0, <1>7, <2>1, ForgetOwn
  <1>8. CASE ApplyAbuse
    BY Zenon, <1>8 DEF ApplyAbuse
  <1>9. ASSUME NEW r \in 1..MaxRev, NEW p \in Policies, Apply(r, p)
        PROVE  Selected'
    <2>1. sel' = sel
      BY <1>9, ApplyRound
    <2> QED
      BY <1>0, <1>9, <2>1, ApplyOwn
  <1>10. ASSUME NEW x \in rfw, DeleteManual(x)
        PROVE  Selected'
    <2>1. mem' = mem /\ sel' = sel
      BY <1>10 DEF DeleteManual
    <2> QED
      BY <1>0, <2>1
  <1>11. ASSUME NEW b \in Bodies, AdminAdd(b)
        PROVE  Selected'
    <2>1. mem' = mem /\ sel' = sel
      BY Zenon, <1>11 DEF AdminAdd
    <2> QED
      BY <1>0, <2>1
  <1>12. ASSUME NEW x \in rfw, AdminRemove(x)
        PROVE  Selected'
    <2>1. mem' = mem /\ sel' = sel
      BY <1>12 DEF AdminRemove
    <2> QED
      BY <1>0, <2>1
  <1>13. ASSUME NEW x \in rfw, NEW b \in Bodies, AdminEdit(x, b)
        PROVE  Selected'
    <2>1. mem' = mem /\ sel' = sel
      BY <1>13 DEF AdminEdit
    <2> QED
      BY <1>0, <2>1
  <1>14. CASE BridgeChange
    <2>1. mem' = mem /\ sel' = sel
      BY <1>14 DEF BridgeChange
    <2> QED
      BY <1>0, <2>1
  <1>15. CASE Crash
    BY <1>15 DEF Crash
  <1> QED
    BY Zenon, <1>1, <1>2, <1>3, <1>4, <1>5, <1>6, <1>7, <1>8,
       <1>9, <1>10, <1>11, <1>12, <1>13, <1>14, <1>15 DEF Next, Step, Serve, Admin

\* An owned row of RFW that is not selected was listed.
LEMMA ListedNext ==
    ASSUME IInv, Next
    PROVE  AllListed'
PROOF
  <1> USE DEF AllListed, Fine, Fault, Saved, NotSaved, Done, Goto, Begin, round, outside, Outside, Unsupported
  <1>0. /\ AllListed /\ given \in Nat /\ given + 1 \notin OwnIn(mem)
        /\ job = "none" => at = "none"
    BY StepParts, OwnTypes DEF IInv, AtRecord, TypeOK, Given, Ids
  <1>1. CASE Reconcile
    <2>1. at' = "list" \/ (at' = at /\ at = "none")
      BY Zenon, <1>0, <1>1 DEF Reconcile
    <2> QED
      BY Zenon, <2>1
  <1>2. CASE List
    <2>1. \/ at' \in {"abuse", "none"}
          \/ rfw' = rfw /\ rows' = {[id |-> x.id, body |-> x.body] : x \in rfw}
      BY Zenon, <1>2 DEF List, Listed
    <2>2. ASSUME NEW x \in rfw
          PROVE  \E y \in {[id |-> z.id, body |-> z.body] : z \in rfw} : y.id = x.id
      <3>1. /\ [id |-> x.id, body |-> x.body] \in {[id |-> z.id, body |-> z.body] : z \in rfw}
            /\ [id |-> x.id, body |-> x.body].id = x.id
        BY Zenon
      <3> QED BY Zenon, <3>1
    <2>3. CASE rfw' = rfw /\ rows' = {[id |-> x.id, body |-> x.body] : x \in rfw}
      BY Zenon, <2>2, <2>3
    <2> QED
      BY Zenon, <2>1, <2>3
  <1>3. CASE KeepRule
    <2>1. sel \subseteq sel'
      BY Zenon, <1>3 DEF KeepRule
    <2>2. mem' = mem /\ rfw' = rfw /\ rows' = rows /\ at = "rules"
      BY Zenon, <1>3 DEF KeepRule
    <2> QED
      BY Zenon, <1>0, <2>1, <2>2
  <1>4. CASE PostRule
    <2>1. at' = "none" \/ (at = "rules" /\ sel' = sel /\ rows' = rows)
      BY Zenon, <1>4 DEF PostRule
    <2>2. mem' = mem
      BY Zenon, <1>4 DEF PostRule
    <2> QED
      BY <1>0, <2>1, <2>2, RowNext
  <1>5. CASE RecordRule
    <2>1. at' = "none" \/ (sel' = sel \cup {id} /\ rows' = rows)
      BY <1>5 DEF RecordRule
    <2>2. at = "record" /\ rfw' = rfw
      BY <1>5 DEF RecordRule
    <2>3. OwnIn(mem') \subseteq OwnIn(mem) \cup {id}
      BY <1>5, RecordOwn
    <2> QED
      BY <1>0, <2>1, <2>2, <2>3
  <1>6. CASE DeleteRule
    <2>1. at' = "none" \/ (sel' = sel /\ rows' = rows)
      BY Zenon, <1>6 DEF DeleteRule
    <2>2. at = "rules" /\ rfw' \subseteq rfw /\ mem' = mem
      BY Zenon, <1>6 DEF DeleteRule, Without
    <2> QED
      BY <1>0, <2>1, <2>2
  <1>7. CASE ForgetRule
    <2>1. at' = "none" \/ (sel' = sel /\ rows' = rows)
      BY <1>7 DEF ForgetRule
    <2>2. at = "forget" /\ rfw' = rfw
      BY <1>7 DEF ForgetRule
    <2> QED
      BY Zenon, <1>0, <1>7, <2>1, <2>2, ForgetOwn
  <1>8. CASE ApplyAbuse
    BY Zenon, <1>8 DEF ApplyAbuse
  <1>9. ASSUME NEW r \in 1..MaxRev, NEW p \in Policies, Apply(r, p)
        PROVE  AllListed'
    <2>1. at' = "list" \/ (at' = at /\ at = "none")
      BY Zenon, <1>0, <1>9, ApplyRound
    <2> QED
      BY Zenon, <2>1
  <1>10. ASSUME NEW x \in rfw, DeleteManual(x)
        PROVE  AllListed'
    <2>1. mem' = mem /\ sel' = sel /\ at' = at /\ rows' = rows
      BY Zenon, <1>10 DEF DeleteManual
    <2> QED
      BY <1>0, <2>1, RowNext
  <1>11. ASSUME NEW b \in Bodies, AdminAdd(b)
        PROVE  AllListed'
    <2>1. mem' = mem /\ sel' = sel /\ at' = at /\ rows' = rows
      BY Zenon, <1>11 DEF AdminAdd
    <2> QED
      BY <1>0, <2>1, RowNext
  <1>12. ASSUME NEW x \in rfw, AdminRemove(x)
        PROVE  AllListed'
    <2>1. mem' = mem /\ sel' = sel /\ at' = at /\ rows' = rows
      BY <1>12 DEF AdminRemove
    <2> QED
      BY <1>0, <2>1, RowNext
  <1>13. ASSUME NEW x \in rfw, NEW b \in Bodies, AdminEdit(x, b)
        PROVE  AllListed'
    <2>1. mem' = mem /\ sel' = sel /\ at' = at /\ rows' = rows
      BY <1>13 DEF AdminEdit
    <2> QED
      BY <1>0, <2>1, RowNext
  <1>14. CASE BridgeChange
    <2>1. mem' = mem /\ sel' = sel /\ at' = at /\ rows' = rows
      BY <1>14 DEF BridgeChange
    <2> QED
      BY <1>0, <2>1, RowNext
  <1>15. CASE Crash
    BY Zenon, <1>15 DEF Crash
  <1> QED
    BY Zenon, <1>1, <1>2, <1>3, <1>4, <1>5, <1>6, <1>7, <1>8,
       <1>9, <1>10, <1>11, <1>12, <1>13, <1>14, <1>15 DEF Next, Step, Serve, Admin

\* The revision in memory goes forward, or back to the saved one.
LEMMA RevNext ==
    ASSUME IInv, Next
    PROVE  mem'.rev >= mem.rev \/ mem' = disk
PROOF
  <1>0. mem \in States /\ mem.rev \in Nat
    BY HostPolicyAssumption DEF IInv, TypeOK, States
  <1>1. CASE Reconcile
    BY <1>0, <1>1 DEF Reconcile, Outside
  <1>2. CASE List
    BY <1>0, <1>2 DEF List, Outside
  <1>3. CASE KeepRule
    BY <1>0, <1>3 DEF KeepRule, Outside
  <1>4. CASE PostRule
    BY <1>0, <1>4 DEF PostRule, Outside
  <1>5. CASE RecordRule
    <2>1. CASE mem' = mem
      BY <1>0, <2>1
    <2>2. CASE mem' # mem
      <3>1. mem'.rev = mem.rev
        <4>1. PICK w : mem' = [mem EXCEPT !.own = w]
          BY Zenon, <1>5, <2>2, RecordOwn
        <4> QED
          BY Zenon, <1>0, <4>1 DEF States
      <3> QED BY <1>0, <3>1
    <2> QED BY <2>1, <2>2
  <1>6. CASE DeleteRule
    BY <1>0, <1>6 DEF DeleteRule, Outside
  <1>7. CASE ForgetRule
    <2>1. mem'.rev = mem.rev
      BY <1>7, <1>0 DEF ForgetRule, States
    <2> QED
      BY <1>0, <2>1
  <1>8. CASE ApplyAbuse
    BY <1>0, <1>8 DEF ApplyAbuse, Outside
  <1>9. ASSUME NEW r \in 1..MaxRev, NEW p \in Policies, Apply(r, p)
        PROVE  mem'.rev >= mem.rev \/ mem' = disk
    <2>1. mem'.rev = r /\ r >= mem.rev
      BY <1>9, <1>0 DEF Apply, Accepts, States
    <2> QED
      BY <2>1
  <1>10. ASSUME NEW x \in rfw, DeleteManual(x)
        PROVE  mem'.rev >= mem.rev \/ mem' = disk
    BY <1>0, <1>10 DEF DeleteManual, Outside
  <1>11. ASSUME NEW b \in Bodies, AdminAdd(b)
        PROVE  mem'.rev >= mem.rev \/ mem' = disk
    BY <1>0, <1>11 DEF AdminAdd, Outside
  <1>12. ASSUME NEW x \in rfw, AdminRemove(x)
        PROVE  mem'.rev >= mem.rev \/ mem' = disk
    BY <1>0, <1>12 DEF AdminRemove, Outside
  <1>13. ASSUME NEW x \in rfw, NEW b \in Bodies, AdminEdit(x, b)
        PROVE  mem'.rev >= mem.rev \/ mem' = disk
    BY <1>0, <1>13 DEF AdminEdit, Outside
  <1>14. CASE BridgeChange
    BY <1>0, <1>14 DEF BridgeChange, Outside
  <1>15. CASE Crash
    BY Zenon, <1>15 DEF Crash
  <1> QED
    BY Zenon, <1>1, <1>2, <1>3, <1>4, <1>5, <1>6, <1>7, <1>8,
       <1>9, <1>10, <1>11, <1>12, <1>13, <1>14, <1>15 DEF Next, Step, Serve, Admin

-----------------------------------------------------------------------------
(* The theorems *)

LEMMA InvInit ==
    Init => IInv
PROOF
  <1> SUFFICES ASSUME Init
               PROVE  IInv
    OBVIOUS
  <1>1. /\ 0 \in 0..MaxRev /\ 0 \in 0..MaxRows /\ 0 \in 0..MaxChanges
        /\ 0 \in 0..MaxFaults /\ 0 \in 0..MaxCrashes
    BY HostPolicyAssumption
  <1>2. <<>> \in Seq(Owned) /\ <<>> \in Seq(Keys \X Bodies)
    OBVIOUS
  <1>3. mem \in States /\ mem.own = <<>> /\ mem.rev = 0 /\ mem.pol.rules = <<>> /\ disk = mem
    BY Zenon, <1>1, <1>2 DEF Init, States, AllPolicies, NoPolicy
  <1>4. RfwTypes /\ RoundTypes /\ Counters
    BY Zenon, <1>1, <1>2 DEF Init, RfwTypes, RoundTypes, Counters
  <1>5. FlagTypes
    BY Zenon DEF Init, FlagTypes
  <1>6. TypeOK
    BY <1>3, <1>4, <1>5, TypeParts
  <1>7. OwnIn(mem) = {} /\ OwnIn(disk) = {}
    BY Zenon, <1>3, OwnEmpty
  <1>8. DistinctIn(mem) /\ DistinctIn(disk) /\ RevisionsOrdered
    BY <1>3 DEF DistinctIn, RevisionsOrdered
  <1>9. Given /\ Steps /\ Manual
    BY <1>7 DEF Init, Given, Steps, Manual
  <1> QED
    BY <1>6, <1>8, <1>9 DEF IInv

LEMMA InvNext ==
    IInv /\ [Next]_vars => IInv'
PROOF
  <1> SUFFICES ASSUME IInv, [Next]_vars
               PROVE  IInv'
    OBVIOUS
  <1>1. CASE Next
    <2>1. TypeOK'
      BY Zenon, <1>1, StoreNext, RfwNext, RoundNext, CountersNext, FlagsNext
         DEF TypeOK, RfwTypes, RoundTypes, Counters, FlagTypes
    <2>2. DistinctIn(mem)' /\ DistinctIn(disk)' /\ RevisionsOrdered'
      BY <1>1, StoreNext DEF RevisionsOrdered
    <2>3. Given' /\ Manual'
      BY <1>1, GivenNext, ManualNext
    <2>4. Steps'
      BY Zenon, <1>1, RecordNext, ForgetNext, SelectedNext, ListedNext
         DEF Steps, AtRecord, AtForget, Selected, AllListed
    <2> QED
      BY Zenon, <2>1, <2>2, <2>3, <2>4 DEF IInv
  <1>2. CASE UNCHANGED vars
    <2> USE <1>2 DEF vars
    <2>1. TypeOK' /\ RevisionsOrdered' /\ DistinctIn(mem)' /\ DistinctIn(disk)'
      BY ZenonT(30) DEF IInv, TypeOK, RevisionsOrdered
    <2>2. Given' /\ Manual'
      BY Zenon DEF IInv, Given, Manual
    <2>3. Steps'
      BY Zenon DEF IInv, Steps, Obsolete, FirstObsolete
    <2> QED
      BY Zenon, <2>1, <2>2, <2>3 DEF IInv
  <1> QED
    BY <1>1, <1>2

\* The inductive invariant holds.
LEMMA Invariant ==
    Spec => []IInv
BY InvInit, InvNext, PTL DEF Spec

\* hostpolicy.rs keeps its state well formed: counters within their bounds, rows
\* and ids of the kind they are, one row per id in RFW.
THEOREM TypeCorrect ==
    Spec => []TypeOK
PROOF
  <1>1. IInv => TypeOK
    BY DEF IInv
  <1> QED
    BY <1>1, Invariant, PTL

\* "never claim or delete manually-created rules": no step of the agent but the one
\* a caller of delete_manual_rule asks for removes or claims a row of an administrator.
THEOREM ManualRulesKept ==
    Spec => ManualKept
PROOF
  <1>1. IInv /\ [Next]_vars =>
          [\A x \in rfw : x.by = "admin" =>
              /\ x.id \notin OwnIds
              /\ x \notin rfw' => Admin \/ DeleteManual(x)]_vars
    <2> SUFFICES ASSUME IInv, Next, NEW x \in rfw, x.by = "admin"
                 PROVE  /\ x.id \notin OwnIds
                        /\ x \notin rfw' => Admin \/ DeleteManual(x)
      OBVIOUS
    <2>1. OwnIds = OwnIn(mem)
      BY Zenon DEF OwnIds, OwnIn
    <2>2. x.id \notin OwnIds
      BY Zenon, <2>1 DEF IInv, Manual
    <2>3. ASSUME DeleteRule
          PROVE  x \in rfw'
      <3>1. mem.own[FirstObsolete].id \in OwnIds
        BY Zenon, <2>1, <2>3, FirstIsObsolete DEF DeleteRule, IInv
      <3> QED
        BY Zenon, <2>2, <2>3, <3>1 DEF DeleteRule, Without
    <2>4. ASSUME NEW y \in rfw, DeleteManual(y), x \notin rfw'
          PROVE  DeleteManual(x)
      <3>1. x = y
        BY Zenon, <2>4 DEF DeleteManual
      <3> QED BY <2>4, <3>1
    <2>5. ASSUME PostRule
          PROVE  x \in rfw'
      BY Zenon, <2>5 DEF PostRule
    <2>6. ASSUME Reconcile \/ List \/ KeepRule \/ RecordRule \/ ForgetRule \/ ApplyAbuse
                 \/ (\E r \in 1..MaxRev, p \in Policies : Apply(r, p))
                 \/ BridgeChange \/ Crash
          PROVE  x \in rfw'
      BY Zenon, <2>6 DEF Reconcile, List, KeepRule, RecordRule, ForgetRule, ApplyAbuse, Apply,
         BridgeChange, Crash
    <2> QED
      BY Zenon, <2>2, <2>3, <2>4, <2>5, <2>6 DEF Next, Step, Serve
  <1>2. ManualKept <=> [][\A x \in rfw : x.by = "admin" =>
                             /\ x.id \notin OwnIds
                             /\ x \notin rfw' => Admin \/ DeleteManual(x)]_vars
    BY PTL DEF ManualKept
  <1> QED
    BY <1>1, <1>2, Invariant, PTL DEF Spec

\* apply refuses older revisions: the saved revision never goes back, whatever was
\* delayed, failed or restarted.
THEOREM RevisionsForward ==
    Spec => RevisionForward
PROOF
  <1>1. IInv /\ [Next]_vars => [disk'.rev >= disk.rev]_vars
    <2> SUFFICES ASSUME IInv, Next
                 PROVE  disk'.rev >= disk.rev
      OBVIOUS
    <2>0. disk.rev \in 0..MaxRev /\ mem.rev \in 0..MaxRev /\ disk.rev <= mem.rev
      BY Zenon DEF IInv, TypeOK, States, RevisionsOrdered
    <2>1. disk.rev \in Nat /\ mem.rev \in Nat /\ disk.rev <= mem.rev
      <3>1. 0..MaxRev \subseteq Nat
        OBVIOUS
      <3> QED
        BY Zenon, <2>0, <3>1
    <2>2. disk' = disk \/ disk' = mem'
      BY Zenon DEF Next, Step, Serve, Admin, Reconcile, List, KeepRule, PostRule, RecordRule,
         DeleteRule, ForgetRule, ApplyAbuse, Apply, DeleteManual, AdminAdd, AdminRemove,
         AdminEdit, BridgeChange, Crash, Outside, Saved, NotSaved
    <2>3. mem'.rev >= mem.rev \/ mem' = disk
      BY RevNext
    <2>4. mem'.rev \in Nat
      BY StoreNext, HostPolicyAssumption DEF States
    <2> QED
      BY <2>1, <2>2, <2>3, <2>4
  <1> QED
    BY <1>1, Invariant, PTL DEF Spec, RevisionForward
=============================================================================
