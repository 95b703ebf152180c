----------------------------- MODULE HostPolicy -----------------------------
(***************************************************************************)
(* The host firewall policy (hostpolicy.rs): a revisioned policy received   *)
(* over the control socket, kept in a file together with the ids of the     *)
(* rules it owns in the firewall service RFW, mirrored into that service    *)
(* rule by rule, and an iptables chain against abuse of a container bridge. *)
(*                                                                         *)
(* apply, reconcile and delete_manual_rule hold the manager's lock; job and *)
(* at say who has it and which step comes next. RFW is external: it has a   *)
(* set of rows, gives every new one an id it has not given before, and can  *)
(* be edited by an administrator at any time.                               *)
(***************************************************************************)
EXTENDS Naturals, Sequences, FiniteSets, Functions

CONSTANTS
    Keys,       \* keys of desired rules
    Bodies,     \* contents of rules
    Policies,   \* the policies the platform may ask for
    MaxRev,     \* bound: revisions
    MaxRows,    \* bound: rows ever created in RFW
    MaxChanges, \* bound: requests and changes from outside
    MaxFaults,  \* bound: failing steps
    MaxCrashes  \* bound: restarts of the agent

\* A policy: desired rules in order, with distinct keys, and its abuse part.
AllPolicies == [rules : Seq(Keys \X Bodies), abuse : BOOLEAN]
NoPolicy == [rules |-> <<>>, abuse |-> FALSE]

ASSUME HostPolicyAssumption ==
    /\ Policies \subseteq AllPolicies
    /\ \A p \in Policies : \A i, j \in 1..Len(p.rules) :
          p.rules[i][1] = p.rules[j][1] => i = j
    /\ MaxRev \in Nat /\ MaxRows \in Nat /\ MaxChanges \in Nat
    /\ MaxFaults \in Nat /\ MaxCrashes \in Nat

Ids == 1..MaxRows
Owned == [key : Keys, id : Ids, body : Bodies]
Rows == [id : Ids, body : Bodies, by : {"agent", "admin"}]
States == [rev : 0..MaxRev, pol : AllPolicies, own : Seq(Owned)]

VARIABLES
    mem,     \* the manager's state: revision, policy, managed_rules
    disk,    \* the saved state
    rfw,     \* the rows of RFW; by is history: who created a row
    given,   \* the number of ids RFW has given out
    abuse,   \* the abuse chain: off, on or in between
    bridge,  \* the container bridge exists
    job, at, \* the holder of the lock, its next step
    todo,    \* desired rules still to be looked at
    rows,    \* the rows RFW has listed
    sel,     \* ids selected in this round
    id,      \* id of the row just created or deleted
    acked,   \* history: the last revision that was acknowledged
    calm,    \* history: nothing failed or changed since the round began
    changes, faults, crashes

outside == <<bridge, changes>>
round == <<job, at, todo, rows, sel, id>>
vars == <<mem, disk, rfw, given, abuse, bridge, job, at, todo, rows, sel, id, acked,
          calm, changes, faults, crashes>>

TypeOK ==
    /\ mem \in States /\ disk \in States
    /\ rfw \subseteq Rows
    /\ \A x, y \in rfw : x.id = y.id => x = y
    /\ given \in 0..MaxRows
    /\ abuse \in {"off", "on", "part"} /\ bridge \in BOOLEAN
    /\ job \in {"none", "apply", "reconcile"}
    /\ at \in {"none", "list", "rules", "record", "forget", "abuse"}
    /\ todo \in Seq(Keys \X Bodies)
    /\ rows \subseteq [id : Ids, body : Bodies]
    /\ sel \subseteq Ids /\ id \in 0..MaxRows
    /\ acked \in 0..MaxRev /\ calm \in BOOLEAN
    /\ changes \in 0..MaxChanges /\ faults \in 0..MaxFaults
    /\ crashes \in 0..MaxCrashes

Init ==
    /\ mem = [rev |-> 0, pol |-> NoPolicy, own |-> <<>>] /\ disk = mem
    /\ rfw = {} /\ given = 0
    /\ abuse = "off" /\ bridge = TRUE
    /\ job = "none" /\ at = "none" /\ todo = <<>> /\ rows = {} /\ sel = {} /\ id = 0
    /\ acked = 0 /\ calm = FALSE
    /\ changes = 0 /\ faults = 0 /\ crashes = 0

-----------------------------------------------------------------------------
Fine == UNCHANGED <<faults, calm>>
Fault == faults < MaxFaults /\ faults' = faults + 1 /\ calm' = FALSE

Saved == disk' = mem' /\ Fine
NotSaved == UNCHANGED disk /\ Fault

Done == job' = "none" /\ at' = "none" /\ todo' = <<>> /\ rows' = {} /\ sel' = {} /\ id' = 0
Goto(step) == at' = step /\ id' = 0 /\ UNCHANGED <<job, todo, rows, sel>>
Begin(j) == job' = j /\ at' = "list" /\ UNCHANGED <<todo, rows, sel, id>>

\* verify_bridges
BridgesThere(p) == p.abuse => bridge

OwnIds == {mem.own[i].id : i \in 1..Len(mem.own)}

-----------------------------------------------------------------------------
(* apply and reconcile *)

\* A revision may be repeated with the same contents and is otherwise newer.
Accepts(r, p) == r > mem.rev \/ (r = mem.rev /\ p = mem.pol)

\* Only a new revision is saved.
Apply(r, p) ==
    /\ job = "none"
    /\ changes < MaxChanges
    /\ changes' = changes + 1
    /\ BridgesThere(p)
    /\ Accepts(r, p)
    /\ mem' = [mem EXCEPT !.rev = r, !.pol = p]
    /\ \/ r = mem.rev /\ UNCHANGED disk /\ Fine /\ Begin("apply")
       \/ r # mem.rev /\ Saved /\ Begin("apply")
       \/ r # mem.rev /\ NotSaved /\ UNCHANGED round
    /\ UNCHANGED <<rfw, given, abuse, bridge, acked, crashes>>

\* Every 30 s. Without its bridge the abuse chain is removed, and nothing else
\* is done.
Reconcile ==
    /\ job = "none"
    /\ mem.rev > 0
    /\ \/ /\ BridgesThere(mem.pol)
          /\ Begin("reconcile")
          /\ calm' = TRUE
          /\ UNCHANGED <<abuse, faults>>
       \/ /\ ~BridgesThere(mem.pol)
          /\ \/ abuse' = "off" /\ Fine
             \/ abuse' \in {"part", abuse} /\ Fault
          /\ UNCHANGED round
    /\ UNCHANGED <<mem, disk, rfw, given, outside, acked, crashes>>

\* Mutant of List: a policy without rules needs no mirroring.
ListDesired ==
    /\ at = "list"
    /\ \/ mem.pol.rules = <<>> /\ Goto("abuse")
       \/ /\ mem.pol.rules # <<>>
          /\ at' = "rules" /\ todo' = mem.pol.rules /\ sel' = {}
          /\ rows' = {[id |-> x.id, body |-> x.body] : x \in rfw}
          /\ UNCHANGED <<job, id>>
    /\ Fine
    /\ UNCHANGED <<mem, disk, rfw, given, abuse, outside, acked, crashes>>

\* list_rules: the rows as RFW has them now.
Listed == rows' = {[id |-> x.id, body |-> x.body] : x \in rfw}

\* capabilities: RFW is known not to support a rule's protocol, or its list cannot
\* be had; the round ends before anything was changed.
Unsupported == Fault /\ Done

\* RFW's capabilities and rows; nothing to mirror and nothing owned needs neither.
List ==
    /\ at = "list"
    /\ \/ /\ mem.pol.rules = <<>> /\ mem.own = <<>>
          /\ Goto("abuse") /\ Fine
       \/ /\ ~(mem.pol.rules = <<>> /\ mem.own = <<>>)
          /\ at' = "rules" /\ todo' = mem.pol.rules /\ sel' = {}
          /\ Listed
          /\ Fine
          /\ UNCHANGED <<job, id>>
       \/ /\ ~(mem.pol.rules = <<>> /\ mem.own = <<>>)
          /\ Unsupported
    /\ UNCHANGED <<mem, disk, rfw, given, abuse, outside, acked, crashes>>

-----------------------------------------------------------------------------
(* reconcile_rfw *)

\* Mutant of Matches: what RFW has under the id is not compared.
MatchesId(o, d) == o.key = d[1] /\ o.body = d[2] /\ \E x \in rows : x.id = o.id

\* An owned row serves a desired rule if it was made for it and is still there
\* as it was made.
Matches(o, d) ==
    o.key = d[1] /\ o.body = d[2] /\ [id |-> o.id, body |-> d[2]] \in rows

Serving(d) ==
    {i \in 1..Len(mem.own) : mem.own[i].id \notin sel /\ Matches(mem.own[i], d)}

\* The first such row is kept.
KeepRule ==
    /\ at = "rules" /\ todo # <<>>
    /\ LET own == Serving(Head(todo)) IN
       /\ own # {}
       /\ sel' = sel \cup {mem.own[CHOOSE i \in own : \A j \in own : i <= j].id}
    /\ todo' = Tail(todo)
    /\ Fine
    /\ UNCHANGED <<mem, disk, rfw, given, abuse, outside, acked, crashes, job, at, rows,
                   id>>

\* Without one RFW is asked for a new row, or refuses it.
PostRule ==
    /\ at = "rules" /\ todo # <<>>
    /\ Serving(Head(todo)) = {}
    /\ \/ /\ given < MaxRows
          /\ given' = given + 1
          /\ rfw' = rfw \cup {[id |-> given + 1, body |-> Head(todo)[2], by |-> "agent"]}
          /\ at' = "record" /\ id' = given + 1
          /\ Fine
          /\ UNCHANGED <<job, todo, rows, sel>>
       \/ Fault /\ Done /\ UNCHANGED <<rfw, given>>
    /\ UNCHANGED <<mem, disk, abuse, outside, acked, crashes>>

\* Mutant of RecordRule: the id is recorded but not saved.
RecordUnsaved ==
    /\ at = "record"
    /\ mem' = [mem EXCEPT !.own = Append(@, [key |-> Head(todo)[1], id |-> id,
                                             body |-> Head(todo)[2]])]
    /\ at' = "rules" /\ id' = 0 /\ todo' = Tail(todo) /\ sel' = sel \cup {id}
    /\ Fine
    /\ UNCHANGED <<disk, rfw, given, abuse, outside, acked, crashes, job, rows>>

\* Its answer carries the id, which is recorded and saved. The answer may be lost,
\* late or useless.
RecordRule ==
    /\ at = "record"
    /\ \/ /\ mem' = [mem EXCEPT !.own = Append(@, [key |-> Head(todo)[1], id |-> id,
                                                   body |-> Head(todo)[2]])]
          /\ \/ /\ Saved
                /\ at' = "rules" /\ id' = 0
                /\ todo' = Tail(todo) /\ sel' = sel \cup {id}
                /\ UNCHANGED <<job, rows>>
             \/ NotSaved /\ Done
       \/ Fault /\ Done /\ UNCHANGED <<mem, disk>>
    /\ UNCHANGED <<rfw, given, abuse, outside, acked, crashes>>

Obsolete == {i \in 1..Len(mem.own) : mem.own[i].id \notin sel}
FirstObsolete == CHOOSE i \in Obsolete : \A j \in Obsolete : i <= j
Without(n) == {x \in rfw : x.id # n}

\* Vec::remove.
RemoveAt(s, i) == [j \in 1..(Len(s) - 1) |-> IF j < i THEN s[j] ELSE s[j + 1]]

\* Mutant of DeleteRule: rows that are not selected are deleted, owned or not.
DeleteAnyRule ==
    /\ at = "rules" /\ todo = <<>>
    /\ \E x \in rows : x.id \notin sel /\ id' = x.id /\ rfw' = Without(x.id)
    /\ at' = "forget" /\ Fine
    /\ UNCHANGED <<mem, disk, given, abuse, outside, acked, crashes, job, todo, rows, sel>>

\* Then the owned rows that were not selected are deleted, if they were listed.
\* The request may fail, before or after RFW has done it.
DeleteRule ==
    /\ at = "rules" /\ todo = <<>>
    /\ Obsolete # {}
    /\ LET n == mem.own[FirstObsolete].id
           listed == \E x \in rows : x.id = n IN
       \/ /\ rfw' = IF listed THEN Without(n) ELSE rfw
          /\ at' = "forget" /\ id' = n /\ Fine
          /\ UNCHANGED <<job, todo, rows, sel>>
       \/ /\ listed
          /\ rfw' \in {rfw, Without(n)}
          /\ Fault /\ Done
    /\ UNCHANGED <<mem, disk, given, abuse, outside, acked, crashes>>

\* And forgotten.
ForgetRule ==
    /\ at = "forget"
    /\ mem' = [mem EXCEPT !.own = RemoveAt(@, FirstObsolete)]
    /\ \/ Saved /\ Goto("rules")
       \/ NotSaved /\ Done
    /\ UNCHANGED <<rfw, given, abuse, outside, acked, crashes>>

\* All rules are mirrored.
Mirrored == at = "rules" /\ todo = <<>> /\ Obsolete = {}

\* apply_abuse comes last; with it apply is acknowledged.
ApplyAbuse ==
    /\ at = "abuse" \/ Mirrored
    /\ \/ /\ abuse' = IF mem.pol.abuse THEN "on" ELSE "off"
          /\ acked' = IF job = "apply" THEN mem.rev ELSE acked
          /\ Fine
       \/ abuse' \in {"part", abuse} /\ Fault /\ UNCHANGED acked
    /\ Done
    /\ UNCHANGED <<mem, disk, rfw, given, outside, crashes>>

-----------------------------------------------------------------------------
(* delete_manual_rule: a row the caller has seen and the agent does not own *)

DeleteManual(x) ==
    /\ job = "none"
    /\ changes < MaxChanges
    /\ changes' = changes + 1
    /\ x.id \notin OwnIds
    /\ rfw' = rfw \ {x}
    /\ UNCHANGED <<mem, disk, given, abuse, bridge, round, acked, calm, faults, crashes>>

-----------------------------------------------------------------------------
(* The administrator, the bridge, restarts *)

Outside ==
    /\ changes < MaxChanges
    /\ changes' = changes + 1
    /\ calm' = FALSE
    /\ UNCHANGED <<mem, disk, abuse, round, acked, faults, crashes>>

AdminAdd(b) ==
    /\ given < MaxRows
    /\ given' = given + 1
    /\ rfw' = rfw \cup {[id |-> given + 1, body |-> b, by |-> "admin"]}
    /\ Outside /\ UNCHANGED bridge

AdminRemove(x) == rfw' = rfw \ {x} /\ Outside /\ UNCHANGED <<given, bridge>>

AdminEdit(x, b) ==
    /\ b # x.body
    /\ rfw' = (rfw \ {x}) \cup {[x EXCEPT !.body = b]}
    /\ Outside /\ UNCHANGED <<given, bridge>>

BridgeChange == bridge' = ~bridge /\ Outside /\ UNCHANGED <<rfw, given>>

\* What is in memory is gone; the chain may have been half way.
Crash ==
    /\ crashes < MaxCrashes
    /\ crashes' = crashes + 1
    /\ mem' = disk
    /\ Done
    /\ \/ UNCHANGED abuse
       \/ (at = "abuse" \/ Mirrored) /\ abuse' = "part"
    /\ calm' = FALSE
    /\ UNCHANGED <<disk, rfw, given, outside, acked, faults>>

Step ==
    \/ Reconcile \/ List \/ KeepRule \/ PostRule \/ RecordRule
    \/ DeleteRule \/ ForgetRule \/ ApplyAbuse

\* handle_firewall: what a request may change. One that is cut off leaves what a
\* round leaves that fails at the same step.
Serve ==
    \/ \E r \in 1..MaxRev, p \in Policies : Apply(r, p)
    \/ \E x \in rfw : DeleteManual(x)

Admin ==
    \/ \E b \in Bodies : AdminAdd(b)
    \/ \E x \in rfw : AdminRemove(x) \/ \E b \in Bodies : AdminEdit(x, b)

Next ==
    \/ Step
    \/ Serve
    \/ Admin
    \/ BridgeChange
    \/ Crash

Spec == Init /\ [][Next]_vars

\* reconcile_loop goes on, and whoever holds the lock goes on.
FairSpec == Spec /\ WF_vars(Step)

-----------------------------------------------------------------------------
(* Properties *)

Orphans == {x \in rfw : x.by = "agent" /\ x.id \notin OwnIds /\ x.id # id}

\* reconcile_rfw saves every id it is given at once: the rows it created and no
\* longer knows are at most as many as failed steps and restarts.
OrphansBounded == Cardinality(Orphans) <= faults + crashes

\* "never claim or delete manually-created rules": a row an administrator made
\* disappears only when an administrator or the caller of delete_manual_rule says
\* so, and is never among the owned.
ManualKept ==
    [][\A x \in rfw : x.by = "admin" =>
          /\ x.id \notin OwnIds
          /\ x \notin rfw' => Admin \/ DeleteManual(x)]_vars

\* apply refuses older revisions: the saved revision never goes back, whatever was
\* delayed, failed or restarted.
RevisionForward == [][disk'.rev >= disk.rev]_vars

\* readback: what it calls in_sync.
OwnerOf(k) ==
    LET own == {i \in 1..Len(mem.own) : mem.own[i].key = k}
    IN  CHOOSE i \in own : \A j \in own : i <= j

InSync ==
    /\ \A x \in rfw : \A i \in 1..Len(mem.own) : mem.own[i].id = x.id =>
          \E d \in Range(mem.pol.rules) :
             mem.own[i].key = d[1] /\ mem.own[i].body = d[2] /\ x.body = d[2]
    /\ \A d \in Range(mem.pol.rules) :
          /\ \E i \in 1..Len(mem.own) : mem.own[i].key = d[1]
          /\ LET o == mem.own[OwnerOf(d[1])] IN
             o.body = d[2] /\ \E x \in rfw : x.id = o.id /\ x.body = d[2]

\* A round of reconcile in which nothing fails or changes leaves RFW in sync, as
\* readback sees it, and owns nothing that is not desired.
RoundInSync ==
    Mirrored /\ calm => InSync /\ Len(mem.own) = Len(mem.pol.rules)

\* What the loop has to bring about.
Converged ==
    IF BridgesThere(mem.pol)
    THEN InSync /\ abuse = IF mem.pol.abuse THEN "on" ELSE "off"
    ELSE abuse = "off"

\* reconcile_loop: once nothing fails or changes any more the policy is in force.
PolicyConverges == <>[](mem.rev > 0 => Converged)

\* "Desired RFW rules are persisted with their ownership IDs": an acknowledged
\* revision survives a restart.
AckedIsDurable == acked <= disk.rev
=============================================================================
