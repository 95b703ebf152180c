------------------------------ MODULE Tunnels -------------------------------
(***************************************************************************)
(* Dedicated addresses over WireGuard: a round converges the host's tunnels *)
(* to the bindings the platform (or the panel) wants (runtime/wg.rs), then  *)
(* the anti-spoofing sets and the instances' own network configuration      *)
(* (WgBindings::reconcile in runtime/mod.rs).                               *)
(*                                                                         *)
(* Rounds hold the tunnels lock and never overlap. Between the steps of a   *)
(* round instances are created and deleted, the repair loop re-applies the  *)
(* ruleset, interfaces vanish and the agent restarts.                       *)
(***************************************************************************)
EXTENDS Naturals, Sequences, FiniteSets

CONSTANTS
    Resources,   \* resource ids of bindings
    Vms,         \* instances
    Addrs,       \* dedicated addresses
    Endpoints,   \* what a gateway's name may resolve to
    Wants,       \* the lists of bindings the platform may ask for
    None,        \* stands for an absent slot, interface or endpoint
    MaxChanges,  \* bound: changes of the wanted list and of the instances
    MaxFaults,   \* bound: failing steps, vanished interfaces, moved endpoints
    MaxCrashes   \* bound: restarts of the agent

Bindings == [res : Resources, vm : Vms, addr : Addrs]
Ns == 0..Cardinality(Resources)

ASSUME TunnelsAssumption ==
    /\ IsFiniteSet(Resources)
    /\ Wants \subseteq Seq(Bindings)
    /\ \A w \in Wants : \A i, j \in 1..Len(w) : w[i].res = w[j].res => i = j
    /\ MaxChanges \in Nat /\ MaxFaults \in Nat /\ MaxCrashes \in Nat

VARIABLES
    want,       \* the bindings wanted now
    \* Tunnels
    slots,      \* slots[r]: tunnel number, instance and address of resource r
    stored,     \* wg.json
    applied,    \* applied[r]: what this process set the tunnel of r up with
    \* the kernel
    iface,      \* iface[n]: endpoint of interface rw<n>, None if there is none
    rules,      \* source rules <<addr, n>>: from addr lookup the table of n
    routes,     \* addresses with a host route to the bridge
    \* Runtime
    dedicated,  \* dedicated[v]: addresses of instance v
    pending,    \* net_pending: instances whose configuration is to be retried
    allowed,    \* allowed[v]: addresses the installed anti-spoofing set lets v use
    here,       \* instances on this host
    guest,      \* guest[v]: addresses in the instance's own configuration
    gw,         \* what the gateway's name resolves to
    \* the round in progress
    pc,         \* the step it has reached
    drop,       \* stale resources still to be torn down
    list,       \* bindings still to be looked at
    todo,       \* instances still to be reconfigured
    changes, faults, crashes

kernel == <<iface, rules, routes>>
runtime == <<dedicated, pending, allowed, here, guest>>
bounds == <<changes, faults, crashes>>
vars == <<want, slots, stored, applied, iface, rules, routes, dedicated, pending,
          allowed, here, guest, gw, pc, drop, list, todo, changes, faults, crashes>>

Slots == [n : Ns, vm : Vms, addr : Addrs]

ASSUME NoneAssumption == None \notin Slots

TypeOK ==
    /\ want \in Seq(Bindings) /\ list \in Seq(Bindings)
    /\ slots \in [Resources -> Slots \cup {None}]
    /\ stored \in [Resources -> Slots \cup {None}]
    /\ applied \in [Resources -> [ep : Endpoints, vm : Vms, addr : Addrs] \cup {None}]
    /\ iface \in [Ns -> Endpoints \cup {None}]
    /\ rules \subseteq Addrs \X Ns
    /\ routes \subseteq Addrs
    /\ dedicated \in [Vms -> SUBSET Addrs]
    /\ allowed \in [Vms -> SUBSET Addrs] /\ guest \in [Vms -> SUBSET Addrs]
    /\ pending \subseteq Vms /\ here \subseteq Vms /\ todo \subseteq Vms
    /\ gw \in Endpoints /\ drop \subseteq Resources
    /\ pc \in {"idle", "stale", "bind", "claim", "setup", "net", "guests"}
    /\ changes \in 0..MaxChanges /\ faults \in 0..MaxFaults
    /\ crashes \in 0..MaxCrashes

\* Before the first round of a fresh installation.
Init ==
    /\ want = <<>> /\ list = <<>>
    /\ slots = [r \in Resources |-> None] /\ stored = slots /\ applied = slots
    /\ iface = [n \in Ns |-> None] /\ rules = {} /\ routes = {}
    /\ dedicated = [v \in Vms |-> {}] /\ allowed = dedicated /\ guest = dedicated
    /\ pending = {} /\ here = {} /\ todo = {}
    /\ gw \in Endpoints
    /\ pc = "idle" /\ drop = {}
    /\ changes = 0 /\ faults = 0 /\ crashes = 0

Fault == faults < MaxFaults /\ faults' = faults + 1
NoFault == UNCHANGED faults
Wanted(l) == {l[i].res : i \in 1..Len(l)}

\* Addresses per instance, from the slots.
AddressesByVm(sl) ==
    [v \in Vms |-> {sl[r].addr : r \in {q \in Resources : sl[q] # None /\ sl[q].vm = v}}]

-----------------------------------------------------------------------------
(* The round: stale slots first *)

BeginRound ==
    /\ pc = "idle"
    /\ pc' = "stale"
    /\ list' = want
    /\ drop' = {r \in Resources : slots[r] # None /\ r \notin Wanted(want)}
    /\ UNCHANGED <<want, slots, stored, applied, kernel, runtime, gw, todo, bounds>>

\* teardown: rule, table and host route go in any case; only the deletion of the
\* interface can fail.
Teardown(s, deleted) ==
    /\ rules' = rules \ {<<s.addr, s.n>>}
    /\ routes' = routes \ {s.addr}
    /\ iface' = IF deleted THEN [iface EXCEPT ![s.n] = None] ELSE iface

\* A stale slot is torn down and forgotten; one that resists is kept for the
\* next round. A slot list that cannot be saved ends the round.
DropStale(r) ==
    /\ pc = "stale"
    /\ r \in drop
    /\ drop' = drop \ {r}
    /\ \/ /\ Teardown(slots[r], TRUE)
          /\ slots' = [slots EXCEPT ![r] = None]
          /\ applied' = [applied EXCEPT ![r] = None]
          /\ \/ stored' = slots' /\ UNCHANGED <<pc, faults>>
             \/ Fault /\ pc' = "idle" /\ UNCHANGED stored
       \/ /\ iface[slots[r].n] # None
          /\ Fault
          /\ Teardown(slots[r], FALSE)
          /\ UNCHANGED <<slots, stored, applied, pc>>
    /\ UNCHANGED <<want, runtime, gw, list, todo, changes, crashes>>

StaleDone ==
    /\ pc = "stale"
    /\ drop = {}
    /\ pc' = "bind"
    /\ UNCHANGED <<want, slots, stored, applied, kernel, runtime, gw, drop, list,
                   todo, bounds>>

-----------------------------------------------------------------------------
(* ... then the wanted bindings, in order *)

Binding == Head(list)
SlotOf == slots[Binding.res]
SameSlot == /\ SlotOf # None
            /\ SlotOf.vm = Binding.vm /\ SlotOf.addr = Binding.addr

\* Mutant of Current: an interface that vanished is not noticed.
CurrentUnseen ==
    /\ SameSlot
    /\ applied[Binding.res] # None
    /\ applied[Binding.res].vm = Binding.vm /\ applied[Binding.res].addr = Binding.addr

\* Set up by this process with the same configuration, and still there.
Current ==
    /\ SameSlot
    /\ applied[Binding.res] # None
    /\ applied[Binding.res].vm = Binding.vm /\ applied[Binding.res].addr = Binding.addr
    /\ iface[SlotOf.n] # None

\* What the fingerprint and the endpoint of a tunnel set up now say.
Applied(ep) == [ep |-> ep, vm |-> Binding.vm, addr |-> Binding.addr]

\* The endpoint does not resolve, or an up-to-date tunnel is left alone.
SkipBinding ==
    /\ pc = "bind" /\ list # <<>>
    /\ \/ Fault
       \/ Current /\ applied[Binding.res].ep = gw /\ NoFault
    /\ list' = Tail(list)
    /\ UNCHANGED <<want, slots, stored, applied, kernel, runtime, gw, pc, drop,
                   todo, changes, crashes>>

\* The gateway's name now resolves elsewhere.
UpdateEndpoint ==
    /\ pc = "bind" /\ list # <<>>
    /\ Current /\ applied[Binding.res].ep # gw
    /\ list' = Tail(list)
    /\ \/ /\ iface' = [iface EXCEPT ![SlotOf.n] = gw]
          /\ applied' = [applied EXCEPT ![Binding.res] = Applied(gw)]
          /\ NoFault
       \/ Fault /\ UNCHANGED <<iface, applied>>
    /\ UNCHANGED <<want, slots, stored, rules, routes, runtime, gw, pc, drop,
                   todo, changes, crashes>>

\* Address or instance changed: the old tunnel goes first.
Replace ==
    /\ pc = "bind" /\ list # <<>>
    /\ ~Current
    /\ \/ (SameSlot \/ SlotOf = None) /\ pc' = "claim" /\ NoFault
          /\ UNCHANGED <<kernel, list>>
       \/ /\ SlotOf # None /\ ~SameSlot
          /\ \/ Teardown(SlotOf, TRUE) /\ pc' = "claim" /\ NoFault /\ UNCHANGED list
             \/ /\ iface[SlotOf.n] # None
                /\ Fault
                /\ Teardown(SlotOf, FALSE)
                /\ list' = Tail(list)
                /\ UNCHANGED pc
    /\ UNCHANGED <<want, slots, stored, applied, runtime, gw, drop, todo, changes,
                   crashes>>

Used == {slots[r].n : r \in {q \in Resources : slots[q] # None}}

\* The lowest tunnel number no slot uses.
FreeN(n) == n \notin Used /\ \A m \in Ns : m < n => m \in Used

\* Mutant of Claim: the slot is not saved.
ClaimUnsaved ==
    /\ pc = "claim"
    /\ \E n \in Ns :
          /\ IF SlotOf = None THEN FreeN(n) ELSE n = SlotOf.n
          /\ slots' = [slots EXCEPT ![Binding.res] =
                [n |-> n, vm |-> Binding.vm, addr |-> Binding.addr]]
    /\ pc' = "setup"
    /\ UNCHANGED <<want, stored, applied, kernel, runtime, gw, drop, list, todo,
                   bounds>>

\* The slot is recorded and saved before anything is set up for it.
Claim ==
    /\ pc = "claim"
    /\ \E n \in Ns :
          /\ IF SlotOf = None THEN FreeN(n) ELSE n = SlotOf.n
          /\ slots' = [slots EXCEPT ![Binding.res] =
                [n |-> n, vm |-> Binding.vm, addr |-> Binding.addr]]
    /\ \/ stored' = slots' /\ pc' = "setup" /\ NoFault
       \/ Fault /\ pc' = "idle" /\ UNCHANGED stored
    /\ UNCHANGED <<want, applied, kernel, runtime, gw, drop, list, todo, changes,
                   crashes>>

\* setup, which may fail before the old interface is gone, without a new one,
\* or with part of the routing in place.
Setup ==
    /\ pc = "setup"
    /\ pc' = "bind"
    /\ list' = Tail(list)
    /\ LET s == SlotOf
           done(k) ==
             /\ iface' = [iface EXCEPT ![s.n] = IF k = 0 THEN @ ELSE IF k = 1 THEN None ELSE gw]
             /\ routes' = IF k >= 3 THEN routes \cup {s.addr} ELSE routes
             /\ rules' = IF k = 5 THEN rules \cup {<<s.addr, s.n>>}
                         ELSE IF k = 4 THEN rules \ {<<s.addr, s.n>>} ELSE rules
       IN \/ /\ done(5)
             /\ applied' = [applied EXCEPT ![Binding.res] = Applied(gw)]
             /\ NoFault
          \/ /\ Fault
             /\ \E k \in 0..4 : done(k)
             /\ applied' = [applied EXCEPT ![Binding.res] = None]
    /\ UNCHANGED <<want, slots, stored, runtime, gw, drop, todo, changes, crashes>>

-----------------------------------------------------------------------------
(* ... then the ruleset and the instances *)

\* Mutant of Dedicate: instances are reconfigured before the ruleset.
DedicateGuestsFirst ==
    /\ pc = "bind" /\ list = <<>>
    /\ dedicated' = AddressesByVm(slots)
    /\ todo' = pending \cup {v \in Vms : dedicated[v] # dedicated'[v]}
    /\ pending' = {}
    /\ pc' = IF todo' = {} THEN "idle" ELSE "guests"
    /\ UNCHANGED <<want, slots, stored, applied, kernel, allowed, here, guest, gw,
                   drop, list, bounds>>

\* The new addresses take effect for this process; instances they changed for,
\* and those due for a retry, are to be reconfigured.
Dedicate ==
    /\ pc = "bind" /\ list = <<>>
    /\ dedicated' = AddressesByVm(slots)
    /\ todo' = pending \cup {v \in Vms : dedicated[v] # dedicated'[v]}
    /\ pending' = {}
    /\ pc' = IF todo' = {} THEN "idle" ELSE "net"
    /\ UNCHANGED <<want, slots, stored, applied, kernel, allowed, here, guest, gw,
                   drop, list, bounds>>

\* Anti-spoofing sets allow the new source addresses first; a failure ends the
\* round.
ReconcileNetwork ==
    /\ pc = "net"
    /\ \/ allowed' = dedicated /\ pc' = "guests" /\ NoFault /\ UNCHANGED todo
       \/ Fault /\ pc' = "idle" /\ todo' = {} /\ UNCHANGED allowed
    /\ UNCHANGED <<want, slots, stored, applied, kernel, dedicated, pending, here,
                   guest, gw, drop, list, changes, crashes>>

\* update_instance_network under lock_vm; a failure is retried next round.
UpdateGuest(v) ==
    /\ pc = "guests"
    /\ v \in todo
    /\ todo' = todo \ {v}
    /\ pc' = IF todo' = {} THEN "idle" ELSE pc
    /\ \/ v \in here /\ guest' = [guest EXCEPT ![v] = dedicated[v]] /\ NoFault
          /\ UNCHANGED pending
       \/ v \notin here /\ NoFault /\ UNCHANGED <<guest, pending>>
       \/ v \in here /\ Fault /\ pending' = pending \cup {v} /\ UNCHANGED guest
    /\ UNCHANGED <<want, slots, stored, applied, kernel, dedicated, allowed, here,
                   gw, drop, list, changes, crashes>>

-----------------------------------------------------------------------------
(* Around the rounds *)

\* The platform answers with another list, or the panel's list changes.
Change(w) ==
    /\ changes < MaxChanges
    /\ changes' = changes + 1
    /\ w # want
    /\ want' = w
    /\ UNCHANGED <<slots, stored, applied, kernel, runtime, gw, pc, drop, list,
                   todo, faults, crashes>>

\* create_locked: provision writes the addresses into the new instance, the
\* ruleset is applied, and only then it is launched.
CreateInstance(v) ==
    /\ v \notin here
    /\ changes < MaxChanges
    /\ changes' = changes + 1
    /\ here' = here \cup {v}
    /\ guest' = [guest EXCEPT ![v] = dedicated[v]]
    /\ allowed' = dedicated
    /\ UNCHANGED <<want, slots, stored, applied, kernel, dedicated, pending, gw,
                   pc, drop, list, todo, faults, crashes>>

DeleteInstance(v) ==
    /\ v \in here
    /\ changes < MaxChanges
    /\ changes' = changes + 1
    /\ here' = here \ {v}
    /\ guest' = [guest EXCEPT ![v] = {}]
    /\ allowed' = dedicated
    /\ UNCHANGED <<want, slots, stored, applied, kernel, dedicated, pending, gw,
                   pc, drop, list, todo, faults, crashes>>

\* heal re-applies the ruleset ...
HealNetwork ==
    /\ allowed # dedicated
    /\ allowed' = dedicated
    /\ UNCHANGED <<want, slots, stored, applied, kernel, dedicated, pending, here,
                   guest, gw, pc, drop, list, todo, bounds>>

\* ... and plugs in and reconfigures an instance whose veth vanished.
HealGuest(v) ==
    /\ v \in here
    /\ Fault
    /\ guest' = [guest EXCEPT ![v] = dedicated[v]]
    /\ UNCHANGED <<want, slots, stored, applied, kernel, dedicated, pending,
                   allowed, here, gw, pc, drop, list, todo, changes, crashes>>

\* An interface is deleted by hand or by a network restart.
Vanish(n) ==
    /\ iface[n] # None
    /\ Fault
    /\ iface' = [iface EXCEPT ![n] = None]
    /\ UNCHANGED <<want, slots, stored, applied, rules, routes, runtime, gw, pc,
                   drop, list, todo, changes, crashes>>

\* The gateway moves.
MoveEndpoint(e) ==
    /\ e # gw
    /\ Fault
    /\ gw' = e
    /\ UNCHANGED <<want, slots, stored, applied, kernel, runtime, pc, drop, list,
                   todo, changes, crashes>>

\* The agent restarts, or the host does.
Crash ==
    /\ crashes < MaxCrashes
    /\ crashes' = crashes + 1
    /\ slots' = stored
    /\ applied' = [r \in Resources |-> None]
    /\ dedicated' = AddressesByVm(stored)
    /\ pending' = {}
    /\ pc' = "idle" /\ drop' = {} /\ list' = <<>> /\ todo' = {}
    /\ \/ UNCHANGED <<kernel, allowed>>
       \/ /\ iface' = [n \in Ns |-> None] /\ rules' = {} /\ routes' = {}
          /\ allowed' = dedicated'
    /\ UNCHANGED <<want, stored, here, guest, gw, changes, faults>>

Round ==
    \/ BeginRound \/ StaleDone \/ SkipBinding \/ UpdateEndpoint \/ Replace
    \/ Claim \/ Setup \/ Dedicate \/ ReconcileNetwork
    \/ \E r \in Resources : DropStale(r)
    \/ \E v \in Vms : UpdateGuest(v)

Next ==
    \/ Round
    \/ \E w \in Wants : Change(w)
    \/ \E v \in Vms : CreateInstance(v) \/ DeleteInstance(v) \/ HealGuest(v)
    \/ HealNetwork
    \/ \E n \in Ns : Vanish(n)
    \/ \E e \in Endpoints : MoveEndpoint(e)
    \/ Crash

Spec == Init /\ [][Next]_vars

\* A round is started every 20 s and every step of it returns.
FairSpec == Spec /\ WF_vars(Round) /\ WF_vars(HealNetwork)

-----------------------------------------------------------------------------
(* Properties *)

\* free_n: no two resources share a tunnel, hence a routing table.
DistinctTunnels ==
    \A q, r \in Resources :
        q # r /\ slots[q] # None /\ slots[r] # None => slots[q].n # slots[r].n

\* Slot, "enough to tear it down after a restart": every interface, rule and
\* host route on the host is covered by a slot in wg.json.
NothingLeaks ==
    LET kept == {stored[r] : r \in Resources} \ {None} IN
    /\ \A n \in Ns : iface[n] # None => \E s \in kept : s.n = n
    /\ \A p \in rules : \E s \in kept : s.addr = p[1] /\ s.n = p[2]
    /\ \A a \in routes : \E s \in kept : s.addr = a

\* reconcile, "Anti-spoofing sets must allow the new source addresses first": a
\* round gives an instance only addresses the installed ruleset lets it use, also
\* when instances come and go or restarts intervene.
AllowedBeforeUse ==
    [][pc = "guests" => \A v \in Vms : guest'[v] \ guest[v] \subseteq allowed'[v]]_vars

\* Every wanted tunnel stands, and no slot is left for any other.
Standing ==
    /\ \A i \in 1..Len(want) :
        LET s == slots[want[i].res] IN
        /\ s # None /\ s.vm = want[i].vm /\ s.addr = want[i].addr
        /\ iface[s.n] = gw
    /\ \A r \in Resources \ Wanted(want) : slots[r] = None

\* reconcile, "Errors of single bindings are logged and retried on the next
\* round; the others still converge": whatever failed on the way, the wanted
\* tunnels end up standing, towards the current endpoint, and the others gone.
TunnelsConverge == <>[]Standing

\* reconcile, "Converge host tunnels to `desired`": every wanted address ends up
\* with its source rule and with the host route to its instance.
RoutingConverges ==
    <>[](\A i \in 1..Len(want) :
            LET s == slots[want[i].res] IN
            s # None /\ <<s.addr, s.n>> \in rules /\ s.addr \in routes)

\* DESIGN.md, failed instances are retried on the next round: between rounds an
\* instance has its addresses configured or is due for a retry.
NoLostRetry ==
    pc = "idle" => \A v \in here : guest[v] = dedicated[v] \/ v \in pending
=============================================================================
