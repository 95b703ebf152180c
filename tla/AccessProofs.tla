---------------------------- MODULE AccessProofs ----------------------------
(***************************************************************************)
(* Proofs about the ways into a guest.  Tunnels, for any resources,        *)
(* instances and addresses, any lists of bindings, and any number of       *)
(* changes, failures and restarts: what is set up for a binding and what   *)
(* is left of it.  Exec and Consoles, for any limit of the output and any  *)
(* number of consoles and identifiers: what a bounded command leaves and   *)
(* returns, and that a console in use stays attached.                      *)
(***************************************************************************)
EXTENDS Tunnels, Exec, Consoles, TLAPS

\* Interfaces, source rules and host routes are covered by the slots sl.
Covered(sl) ==
    /\ \A n \in Ns : iface[n] # None => \E r \in Resources : sl[r] # None /\ sl[r].n = n
    /\ \A p \in rules :
          \E r \in Resources : sl[r] # None /\ sl[r].addr = p[1] /\ sl[r].n = p[2]
    /\ \A a \in routes : \E r \in Resources : sl[r] # None /\ sl[r].addr = a

\* The slots sl have different tunnel numbers.
Distinct(sl) ==
    \A q, r \in Resources : q # r /\ sl[q] # None /\ sl[r] # None => sl[q].n # sl[r].n

\* What the steps for one binding rely on: it is there, and the slot it will
\* overwrite is torn down, or has just been saved.
Stepping ==
    /\ pc \in {"claim", "setup"} => list # <<>>
    /\ pc = "claim" /\ SlotOf # None /\ ~SameSlot
          => /\ <<SlotOf.addr, SlotOf.n>> \notin rules
             /\ SlotOf.addr \notin routes
    /\ pc = "setup" => SlotOf # None /\ stored = slots
    /\ \A r \in drop : slots[r] # None

\* Instances are reconfigured under a ruleset that has their addresses.
Allowed == pc = "guests" => allowed = dedicated

\* The parts of TypeOK.
SlotTypes ==
    /\ slots \in [Resources -> Slots \cup {None}]
    /\ stored \in [Resources -> Slots \cup {None}]
KernelTypes ==
    /\ iface \in [Ns -> Endpoints \cup {None}]
    /\ rules \subseteq Addrs \X Ns
    /\ routes \subseteq Addrs
    /\ gw \in Endpoints
AppliedType == applied \in [Resources -> [ep : Endpoints, vm : Vms, addr : Addrs] \cup {None}]
ListTypes ==
    /\ want \in Seq(Bindings) /\ list \in Seq(Bindings)
    /\ drop \subseteq Resources
    /\ pc \in {"idle", "stale", "bind", "claim", "setup", "net", "guests"}
GuestTypes ==
    /\ dedicated \in [Vms -> SUBSET Addrs]
    /\ allowed \in [Vms -> SUBSET Addrs] /\ guest \in [Vms -> SUBSET Addrs]
    /\ pending \subseteq Vms /\ here \subseteq Vms /\ todo \subseteq Vms
BoundTypes ==
    /\ changes \in 0..MaxChanges /\ faults \in 0..MaxFaults
    /\ crashes \in 0..MaxCrashes
Types == SlotTypes /\ KernelTypes /\ AppliedType /\ ListTypes /\ GuestTypes /\ BoundTypes

LEMMA TypesAreTypeOK == TypeOK <=> Types
BY DEF TypeOK, Types, SlotTypes, KernelTypes, AppliedType, ListTypes, GuestTypes, BoundTypes

-----------------------------------------------------------------------------
(* Types *)

\* The binding looked at, and the slot of its resource.
LEMMA BindingType ==
    ASSUME SlotTypes, ListTypes, list # <<>>
    PROVE  /\ Binding \in Bindings /\ Binding.res \in Resources
           /\ SlotOf \in Slots \cup {None}
           /\ Tail(list) \in Seq(Bindings)
<1>1. Binding \in Bindings /\ Tail(list) \in Seq(Bindings)
  BY DEF ListTypes, Binding
<1>2. Binding.res \in Resources
  BY <1>1 DEF Bindings
<1> QED
  BY <1>1, <1>2 DEF SlotOf, SlotTypes

LEMMA BoundsNext == ASSUME BoundTypes, [Next]_vars PROVE BoundTypes'
<1>1. MaxChanges \in Nat /\ MaxFaults \in Nat /\ MaxCrashes \in Nat
  BY SMTT(30), TunnelsAssumption
<1>2. /\ UNCHANGED changes \/ (changes < MaxChanges /\ changes' = changes + 1)
      /\ UNCHANGED crashes \/ (crashes < MaxCrashes /\ crashes' = crashes + 1)
      /\ UNCHANGED faults \/ (faults < MaxFaults /\ faults' = faults + 1)
  BY Zenon DEF vars, Next, Round, BeginRound, StaleDone, SkipBinding, UpdateEndpoint, Replace,
     Claim, Setup, Dedicate, ReconcileNetwork, DropStale, UpdateGuest, Change,
     CreateInstance, DeleteInstance, HealGuest, HealNetwork, Vanish, MoveEndpoint, Crash,
     Fault, NoFault, bounds
<1> QED
  BY <1>1, <1>2 DEF BoundTypes

LEMMA ListNext == ASSUME SlotTypes, ListTypes, Stepping, [Next]_vars PROVE ListTypes'
<1>1. want' \in Seq(Bindings)
  BY Zenon, TunnelsAssumption
     DEF ListTypes, vars, Next, Round, BeginRound, StaleDone, SkipBinding, UpdateEndpoint,
     Replace, Claim, Setup, Dedicate, ReconcileNetwork, DropStale, UpdateGuest, Change,
     CreateInstance, DeleteInstance, HealGuest, HealNetwork, Vanish, MoveEndpoint, Crash
<1>2. list' \in {list, want, <<>>} \/ (list # <<>> /\ list' = Tail(list))
  BY Zenon DEF Stepping, vars, Next, Round, BeginRound, StaleDone, SkipBinding, UpdateEndpoint,
     Replace, Claim, Setup, Dedicate, ReconcileNetwork, DropStale, UpdateGuest, Change,
     CreateInstance, DeleteInstance, HealGuest, HealNetwork, Vanish, MoveEndpoint, Crash
<1>3. list' \in Seq(Bindings)
  <2>1. CASE list' \in {list, want, <<>>}
    <3>1. <<>> \in Seq(Bindings)
      OBVIOUS
    <3> QED
      BY <2>1, <3>1, Zenon DEF ListTypes
  <2>2. CASE list # <<>> /\ list' = Tail(list)
    BY <2>2, BindingType
  <2> QED
    BY <1>2, <2>1, <2>2
<1>4. drop' \subseteq Resources
  BY Zenon DEF ListTypes, vars, Next, Round, BeginRound, StaleDone, SkipBinding, UpdateEndpoint,
     Replace, Claim, Setup, Dedicate, ReconcileNetwork, DropStale, UpdateGuest, Change,
     CreateInstance, DeleteInstance, HealGuest, HealNetwork, Vanish, MoveEndpoint, Crash
<1>5. pc' \in {"idle", "stale", "bind", "claim", "setup", "net", "guests"}
  BY ZenonT(30) DEF ListTypes, vars, Next, Round, BeginRound, StaleDone, SkipBinding, UpdateEndpoint,
     Replace, Claim, Setup, Dedicate, ReconcileNetwork, DropStale, UpdateGuest, Change,
     CreateInstance, DeleteInstance, HealGuest, HealNetwork, Vanish, MoveEndpoint, Crash
<1> QED
  BY <1>1, <1>3, <1>4, <1>5 DEF ListTypes

LEMMA GuestNext == ASSUME SlotTypes, GuestTypes, [Next]_vars PROVE GuestTypes'
<1>1. ASSUME NEW sl \in [Resources -> Slots \cup {None}]
      PROVE  AddressesByVm(sl) \in [Vms -> SUBSET Addrs]
  BY DEF AddressesByVm, Slots
<1>2. dedicated' \in {dedicated, AddressesByVm(slots), AddressesByVm(stored)}
  BY Zenon DEF vars, Next, Round, BeginRound, StaleDone, SkipBinding, UpdateEndpoint,
     Replace, Claim, Setup, Dedicate, ReconcileNetwork, DropStale, UpdateGuest, Change,
     CreateInstance, DeleteInstance, HealGuest, HealNetwork, Vanish, MoveEndpoint, Crash,
     runtime
<1>3. dedicated' \in [Vms -> SUBSET Addrs]
  BY <1>1, <1>2 DEF GuestTypes, SlotTypes
<1>4. allowed' \in {allowed, dedicated, dedicated'}
  BY Zenon DEF vars, Next, Round, BeginRound, StaleDone, SkipBinding, UpdateEndpoint,
     Replace, Claim, Setup, Dedicate, ReconcileNetwork, DropStale, UpdateGuest, Change,
     CreateInstance, DeleteInstance, HealGuest, HealNetwork, Vanish, MoveEndpoint, Crash,
     runtime
<1>5. \/ UNCHANGED guest
      \/ \E v \in Vms : guest' \in {[guest EXCEPT ![v] = dedicated[v]],
                                    [guest EXCEPT ![v] = {}]}
  BY ZenonT(30) DEF vars, Next, Round, BeginRound, StaleDone, SkipBinding, UpdateEndpoint,
     Replace, Claim, Setup, Dedicate, ReconcileNetwork, DropStale, UpdateGuest, Change,
     CreateInstance, DeleteInstance, HealGuest, HealNetwork, Vanish, MoveEndpoint, Crash,
     runtime
<1>6. guest' \in [Vms -> SUBSET Addrs]
  BY <1>5 DEF GuestTypes
<1>7. pending' \subseteq Vms /\ here' \subseteq Vms /\ todo' \subseteq Vms
  BY Zenon DEF GuestTypes, vars, Next, Round, BeginRound, StaleDone, SkipBinding, UpdateEndpoint,
     Replace, Claim, Setup, Dedicate, ReconcileNetwork, DropStale, UpdateGuest, Change,
     CreateInstance, DeleteInstance, HealGuest, HealNetwork, Vanish, MoveEndpoint, Crash,
     runtime
<1> QED
  BY <1>3, <1>4, <1>6, <1>7 DEF GuestTypes

LEMMA KernelNext ==
    ASSUME SlotTypes, KernelTypes, ListTypes, Stepping, [Next]_vars
    PROVE  KernelTypes'
<1>1. ASSUME NEW s \in Slots, NEW b, Teardown(s, b), UNCHANGED gw
      PROVE  KernelTypes'
  BY <1>1 DEF Teardown, KernelTypes, Slots
<1>2. ASSUME NEW r \in Resources, DropStale(r)
      PROVE  KernelTypes'
  <2>1. slots[r] \in Slots
    BY Zenon, <1>2 DEF DropStale, Stepping, SlotTypes
  <2> QED
    BY Zenon, <1>1, <1>2, <2>1 DEF DropStale
<1>3. CASE UpdateEndpoint
  <2>1. SlotOf \in Slots
    BY Zenon, <1>3, BindingType DEF UpdateEndpoint, Current, SameSlot
  <2> QED
    BY ZenonT(30), <1>3, <2>1 DEF UpdateEndpoint, KernelTypes, Slots
<1>4. CASE Replace
  <2>1. SlotOf # None => SlotOf \in Slots
    BY <1>4, BindingType DEF Replace
  <2> QED
    BY Zenon, <1>1, <1>4, <2>1 DEF Replace, KernelTypes, kernel
<1>5. CASE Setup
  <2>1. SlotOf \in Slots
    BY Zenon, <1>5, BindingType DEF Setup, Stepping
  <2>2. iface' \in [Ns -> Endpoints \cup {None}]
    BY Zenon, <1>5, <2>1 DEF Setup, KernelTypes, Slots
  <2>3. rules' \subseteq Addrs \X Ns /\ routes' \subseteq Addrs
    BY <1>5, <2>1 DEF Setup, KernelTypes, Slots
  <2> QED
    BY Zenon, <1>5, <2>2, <2>3 DEF Setup, KernelTypes
<1>6. CASE Crash
  BY <1>6 DEF Crash, KernelTypes, kernel
<1>7. ASSUME NEW n \in Ns, Vanish(n)
      PROVE  KernelTypes'
  BY <1>7 DEF Vanish, KernelTypes
<1>8. CASE \/ UNCHANGED vars
           \/ BeginRound \/ StaleDone \/ SkipBinding \/ Claim \/ Dedicate \/ ReconcileNetwork
           \/ \E v \in Vms : UpdateGuest(v)
           \/ \E w \in Wants : Change(w)
           \/ \E v \in Vms : CreateInstance(v) \/ DeleteInstance(v) \/ HealGuest(v)
           \/ HealNetwork \/ \E e \in Endpoints : MoveEndpoint(e)
  BY Zenon, <1>8 DEF KernelTypes, vars, BeginRound, StaleDone, SkipBinding, Claim, Dedicate,
     ReconcileNetwork, UpdateGuest, Change, CreateInstance, DeleteInstance, HealGuest,
     HealNetwork, MoveEndpoint, kernel
<1> QED
  BY <1>2, <1>3, <1>4, <1>5, <1>6, <1>7, <1>8 DEF Next, Round

LEMMA SlotsNext ==
    ASSUME SlotTypes, ListTypes, Stepping, [Next]_vars
    PROVE  SlotTypes'
<1>1. ASSUME NEW r \in Resources, DropStale(r)
      PROVE  SlotTypes'
  BY Zenon, <1>1 DEF DropStale, SlotTypes
<1>2. CASE Claim
  <2>1. Binding \in Bindings /\ Binding.res \in Resources
    BY <1>2, BindingType DEF Claim, Stepping
  <2>2. \A n \in Ns : [n |-> n, vm |-> Binding.vm, addr |-> Binding.addr] \in Slots
    BY <2>1 DEF Bindings, Slots
  <2>3. slots' \in [Resources -> Slots \cup {None}]
    BY <1>2, <2>1, <2>2 DEF Claim, SlotTypes
  <2> QED
    BY Zenon, <1>2, <2>3 DEF Claim, SlotTypes
<1>3. CASE Crash
  BY <1>3 DEF Crash, SlotTypes
<1>4. CASE \/ UNCHANGED vars
           \/ BeginRound \/ StaleDone \/ SkipBinding \/ UpdateEndpoint \/ Replace \/ Setup
           \/ Dedicate \/ ReconcileNetwork \/ \E v \in Vms : UpdateGuest(v)
           \/ \E w \in Wants : Change(w)
           \/ \E v \in Vms : CreateInstance(v) \/ DeleteInstance(v) \/ HealGuest(v)
           \/ HealNetwork \/ \E e \in Endpoints : MoveEndpoint(e)
           \/ \E n \in Ns : Vanish(n)
  BY ZenonT(30), <1>4 DEF SlotTypes, vars, BeginRound, StaleDone, SkipBinding, UpdateEndpoint, Replace,
     Setup, Dedicate, ReconcileNetwork, UpdateGuest, Change, CreateInstance,
     DeleteInstance, HealGuest, HealNetwork, MoveEndpoint, Vanish
<1> QED
  BY <1>1, <1>2, <1>3, <1>4 DEF Next, Round

LEMMA AppliedNext ==
    ASSUME SlotTypes, KernelTypes, AppliedType, ListTypes, Stepping, [Next]_vars
    PROVE  AppliedType'
<1>1. ASSUME list # <<>>
      PROVE  Applied(gw) \in [ep : Endpoints, vm : Vms, addr : Addrs]
  BY <1>1, BindingType DEF Applied, KernelTypes, Bindings
<1>2. CASE UpdateEndpoint \/ Setup
  <2>1. list # <<>>
    BY Zenon, <1>2 DEF UpdateEndpoint, Setup, Stepping
  <2>2. \/ UNCHANGED applied
        \/ applied' = [applied EXCEPT ![Binding.res] = Applied(gw)]
        \/ applied' = [applied EXCEPT ![Binding.res] = None]
    BY Zenon, <1>2 DEF UpdateEndpoint, Setup
  <2> QED
    BY <1>1, <2>1, <2>2 DEF AppliedType
<1>3. \/ UNCHANGED applied \/ applied' = [r \in Resources |-> None]
      \/ \E r \in Resources : applied' = [applied EXCEPT ![r] = None]
      \/ UpdateEndpoint \/ Setup
  BY Zenon DEF vars, Next, Round, BeginRound, StaleDone, SkipBinding, Replace, Claim, Dedicate,
     ReconcileNetwork, DropStale, UpdateGuest, Change, CreateInstance, DeleteInstance,
     HealGuest, HealNetwork, Vanish, MoveEndpoint, Crash
<1> QED
  BY <1>2, <1>3 DEF AppliedType

LEMMA SteppingNext ==
    ASSUME SlotTypes, KernelTypes, ListTypes, Stepping, [Next]_vars
    PROVE  Stepping'
<1>1. CASE BeginRound
  BY Zenon, <1>1 DEF BeginRound, Stepping
<1>2. ASSUME NEW r \in Resources, DropStale(r)
      PROVE  Stepping'
  <2>1. pc' \in {"stale", "idle"}
    BY Zenon, <1>2 DEF DropStale
  <2>2. \A q \in drop' : slots'[q] # None
    BY Zenon, <1>2 DEF DropStale, Stepping, SlotTypes, ListTypes
  <2> QED
    BY Zenon, <2>1, <2>2 DEF Stepping
<1>3. CASE Replace
  <2>1. CASE pc' = "claim"
    <3>1. /\ list # <<>> /\ UNCHANGED <<list, slots, drop>>
          /\ SlotOf # None /\ ~SameSlot => Teardown(SlotOf, TRUE)
      BY Zenon, <1>3, <2>1 DEF Replace, kernel
    <3>2. /\ Binding' = Binding /\ SlotOf' = SlotOf /\ (SameSlot' <=> SameSlot)
      BY Zenon, <3>1 DEF Binding, SlotOf, SameSlot
    <3>3. SlotOf # None /\ ~SameSlot => /\ <<SlotOf.addr, SlotOf.n>> \notin rules'
                                         /\ SlotOf.addr \notin routes'
      BY <3>1 DEF Teardown
    <3> QED
      BY <2>1, <3>1, <3>2, <3>3 DEF Stepping
  <2>2. CASE pc' # "claim"
    BY Zenon, <1>3, <2>2 DEF Replace, Stepping, NoFault
  <2> QED
    BY <2>1, <2>2
<1>4. CASE Claim
  <2>1. list # <<>> /\ Binding.res \in Resources /\ drop' = drop /\ list' = list
    BY Zenon, <1>4, BindingType DEF Claim, Stepping
  <2>2. PICK n \in Ns : slots' = [slots EXCEPT ![Binding.res] =
                             [n |-> n, vm |-> Binding.vm, addr |-> Binding.addr]]
    BY Zenon, <1>4 DEF Claim
  <2>3. [n |-> n, vm |-> Binding.vm, addr |-> Binding.addr] # None
    BY <2>1, BindingType, NoneAssumption DEF Bindings, Slots
  <2>4. SlotOf' # None /\ \A r \in Resources : slots[r] # None => slots'[r] # None
    BY Zenon, <2>1, <2>2, <2>3 DEF SlotTypes, SlotOf, Binding
  <2>5. pc' \in {"idle", "setup"} /\ (pc' = "setup" => stored' = slots')
    BY Zenon, <1>4 DEF Claim
  <2> QED
    BY Zenon, <2>1, <2>4, <2>5 DEF Stepping, ListTypes
<1>5. CASE Setup \/ StaleDone \/ Dedicate \/ ReconcileNetwork \/ SkipBinding \/ UpdateEndpoint
  BY Zenon, <1>5 DEF Setup, StaleDone, Dedicate, ReconcileNetwork, SkipBinding, UpdateEndpoint,
     Stepping
<1>6. CASE Crash \/ \E v \in Vms : UpdateGuest(v)
  BY Zenon, <1>6 DEF Crash, UpdateGuest, Stepping
<1>7. CASE \/ UNCHANGED vars
           \/ \E w \in Wants : Change(w)
           \/ \E v \in Vms : CreateInstance(v) \/ DeleteInstance(v) \/ HealGuest(v)
           \/ HealNetwork \/ \E e \in Endpoints : MoveEndpoint(e)
           \/ \E n \in Ns : Vanish(n)
  <2>1. UNCHANGED <<slots, stored, rules, routes, pc, drop, list>>
    BY Zenon, <1>7 DEF vars, Change, CreateInstance, DeleteInstance, HealGuest, HealNetwork,
       MoveEndpoint, Vanish, kernel
  <2> QED
    BY Zenon, <2>1 DEF Stepping, SlotOf, SameSlot, Binding
<1> QED
  BY SMTT(30), <1>1, <1>2, <1>3, <1>4, <1>5, <1>6, <1>7 DEF Next, Round

-----------------------------------------------------------------------------
(* Nothing leaks *)

\* A step that takes from the kernel and leaves the slots alone.
Takes ==
    /\ \A n \in Ns : iface'[n] # None => iface[n] # None
    /\ rules' \subseteq rules /\ routes' \subseteq routes

LEMMA TeardownTakes ==
    ASSUME KernelTypes, NEW s \in Slots, NEW b \in BOOLEAN, Teardown(s, b)
    PROVE  /\ Takes /\ <<s.addr, s.n>> \notin rules' /\ s.addr \notin routes'
           /\ b => iface'[s.n] = None
BY DEF Takes, Teardown, KernelTypes, Slots

\* Only setup adds to the kernel.
LEMMA OnlySetupAdds ==
    ASSUME SlotTypes, KernelTypes, ListTypes, Stepping, [Next]_vars
    PROVE  Takes \/ Setup
<1>1. ASSUME NEW r \in Resources, DropStale(r)
      PROVE  Takes
  <2>1. slots[r] \in Slots
    BY <1>1 DEF DropStale, Stepping, SlotTypes
  <2> QED
    BY Zenon, <1>1, <2>1, TeardownTakes DEF DropStale
<1>2. CASE UpdateEndpoint
  <2>1. SlotOf \in Slots
    BY <1>2, BindingType DEF UpdateEndpoint, Current, SameSlot
  <2> QED
    BY Zenon, <1>2, <2>1 DEF UpdateEndpoint, Current, KernelTypes, Slots, Takes
<1>3. CASE Replace
  <2>1. SlotOf # None => SlotOf \in Slots
    BY <1>3, BindingType DEF Replace
  <2> QED
    BY Zenon, <1>3, <2>1, TeardownTakes DEF Replace, Takes, kernel
<1>4. CASE Crash
  BY <1>4 DEF Crash, Takes, kernel
<1>5. ASSUME NEW n \in Ns, Vanish(n)
      PROVE  Takes
  BY <1>5 DEF Vanish, KernelTypes, Takes
<1>6. CASE \/ UNCHANGED vars
           \/ BeginRound \/ StaleDone \/ SkipBinding \/ Claim \/ Dedicate \/ ReconcileNetwork
           \/ \E v \in Vms : UpdateGuest(v)
           \/ \E w \in Wants : Change(w)
           \/ \E v \in Vms : CreateInstance(v) \/ DeleteInstance(v) \/ HealGuest(v)
           \/ HealNetwork \/ \E e \in Endpoints : MoveEndpoint(e)
  BY Zenon, <1>6 DEF Takes, vars, BeginRound, StaleDone, SkipBinding, Claim, Dedicate,
     ReconcileNetwork, UpdateGuest, Change, CreateInstance, DeleteInstance, HealGuest,
     HealNetwork, MoveEndpoint, kernel
<1> QED
  BY <1>1, <1>2, <1>3, <1>4, <1>5, <1>6 DEF Next, Round

\* What covers the kernel covers it when something is taken away.
LEMMA StillCovered ==
    ASSUME Takes, Covered(slots), Covered(stored)
    PROVE  /\ UNCHANGED slots => Covered(slots)'
           /\ slots' = stored => Covered(slots)'
           /\ UNCHANGED stored => Covered(stored)'
           /\ Covered(slots)' /\ stored' = slots' => Covered(stored)'
BY DEF Takes, Covered

\* A slot is dropped after its tunnel, rule and route.
LEMMA DropCovered ==
    ASSUME SlotTypes, KernelTypes, Stepping, Covered(slots), Covered(stored),
           NEW r \in Resources, DropStale(r)
    PROVE  Covered(slots)' /\ Covered(stored)'
<1>1. slots[r] \in Slots
  BY Zenon DEF DropStale, Stepping, SlotTypes
<1>2. CASE UNCHANGED <<slots, stored>> /\ Teardown(slots[r], FALSE)
  BY Zenon, <1>1, <1>2, TeardownTakes, StillCovered
<1>3. CASE /\ Teardown(slots[r], TRUE) /\ slots' = [slots EXCEPT ![r] = None]
           /\ stored' \in {slots', stored}
  <2>1. /\ Takes /\ iface'[slots[r].n] = None /\ slots[r].addr \notin routes'
        /\ <<slots[r].addr, slots[r].n>> \notin rules'
    BY Zenon, <1>1, <1>3, TeardownTakes
  <2>2. \A q \in Resources : q # r => slots'[q] = slots[q]
    BY <1>3 DEF SlotTypes
  <2>3. ASSUME NEW n \in Ns, iface'[n] # None
        PROVE  \E q \in Resources : slots'[q] # None /\ slots'[q].n = n
    BY <2>1, <2>2, <2>3 DEF Covered, Takes
  <2>4. ASSUME NEW p \in rules'
        PROVE  \E q \in Resources :
                  slots'[q] # None /\ slots'[q].addr = p[1] /\ slots'[q].n = p[2]
    <3>1. p = <<p[1], p[2]>> /\ p \in rules
      BY <2>1, <2>4 DEF Takes, KernelTypes
    <3> QED
      BY <2>1, <2>2, <2>4, <3>1 DEF Covered
  <2>5. ASSUME NEW a \in routes'
        PROVE  \E q \in Resources : slots'[q] # None /\ slots'[q].addr = a
    BY <2>1, <2>2, <2>5 DEF Covered, Takes
  <2>6. Covered(slots)'
    BY Zenon, <2>3, <2>4, <2>5 DEF Covered
  <2> QED
    BY Zenon, <1>3, <2>1, <2>6, StillCovered
<1> QED
  BY Zenon, <1>2, <1>3 DEF DropStale

\* A slot is claimed when what its old contents stood for is gone.
LEMMA ClaimCovered ==
    ASSUME SlotTypes, KernelTypes, ListTypes, Stepping, Covered(slots), Covered(stored), Claim
    PROVE  Covered(slots)' /\ Covered(stored)'
<1>0. PICK b : b = Binding.res
  OBVIOUS
<1>1. b \in Resources /\ Binding \in Bindings /\ SlotOf = slots[b]
  BY Zenon, <1>0, BindingType DEF Claim, Stepping, SlotOf
<1>2. PICK n \in Ns :
          /\ slots[b] # None => n = slots[b].n
          /\ slots' = [slots EXCEPT ![b] =
                          [n |-> n, vm |-> Binding.vm, addr |-> Binding.addr]]
  BY Zenon, <1>0, <1>1 DEF Claim
<1>3. slots'[b] # None /\ slots'[b].n = n /\ slots'[b].addr = Binding.addr
  BY <1>1, <1>2, NoneAssumption DEF SlotTypes, Slots, Bindings
<1>4. \A q \in Resources : q # b => slots'[q] = slots[q]
  BY Zenon, <1>2 DEF SlotTypes
<1>5. UNCHANGED <<iface, rules, routes>> /\ stored' \in {slots', stored}
  BY Zenon DEF Claim, kernel
<1>6. slots[b] # None /\ slots[b].addr # Binding.addr
        => <<slots[b].addr, n>> \notin rules /\ slots[b].addr \notin routes
  BY Zenon, <1>1, <1>2 DEF Stepping, SameSlot, Claim
<1>7. ASSUME NEW p \in rules
      PROVE  \E q \in Resources :
                slots'[q] # None /\ slots'[q].addr = p[1] /\ slots'[q].n = p[2]
  <2>1. p = <<p[1], p[2]>>
    BY <1>7 DEF KernelTypes
  <2> QED
    BY <1>1, <1>2, <1>3, <1>4, <1>6, <1>7, <2>1 DEF Covered
<1>8. ASSUME NEW a \in routes
      PROVE  \E q \in Resources : slots'[q] # None /\ slots'[q].addr = a
  BY SMTT(30), <1>1, <1>3, <1>4, <1>6, <1>8 DEF Covered
<1>9. ASSUME NEW m \in Ns, iface[m] # None
      PROVE  \E q \in Resources : slots'[q] # None /\ slots'[q].n = m
  BY SMTT(30), <1>1, <1>2, <1>3, <1>4, <1>9 DEF Covered
<1>10. Covered(slots)'
  BY Zenon, <1>5, <1>7, <1>8, <1>9 DEF Covered
<1> QED
  BY Zenon, <1>5, <1>10, StillCovered DEF Takes

\* What is set up is set up for a slot that was saved.
LEMMA SetupCovered ==
    ASSUME SlotTypes, KernelTypes, ListTypes, Stepping, Covered(slots), Setup
    PROVE  Covered(slots)' /\ Covered(stored)'
<1>0. PICK b : b = Binding.res
  BY SMTT(30)
<1>1. b \in Resources /\ slots[b] \in Slots /\ slots[b] # None /\ stored = slots
  BY Zenon, <1>0, BindingType DEF Setup, Stepping, SlotOf
<1>2. UNCHANGED <<slots, stored>>
  BY Zenon DEF Setup
<1>3. /\ \A n \in Ns : iface'[n] # None => n = slots[b].n \/ iface[n] # None
      /\ rules' \subseteq rules \cup {<<slots[b].addr, slots[b].n>>}
      /\ routes' \subseteq routes \cup {slots[b].addr}
  BY Zenon, <1>0, <1>1 DEF Setup, SlotOf, KernelTypes, Slots
<1>4. Covered(slots)'
  BY <1>1, <1>2, <1>3 DEF Covered
<1> QED
  BY Zenon, <1>1, <1>2, <1>4 DEF Covered

LEMMA CoveredNext ==
    ASSUME SlotTypes, KernelTypes, ListTypes, Stepping, Covered(slots), Covered(stored),
           [Next]_vars
    PROVE  Covered(slots)' /\ Covered(stored)'
<1>1. \/ UNCHANGED <<slots, stored>> \/ (slots' = stored /\ UNCHANGED stored)
      \/ Claim \/ \E r \in Resources : DropStale(r)
  BY Zenon DEF vars, Next, Round, BeginRound, StaleDone, SkipBinding, UpdateEndpoint, Replace,
     Setup, Dedicate, ReconcileNetwork, UpdateGuest, Change, CreateInstance,
     DeleteInstance, HealGuest, HealNetwork, MoveEndpoint, Vanish, Crash
<1>2. CASE Takes
  BY Zenon, <1>1, <1>2, StillCovered, ClaimCovered, DropCovered
<1>3. CASE Setup
  BY <1>3, SetupCovered
<1> QED
  BY SMTT(30), <1>2, <1>3, OnlySetupAdds

-----------------------------------------------------------------------------
(* The theorems *)

Base == Types /\ Stepping /\ Covered(slots) /\ Covered(stored)

LEMMA BaseInductive ==
    /\ Init => Base
    /\ Base /\ [Next]_vars => Base'
<1>1. Init => Base
  <2> SUFFICES ASSUME Init PROVE Base
      OBVIOUS
  <2>1. SlotTypes /\ KernelTypes /\ AppliedType /\ GuestTypes
    BY Zenon DEF Init, SlotTypes, KernelTypes, AppliedType, GuestTypes
  <2>2. ListTypes
    BY DEF Init, ListTypes
  <2>3. BoundTypes
    BY TunnelsAssumption DEF Init, BoundTypes
  <2>4. Stepping /\ Covered(slots) /\ Covered(stored)
    BY Zenon DEF Init, Stepping, Covered
  <2> QED
    BY <2>1, <2>2, <2>3, <2>4 DEF Base, Types
<1>2. Base /\ [Next]_vars => Base'
  BY Zenon, BoundsNext, ListNext, GuestNext, KernelNext, SlotsNext, AppliedNext, SteppingNext,
     CoveredNext DEF Base, Types
<1> QED
  BY <1>1, <1>2

\* In every reachable state the variables have their types.
THEOREM TypeCorrect == Spec => []TypeOK
<1>1. Base => TypeOK
  BY TypesAreTypeOK DEF Base
<1> QED
  BY <1>1, BaseInductive, PTL DEF Spec

\* wg.json always has a slot for everything a round has set up, so that it can be
\* taken down after a restart at any point and after any failure to save.
THEOREM NoLeaks == Spec => []NothingLeaks
<1>1. Base => NothingLeaks
  BY ZenonT(30) DEF Base, Covered, NothingLeaks
<1> QED
  BY <1>1, BaseInductive, PTL DEF Spec

LEMMA DistinctNext ==
    ASSUME SlotTypes, ListTypes, Stepping, Distinct(slots), Distinct(stored), [Next]_vars
    PROVE  Distinct(slots)' /\ Distinct(stored)'
<1>1. CASE Claim
  <2>0. PICK b : b = Binding.res
    OBVIOUS
  <2>1. b \in Resources /\ SlotOf = slots[b]
    BY Zenon, <1>1, <2>0, BindingType DEF Claim, Stepping, SlotOf
  <2>2. PICK n \in Ns :
            /\ slots[b] = None => FreeN(n)
            /\ slots[b] # None => n = slots[b].n
            /\ slots' = [slots EXCEPT ![b] =
                            [n |-> n, vm |-> Binding.vm, addr |-> Binding.addr]]
    BY Zenon, <1>1, <2>0, <2>1 DEF Claim
  <2>3. slots'[b].n = n /\ \A q \in Resources : q # b => slots'[q] = slots[q]
    BY Zenon, <2>1, <2>2 DEF SlotTypes
  <2>4. \A q \in Resources : q # b /\ slots[q] # None => slots[q].n # n
    BY Zenon, <2>1, <2>2 DEF FreeN, Used, Distinct
  <2>5. Distinct(slots)'
    BY ZenonT(30), <2>3, <2>4 DEF Distinct
  <2> QED
    BY ZenonT(30), <1>1, <2>5 DEF Claim, Distinct
<1>2. ASSUME NEW r \in Resources, DropStale(r)
      PROVE  Distinct(slots)' /\ Distinct(stored)'
  <2>1. /\ \A q \in Resources : slots'[q] \in {slots[q], None}
        /\ stored' \in {slots', stored}
    BY Zenon, <1>2 DEF DropStale, SlotTypes
  <2> QED
    BY ZenonT(30), <2>1 DEF Distinct
<1>3. CASE UNCHANGED <<slots, stored>> \/ (slots' = stored /\ UNCHANGED stored)
  BY Zenon, <1>3 DEF Distinct
<1>4. \/ UNCHANGED <<slots, stored>> \/ (slots' = stored /\ UNCHANGED stored)
      \/ Claim \/ \E r \in Resources : DropStale(r)
  BY Zenon DEF vars, Next, Round, BeginRound, StaleDone, SkipBinding, UpdateEndpoint, Replace,
     Setup, Dedicate, ReconcileNetwork, UpdateGuest, Change, CreateInstance,
     DeleteInstance, HealGuest, HealNetwork, MoveEndpoint, Vanish, Crash
<1> QED
  BY SMTT(30), <1>1, <1>2, <1>3, <1>4

\* Two resources never share a tunnel number, in memory or, since a restart
\* loads it, in wg.json.
THEOREM TunnelsDistinct == Spec => []DistinctTunnels
<1>1. Init => Distinct(slots) /\ Distinct(stored)
  BY DEF Init, Distinct
<1>2. Base /\ Distinct(slots) /\ Distinct(stored) /\ [Next]_vars
        => Distinct(slots)' /\ Distinct(stored)'
  BY DistinctNext DEF Base, Types
<1>3. Distinct(slots) => DistinctTunnels
  BY DEF Distinct, DistinctTunnels
<1> QED
  BY <1>1, <1>2, <1>3, BaseInductive, PTL DEF Spec

\* While a round reconfigures instances, whatever else happens, an instance is
\* given only addresses that the installed anti-spoofing set lets it use.
THEOREM AllowedFirst == Spec => AllowedBeforeUse
<1>1. Init => Allowed
  BY DEF Init, Allowed
<1>2. Allowed /\ [Next]_vars => Allowed'
  <2> SUFFICES ASSUME Allowed, [Next]_vars PROVE Allowed'
      BY SMTT(30)
  <2>1. \/ pc' # "guests" \/ (allowed' = dedicated /\ UNCHANGED dedicated)
        \/ pc = "guests" /\ UNCHANGED <<allowed, dedicated>>
    BY Zenon DEF vars, Next, Round, BeginRound, StaleDone, SkipBinding, UpdateEndpoint, Replace,
       Setup, Dedicate, ReconcileNetwork, UpdateGuest, Change, CreateInstance, Claim,
       DropStale, DeleteInstance, HealGuest, HealNetwork, MoveEndpoint, Vanish, Crash,
       runtime
  <2> QED
    BY <2>1 DEF Allowed
<1>3. Base /\ Allowed /\ [Next]_vars
        => [pc = "guests" => \A v \in Vms : guest'[v] \ guest[v] \subseteq allowed'[v]]_vars
  <2> SUFFICES ASSUME GuestTypes, Allowed, [Next]_vars, pc = "guests", NEW v \in Vms
               PROVE  guest'[v] \ guest[v] \subseteq allowed'[v]
      BY Zenon DEF Base, Types
  <2>1. \/ UNCHANGED guest
        \/ /\ allowed' = dedicated
           /\ \E u \in Vms : guest' \in {[guest EXCEPT ![u] = dedicated[u]],
                                         [guest EXCEPT ![u] = {}]}
    BY Zenon DEF Allowed, vars, Next, Round, BeginRound, StaleDone, SkipBinding, UpdateEndpoint,
       Replace, Setup, Dedicate, ReconcileNetwork, UpdateGuest, Change, CreateInstance,
       Claim, DropStale, DeleteInstance, HealGuest, HealNetwork, MoveEndpoint, Vanish,
       Crash, runtime
  <2> QED
    BY <2>1 DEF GuestTypes
<1> QED
  BY <1>1, <1>2, <1>3, BaseInductive, PTL DEF Spec, AllowedBeforeUse

-----------------------------------------------------------------------------
(* A bounded command *)

Contained == {child, kid} \subseteq {"none", "doomed", "zombie", "gone"}

\* Before the fork there is no command. A helper that waits for a killed command,
\* or that is gone, leaves nothing of the group running, unless it was killed in
\* the middle of its work when the request was dropped.
HelperKeeps ==
    /\ caller = "idle" => helper = "none"
    /\ helper \in {"none", "join"} => child = "none" /\ kid = "none"
    /\ helper = "sweep" => child = "gone"
    /\ helper = "kill" => Contained
    /\ helper = "gone" /\ ~(caller = "dropped" /\ late) => Contained
    /\ caller \in {"read", "ok", "failed", "dropped"} => helper = "gone"

\* A helper ends with a code, and with 143 only when the caller stopped it.
CodeTold ==
    /\ helper \in {"term", "kill", "sweep", "gone"} => code # "none"
    /\ requested \/ code = "143" => overflowed \/ timedOut

\* A result was given when nobody could write any more.
ResultFinal ==
    caller = "ok" =>
        /\ ~\E p \in {child, kid, escaped} : p \in {"forked", "up"}
        /\ code # "124" /\ ~overflowed /\ ~timedOut
        /\ captured <= MaxOutput /\ ~pipe

ExecInv == ExecTypeOK /\ HelperKeeps /\ CodeTold /\ ResultFinal

\* The types.
LEMMA ExecTypes ==
    ASSUME ExecInv, [ExecNext]_execVars
    PROVE  ExecTypeOK'
PROOF
  <1> USE DEF ExecInv, ExecTypeOK, callerVars, helperVars, guestVars, outputVars
  <1>1. CASE Start
    BY Zenon, <1>1, MaxOutputAssumption DEF Start, SpawnHelper
  <1>2. CASE JoinFails
    BY Zenon, <1>2, MaxOutputAssumption DEF JoinFails, HelperExits
  <1>3. CASE Fork
    BY Zenon, <1>3, MaxOutputAssumption DEF Fork
  <1>4. CASE ChildExited
    BY Zenon, <1>4, MaxOutputAssumption DEF ChildExited
  <1>5. CASE Sweep
    BY Zenon, <1>5, MaxOutputAssumption DEF Sweep, Doom
  <1>6. CASE Terminate
    BY Zenon, <1>6, MaxOutputAssumption DEF Terminate
  <1>7. CASE Kill
    BY Zenon, <1>7, MaxOutputAssumption DEF Kill, Doom
  <1>8. CASE Reap
    BY Zenon, <1>8, MaxOutputAssumption DEF Reap
  <1>9. CASE Exec
    BY Zenon, <1>9, MaxOutputAssumption DEF Exec
  <1>10. CASE ForkKid
    BY Zenon, <1>10, MaxOutputAssumption DEF ForkKid
  <1>11. CASE Escape
    BY ZenonT(30), <1>11, MaxOutputAssumption DEF Escape
  <1>12. CASE Write
    BY ZenonT(30), <1>12, MaxOutputAssumption DEF Write
  <1>13. CASE ChildDies
    BY Zenon, <1>13, MaxOutputAssumption DEF ChildDies
  <1>14. CASE KidDies
    BY ZenonT(30), <1>14, MaxOutputAssumption DEF KidDies
  <1>15. CASE EscapedDies
    BY ZenonT(30), <1>15, MaxOutputAssumption DEF EscapedDies
  <1>16. CASE InstanceDies
    BY Zenon, <1>16, MaxOutputAssumption DEF InstanceDies, KillHelper, HelperExits, Doom
  <1>17. CASE WriteStdin
    BY Zenon, <1>17, MaxOutputAssumption DEF WriteStdin
  <1>18. CASE TryWait
    BY Zenon, <1>18, MaxOutputAssumption DEF TryWait
  <1>19. CASE Overflow
    BY Zenon, <1>19, MaxOutputAssumption DEF Overflow, SignalHelper, HelperExits
  <1>20. CASE Deadline
    BY Zenon, <1>20, MaxOutputAssumption DEF Deadline, SignalHelper, HelperExits
  <1>21. CASE HelperGone
    BY Zenon, <1>21, MaxOutputAssumption DEF HelperGone
  <1>22. CASE GraceOver
    BY Zenon, <1>22, MaxOutputAssumption DEF GraceOver, KillHelper, HelperExits
  <1>23. CASE Finish
    BY Zenon, <1>23, MaxOutputAssumption DEF Finish, Eof, Alive, TooLong
  <1>24. CASE ReadOutput
    <2>1. captured' \in 0..MaxOutput + 1
      <3>1. captured' = IF captured > MaxOutput THEN captured ELSE captured + 1
        BY Zenon, <1>24 DEF ReadOutput
      <3> QED
        BY <3>1, MaxOutputAssumption
    <2> QED
      BY ZenonT(30), <1>24, <2>1 DEF ReadOutput
  <1>25. CASE RequestTimeout
    BY Zenon, <1>25, MaxOutputAssumption DEF RequestTimeout, KillHelper, HelperExits
  <1>26. CASE UNCHANGED execVars
    BY ZenonT(30), <1>26 DEF execVars
  <1> HIDE DEF ExecInv, ExecTypeOK, callerVars, helperVars, guestVars, outputVars
  <1> QED
    BY Zenon, <1>1, <1>2, <1>3, <1>4, <1>5, <1>6, <1>7, <1>8, <1>9, <1>10, <1>11, <1>12,
       <1>13, <1>14, <1>15, <1>16, <1>17, <1>18, <1>19, <1>20, <1>21, <1>22, <1>23, <1>24,
       <1>25, <1>26
       DEF ExecNext, HelperStep, GuestStep, CallerStep

\* What runs after the helper.
LEMMA HelperKept ==
    ASSUME ExecInv, [ExecNext]_execVars
    PROVE  HelperKeeps'
PROOF
  <1> USE DEF ExecInv, ExecTypeOK, HelperKeeps, Contained, callerVars, helperVars, guestVars, outputVars
  <1>1. CASE Start
    BY Zenon, <1>1 DEF Start, SpawnHelper
  <1>2. CASE JoinFails
    BY Zenon, <1>2 DEF JoinFails, HelperExits
  <1>3. CASE Fork
    BY Zenon, <1>3 DEF Fork
  <1>4. CASE ChildExited
    BY Zenon, <1>4 DEF ChildExited
  <1>5. CASE Sweep
    BY Zenon, <1>5 DEF Sweep, Doom
  <1>6. CASE Terminate
    BY Zenon, <1>6 DEF Terminate
  <1>7. CASE Kill
    BY Zenon, <1>7 DEF Kill, Doom
  <1>8. CASE Reap
    BY Zenon, <1>8 DEF Reap
  <1>9. CASE Exec
    BY Zenon, <1>9 DEF Exec
  <1>10. CASE ForkKid
    BY Zenon, <1>10 DEF ForkKid
  <1>11. CASE Escape
    BY Zenon, <1>11 DEF Escape
  <1>12. CASE Write
    BY Zenon, <1>12 DEF Write
  <1>13. CASE ChildDies
    BY Zenon, <1>13 DEF ChildDies
  <1>14. CASE KidDies
    BY Zenon, <1>14 DEF KidDies
  <1>15. CASE EscapedDies
    BY Zenon, <1>15 DEF EscapedDies
  <1>16. CASE InstanceDies
    BY Zenon, <1>16 DEF InstanceDies, KillHelper, HelperExits, Doom
  <1>17. CASE WriteStdin
    BY Zenon, <1>17 DEF WriteStdin
  <1>18. CASE TryWait
    BY Zenon, <1>18 DEF TryWait
  <1>19. CASE Overflow
    BY Zenon, <1>19 DEF Overflow, SignalHelper, HelperExits
  <1>20. CASE Deadline
    BY Zenon, <1>20 DEF Deadline, SignalHelper, HelperExits
  <1>21. CASE HelperGone
    BY Zenon, <1>21 DEF HelperGone
  <1>22. CASE GraceOver
    BY Zenon, <1>22 DEF GraceOver, KillHelper, HelperExits
  <1>23. CASE Finish
    BY Zenon, <1>23 DEF Finish, Eof, Alive, TooLong
  <1>24. CASE ReadOutput
    BY Zenon, <1>24 DEF ReadOutput
  <1>25. CASE RequestTimeout
    BY Zenon, <1>25 DEF RequestTimeout, KillHelper, HelperExits
  <1>26. CASE UNCHANGED execVars
    BY Zenon, <1>26 DEF execVars
  <1> HIDE DEF ExecInv, ExecTypeOK, HelperKeeps, Contained, callerVars, helperVars, guestVars, outputVars
  <1> QED
    BY Zenon, <1>1, <1>2, <1>3, <1>4, <1>5, <1>6, <1>7, <1>8, <1>9, <1>10, <1>11, <1>12,
       <1>13, <1>14, <1>15, <1>16, <1>17, <1>18, <1>19, <1>20, <1>21, <1>22, <1>23, <1>24,
       <1>25, <1>26
       DEF ExecNext, HelperStep, GuestStep, CallerStep

\* The helper's exit code.
LEMMA CodeKept ==
    ASSUME ExecInv, [ExecNext]_execVars
    PROVE  CodeTold'
PROOF
  <1> USE DEF ExecInv, ExecTypeOK, CodeTold, callerVars, helperVars, guestVars, outputVars
  <1>1. CASE Start
    BY Zenon, <1>1 DEF Start, SpawnHelper
  <1>2. CASE JoinFails
    BY Zenon, <1>2 DEF JoinFails, HelperExits
  <1>3. CASE Fork
    BY Zenon, <1>3 DEF Fork
  <1>4. CASE ChildExited
    BY Zenon, <1>4 DEF ChildExited
  <1>5. CASE Sweep
    BY Zenon, <1>5 DEF Sweep, Doom
  <1>6. CASE Terminate
    BY Zenon, <1>6 DEF Terminate
  <1>7. CASE Kill
    BY Zenon, <1>7 DEF Kill, Doom
  <1>8. CASE Reap
    BY Zenon, <1>8 DEF Reap
  <1>9. CASE Exec
    BY Zenon, <1>9 DEF Exec
  <1>10. CASE ForkKid
    BY Zenon, <1>10 DEF ForkKid
  <1>11. CASE Escape
    BY Zenon, <1>11 DEF Escape
  <1>12. CASE Write
    BY Zenon, <1>12 DEF Write
  <1>13. CASE ChildDies
    BY Zenon, <1>13 DEF ChildDies
  <1>14. CASE KidDies
    BY Zenon, <1>14 DEF KidDies
  <1>15. CASE EscapedDies
    BY Zenon, <1>15 DEF EscapedDies
  <1>16. CASE InstanceDies
    BY Zenon, <1>16 DEF InstanceDies, KillHelper, HelperExits, Doom
  <1>17. CASE WriteStdin
    BY Zenon, <1>17 DEF WriteStdin
  <1>18. CASE TryWait
    BY Zenon, <1>18 DEF TryWait
  <1>19. CASE Overflow
    BY Zenon, <1>19 DEF Overflow, SignalHelper, HelperExits
  <1>20. CASE Deadline
    BY Zenon, <1>20 DEF Deadline, SignalHelper, HelperExits
  <1>21. CASE HelperGone
    BY Zenon, <1>21 DEF HelperGone
  <1>22. CASE GraceOver
    BY Zenon, <1>22 DEF GraceOver, KillHelper, HelperExits
  <1>23. CASE Finish
    BY Zenon, <1>23 DEF Finish, Eof, Alive, TooLong
  <1>24. CASE ReadOutput
    BY Zenon, <1>24 DEF ReadOutput
  <1>25. CASE RequestTimeout
    BY Zenon, <1>25 DEF RequestTimeout, KillHelper, HelperExits
  <1>26. CASE UNCHANGED execVars
    BY Zenon, <1>26 DEF execVars
  <1> HIDE DEF ExecInv, ExecTypeOK, CodeTold, callerVars, helperVars, guestVars, outputVars
  <1> QED
    BY <1>1, <1>2, <1>3, <1>4, <1>5, <1>6, <1>7, <1>8, <1>9, <1>10, <1>11, <1>12,
       <1>13, <1>14, <1>15, <1>16, <1>17, <1>18, <1>19, <1>20, <1>21, <1>22, <1>23, <1>24,
       <1>25, <1>26
       DEF ExecNext, HelperStep, GuestStep, CallerStep

\* The result.
LEMMA ResultKept ==
    ASSUME ExecInv, [ExecNext]_execVars
    PROVE  ResultFinal'
PROOF
  <1> USE DEF ExecInv, ExecTypeOK, HelperKeeps, CodeTold, ResultFinal, Contained, callerVars, helperVars, guestVars, outputVars
  <1>1. CASE Start
    BY Zenon, <1>1, MaxOutputAssumption DEF Start, SpawnHelper
  <1>2. CASE JoinFails
    BY Zenon, <1>2, MaxOutputAssumption DEF JoinFails, HelperExits
  <1>3. CASE Fork
    BY Zenon, <1>3, MaxOutputAssumption DEF Fork
  <1>4. CASE ChildExited
    BY Zenon, <1>4, MaxOutputAssumption DEF ChildExited
  <1>5. CASE Sweep
    BY Zenon, <1>5, MaxOutputAssumption DEF Sweep, Doom
  <1>6. CASE Terminate
    BY Zenon, <1>6, MaxOutputAssumption DEF Terminate
  <1>7. CASE Kill
    BY Zenon, <1>7, MaxOutputAssumption DEF Kill, Doom
  <1>8. CASE Reap
    BY Zenon, <1>8, MaxOutputAssumption DEF Reap
  <1>9. CASE Exec
    BY Zenon, <1>9, MaxOutputAssumption DEF Exec
  <1>10. CASE ForkKid
    BY Zenon, <1>10, MaxOutputAssumption DEF ForkKid
  <1>11. CASE Escape
    BY Zenon, <1>11, MaxOutputAssumption DEF Escape
  <1>12. CASE Write
    BY Zenon, <1>12, MaxOutputAssumption DEF Write
  <1>13. CASE ChildDies
    BY Zenon, <1>13, MaxOutputAssumption DEF ChildDies
  <1>14. CASE KidDies
    BY Zenon, <1>14, MaxOutputAssumption DEF KidDies
  <1>15. CASE EscapedDies
    BY Zenon, <1>15, MaxOutputAssumption DEF EscapedDies
  <1>16. CASE InstanceDies
    BY Zenon, <1>16, MaxOutputAssumption DEF InstanceDies, KillHelper, HelperExits, Doom
  <1>17. CASE WriteStdin
    BY Zenon, <1>17, MaxOutputAssumption DEF WriteStdin
  <1>18. CASE TryWait
    BY Zenon, <1>18, MaxOutputAssumption DEF TryWait
  <1>19. CASE Overflow
    BY Zenon, <1>19, MaxOutputAssumption DEF Overflow, SignalHelper, HelperExits
  <1>20. CASE Deadline
    BY Zenon, <1>20, MaxOutputAssumption DEF Deadline, SignalHelper, HelperExits
  <1>21. CASE HelperGone
    BY Zenon, <1>21, MaxOutputAssumption DEF HelperGone
  <1>22. CASE GraceOver
    BY Zenon, <1>22, MaxOutputAssumption DEF GraceOver, KillHelper, HelperExits
  <1>23. CASE Finish
    BY <1>23, MaxOutputAssumption DEF Finish, Eof, Alive, TooLong
  <1>24. CASE ReadOutput
    BY Zenon, <1>24, MaxOutputAssumption DEF ReadOutput
  <1>25. CASE RequestTimeout
    BY Zenon, <1>25, MaxOutputAssumption DEF RequestTimeout, KillHelper, HelperExits
  <1>26. CASE UNCHANGED execVars
    BY Zenon, <1>26 DEF execVars
  <1> HIDE DEF ExecInv, ExecTypeOK, HelperKeeps, CodeTold, ResultFinal, Contained, callerVars, helperVars, guestVars, outputVars
  <1> QED
    BY <1>1, <1>2, <1>3, <1>4, <1>5, <1>6, <1>7, <1>8, <1>9, <1>10, <1>11, <1>12,
       <1>13, <1>14, <1>15, <1>16, <1>17, <1>18, <1>19, <1>20, <1>21, <1>22, <1>23, <1>24,
       <1>25, <1>26
       DEF ExecNext, HelperStep, GuestStep, CallerStep

LEMMA ExecInvariant == ExecSpec => []ExecInv
PROOF
  <1>1. ExecInit => ExecInv
    <2> SUFFICES ASSUME ExecInit PROVE ExecInv
      OBVIOUS
    <2>1. ExecTypeOK
      <3>1. captured \in 0..MaxOutput + 1
        BY MaxOutputAssumption DEF ExecInit
      <3> QED
        BY Zenon, <3>1 DEF ExecInit, ExecTypeOK
    <2>2. HelperKeeps /\ CodeTold /\ ResultFinal
      BY Zenon DEF ExecInit, HelperKeeps, CodeTold, ResultFinal
    <2> QED
      BY <2>1, <2>2 DEF ExecInv
  <1>2. ExecInv /\ [ExecNext]_execVars => ExecInv'
    BY Zenon, ExecTypes, HelperKept, CodeKept, ResultKept DEF ExecInv
  <1> QED
    BY <1>1, <1>2, PTL DEF ExecSpec

\* The helper's and the caller's variables keep their types.
THEOREM ExecTypeCorrect == ExecSpec => []ExecTypeOK
PROOF
  <1>1. ExecInv => ExecTypeOK
    BY DEF ExecInv
  <1> QED
    BY <1>1, ExecInvariant, PTL

\* run_capture returns only after the helper has ended, and the helper ends only
\* after it has killed the command's group: nothing of the group runs on, in every
\* order of the command's exit, the limit, the deadline and the output.
THEOREM CommandsContained == ExecSpec => []CommandContained
PROOF
  <1>1. ExecInv => CommandContained
    BY Zenon DEF ExecInv, HelperKeeps, Contained, CommandContained
  <1> QED
    BY <1>1, ExecInvariant, PTL

\* run_capture gives a result only for a command that was not stopped, with all it
\* wrote, and nothing is written or read after that.
THEOREM ResultsWhole == ExecSpec => []ResultWhole
PROOF
  <1>1. ExecInv => ResultWhole
    BY Zenon DEF ExecInv, ExecTypeOK, HelperKeeps, CodeTold, ResultFinal, ResultWhole
  <1> QED
    BY <1>1, ExecInvariant, PTL

-----------------------------------------------------------------------------
(* Consoles *)

\* A console that is served, and asked for by nobody else, has its entry and its
\* threads.
Attached(o) ==
    task[o] \in {"connecting", "live", "sending"} /\ ~Contested(o) /\ shell[o] = "up"
    => /\ sessions[sid[o]] = o
       /\ reader[o] \in {"poll", "send"}
       /\ writer[o] \in {"recv", "stuck"}

ConsoleInv == ConsoleTypeOK /\ \A o \in Opens : Attached(o)

\* The types of the consoles' variables.
LEMMA ConsoleTypes ==
    ASSUME ConsoleTypeOK, [ConsoleNext]_consoleVars
    PROVE  ConsoleTypeOK'
PROOF
  <1> USE DEF ConsoleTypeOK
  <1>1. ASSUME NEW o \in Opens,
               Open(o) \/ OpenFails(o) \/ OpenDone(o)
        PROVE  ConsoleTypeOK'
    BY <1>1 DEF Open, OpenFails, OpenDone, Spawn, Post, ttyVars
  <1>2. ASSUME NEW o \in Opens, Cancelled(o) \/ Output(o) \/ OutputEnds(o)
        PROVE  ConsoleTypeOK'
    BY ZenonT(30), <1>2 DEF Cancelled, Output, OutputEnds, Leave, Post, ttyVars
  <1>3. ASSUME NEW o \in Opens, ReaderReads(o) \/ Reader(o)
        PROVE  ConsoleTypeOK'
    BY Zenon, <1>3 DEF ReaderReads, Reader, ReaderSees, ReaderSendFails, ReaderReaps, ReaderLets, agentVars
  <1>4. ASSUME NEW o \in Opens, WriterEnds(o) \/ ShellExits(o) \/ Hangup(o)
        PROVE  ConsoleTypeOK'
    BY Zenon, <1>4 DEF WriterEnds, ShellExits, Hangup, agentVars
  <1>5. ASSUME NEW s \in Sids, Input(s) \/ Close(s)
        PROVE  ConsoleTypeOK'
    BY ZenonT(30), <1>5 DEF Input, Close, agentVars, ttyVars
  <1>6. CASE CloseAll \/ Congest
    BY Zenon, <1>6 DEF CloseAll, Congest, ttyVars
  <1>7. CASE Transmit
    BY <1>7 DEF Transmit, Unblocked, ttyVars
  <1>8. CASE TransmitEnds
    BY <1>8 DEF TransmitEnds, Unblocked, ttyVars
  <1>9. CASE UNCHANGED consoleVars
    BY Zenon, <1>9 DEF consoleVars, agentVars, ttyVars
  <1> QED
    BY Zenon, <1>1, <1>2, <1>3, <1>4, <1>5, <1>6, <1>7, <1>8, <1>9 DEF ConsoleNext

\* A command that was taken up stays taken up, under its identifier.
LEMMA StaysOpened ==
    ASSUME ConsoleTypeOK, [ConsoleNext]_consoleVars
    PROVE  sid' = sid /\ \A p \in Opens : task[p] # "none" => task'[p] # "none"
PROOF
  <1> USE DEF ConsoleTypeOK
  <1>1. ASSUME NEW o \in Opens, Open(o) \/ OpenFails(o) \/ OpenDone(o)
        PROVE  sid' = sid /\ \A p \in Opens : task[p] # "none" => task'[p] # "none"
    BY Zenon, <1>1 DEF Open, OpenFails, OpenDone, Post
  <1>2. ASSUME NEW o \in Opens, Cancelled(o) \/ Output(o) \/ OutputEnds(o)
        PROVE  sid' = sid /\ \A p \in Opens : task[p] # "none" => task'[p] # "none"
    BY ZenonT(30), <1>2 DEF Cancelled, Output, OutputEnds, Leave, Post
  <1>3. ASSUME NEW o \in Opens,
               \/ ReaderReads(o) \/ Reader(o)
               \/ WriterEnds(o) \/ ShellExits(o) \/ Hangup(o)
        PROVE  sid' = sid /\ task' = task
    BY Zenon, <1>3 DEF ReaderReads, Reader, ReaderSees, ReaderSendFails, ReaderReaps, ReaderLets,
                WriterEnds, ShellExits, Hangup, agentVars
  <1>4. ASSUME NEW s \in Sids, Input(s) \/ Close(s)
        PROVE  sid' = sid /\ task' = task
    BY Zenon, <1>4 DEF Input, Close, agentVars
  <1>5. CASE CloseAll \/ Congest
    BY Zenon, <1>5 DEF CloseAll, Congest
  <1>6. CASE Transmit
    BY <1>6 DEF Transmit, Unblocked
  <1>7. CASE TransmitEnds
    BY <1>7 DEF TransmitEnds, Unblocked
  <1>8. CASE UNCHANGED consoleVars
    BY Zenon, <1>8 DEF consoleVars, agentVars
  <1> QED
    BY Zenon, <1>1, <1>2, <1>3, <1>4, <1>5, <1>6, <1>7, <1>8 DEF ConsoleNext

\* A served console loses its entry only to a command with its identifier, and its
\* threads let go only after the entry, the task or the shell is gone.
LEMMA AttachedNext ==
    ASSUME ConsoleInv, [ConsoleNext]_consoleVars, NEW o \in Opens
    PROVE  Attached(o)'
PROOF
  <1> DEFINE Served == task[o] \in {"connecting", "live", "sending"} /\ shell[o] = "up"
             Bound == /\ sessions[sid[o]] = o
                      /\ reader[o] \in {"poll", "send"}
                      /\ writer[o] \in {"recv", "stuck"}
  <1>1. sid' = sid /\ \A p \in Opens : task[p] # "none" => task'[p] # "none"
    BY Zenon, StaysOpened DEF ConsoleInv
  <1> SUFFICES ASSUME Served', ~Contested(o)'
               PROVE  Bound'
    BY Zenon DEF Attached
  <1>2. \A p \in Opens : p # o /\ sid[p] = sid[o] => task[p] = "none" /\ task'[p] = "none"
    BY Zenon, <1>1 DEF Contested
  <1>3. Served => Bound
    BY Zenon, <1>2 DEF ConsoleInv, Attached, Contested
  <1>4. ConsoleTypeOK
    BY Zenon DEF ConsoleInv
  <1> USE <1>1, <1>2, <1>3, <1>4 DEF ConsoleTypeOK
  <1>5. ASSUME NEW p \in Opens, Open(p) \/ OpenFails(p)
        PROVE  Bound'
    BY ZenonT(30), <1>5 DEF Open, OpenFails, Post, ttyVars
  <1>6. ASSUME NEW p \in Opens, OpenDone(p)
        PROVE  Bound'
    <2>1. CASE p = o
      BY Zenon, <1>6, <2>1 DEF OpenDone, Spawn
    <2>2. CASE p # o
      <3>1. sid[p] # sid[o]
        BY Zenon, <1>6, <2>2 DEF OpenDone
      <3>2. Served
        BY Zenon, <1>6, <2>2 DEF OpenDone, Post, Spawn
      <3> QED
        BY Zenon, <1>6, <2>2, <3>1, <3>2 DEF OpenDone, Spawn
    <2> QED
      BY Zenon, <2>1, <2>2
  <1>7. ASSUME NEW p \in Opens, Cancelled(p) \/ OutputEnds(p) \/ Output(p)
        PROVE  Bound'
    <2>1. CASE p = o
      BY ZenonT(30), <1>7, <2>1 DEF Cancelled, OutputEnds, Output, Leave, Post, ttyVars
    <2>2. CASE p # o
      <3>1. sid[p] # sid[o]
        BY Zenon, <1>7, <2>2 DEF Cancelled, OutputEnds, Output
      <3>2. Served
        BY ZenonT(30), <1>7, <2>2 DEF Cancelled, OutputEnds, Output, Leave, Post, ttyVars
      <3> QED
        BY <1>7, <2>2, <3>1, <3>2 DEF Cancelled, OutputEnds, Output, Leave, ttyVars
    <2> QED
      BY <2>1, <2>2
  <1>8. ASSUME NEW p \in Opens, ReaderReads(p) \/ Reader(p)
        PROVE  Bound'
    BY ZenonT(30), <1>8 DEF ReaderReads, Reader, ReaderSees, ReaderSendFails, ReaderReaps, ReaderLets,
                agentVars, closed, HasReceiver
  <1>9. ASSUME NEW p \in Opens, WriterEnds(p)
        PROVE  Bound'
    BY Zenon, <1>9 DEF WriterEnds, WriterEnded, HasInputSender, agentVars
  <1>10. ASSUME NEW p \in Opens, ShellExits(p) \/ Hangup(p)
        PROVE  Bound'
    BY Zenon, <1>10 DEF ShellExits, Hangup, agentVars
  <1>11. ASSUME NEW s \in Sids, Input(s) \/ Close(s)
        PROVE  Bound'
    BY ZenonT(30), <1>11 DEF Input, Close, agentVars, ttyVars
  <1>12. CASE CloseAll \/ Congest
    BY Zenon, <1>12 DEF CloseAll, Congest, ttyVars
  <1>13. CASE Transmit
    BY <1>13 DEF Transmit, Unblocked, ttyVars
  <1>14. CASE TransmitEnds
    <2>1. Served /\ task[o] # "sending"
      BY <1>14 DEF TransmitEnds, Unblocked, ttyVars
    <2>2. ~\E p \in Opens : task[p] = "sending" /\ sid[p] = sid[o]
      BY Zenon, <2>1
    <2> QED
      BY Zenon, <1>14, <2>1, <2>2 DEF TransmitEnds, ttyVars
  <1>15. CASE UNCHANGED consoleVars
    BY Zenon, <1>15 DEF consoleVars, agentVars, ttyVars
  <1> HIDE DEF Bound, Served
  <1> QED
    BY Zenon, <1>5, <1>6, <1>7, <1>8, <1>9, <1>10, <1>11, <1>12, <1>13, <1>14, <1>15 DEF ConsoleNext

LEMMA ConsoleInvariant == ConsoleSpec => []ConsoleInv
PROOF
  <1>1. ConsoleInit => ConsoleInv
    BY Zenon DEF ConsoleInit, ConsoleInv, ConsoleTypeOK, Attached
  <1>2. ConsoleInv /\ [ConsoleNext]_consoleVars => ConsoleInv'
    BY Zenon, ConsoleTypes, AttachedNext DEF ConsoleInv
  <1> QED
    BY <1>1, <1>2, PTL DEF ConsoleSpec

\* The consoles' variables keep their types.
THEOREM ConsoleTypeCorrect == ConsoleSpec => []ConsoleTypeOK
PROOF
  <1>1. ConsoleInv => ConsoleTypeOK
    BY DEF ConsoleInv
  <1> QED
    BY <1>1, ConsoleInvariant, PTL

\* Consoles::run and the threads of ExecTarget::console: a console whose identifier
\* nobody else uses keeps its entry and its terminal while its task serves it and its
\* shell runs, whatever the other consoles and the stream do.
THEOREM ConsolesStayAttached == ConsoleSpec => []StaysAttached
PROOF
  <1>1. ConsoleInv => StaysAttached
    BY Zenon DEF ConsoleInv, Attached, StaysAttached, Holders, HasResizeSender
  <1> QED
    BY <1>1, ConsoleInvariant, PTL
=============================================================================
