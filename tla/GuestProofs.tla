---------------------------- MODULE GuestProofs -----------------------------
(***************************************************************************)
(* Proofs about what a guest is made of.  Supervisor, for any number of    *)
(* launches, boots, restarts and failures: what the handshake ensures,     *)
(* what a unit leaves behind, and that the processes implement the steps   *)
(* of InstanceUnit.  Images, for any images, instances, published versions *)
(* and builds: that the version an instance is mounted over is kept, and   *)
(* that builds clean up behind themselves.                                 *)
(***************************************************************************)
EXTENDS Supervisor, Images, TLAPS

-----------------------------------------------------------------------------
(* The supervisor *)

\* There are no processes of a guest.
Empty == sv \in {"off", "prep", "boot", "delay"}

\* The handshake of the current boot was completed and its guest is not yet
\* cleaned up.
Completed == sv = "loop" \/ (sv = "clean" /\ out # "Err")

\* Who has written and read which tag and go byte, and what is in place by then.
\* A dead intermediate may have died at any of these points.
HandshakeU ==
    sv = "U" =>
        /\ midCg = "supervisor" /\ init = "none" /\ go = <<>>
        /\ \/ mid \in {"new", "dead"} /\ tags = <<>>
           \/ mid \in {"1", "dead"} /\ tags = <<"U">>
           \/ mid = "dead" /\ tags = <<"E">>

HandshakeN ==
    sv = "N" =>
        /\ midCg = "ct" /\ layers /\ init = "none"
        /\ \/ mid \in {"1", "dead"} /\ tags = <<>> /\ go = <<"1">>
           \/ mid \in {"2", "dead"} /\ tags = <<"N">> /\ go = <<>>
           \/ mid = "dead" /\ tags = <<"E">> /\ go = <<>>

HandshakeP ==
    sv = "P" =>
        /\ midCg = "ct" /\ layers /\ devices
        /\ \/ mid \in {"2", "dead"} /\ tags = <<>> /\ go = <<"2">> /\ init = "none"
           \/ mid \in {"root", "dev", "dead"} /\ tags = <<>> /\ go = <<>> /\ init = "none"
           \/ mid = "dead" /\ tags = <<"E">> /\ go = <<>> /\ init = "none"
           \/ /\ mid \in {"forked", "dead"} /\ tags = <<>> /\ go = <<>>
              /\ init \in {"setup", "ready", "dead"}
           \/ /\ mid \in {"wait", "dead"} /\ tags = <<"P">> /\ go = <<>>
              /\ init \in {"setup", "ready", "dead"}

\* After it, until the boot is cleaned up.
Running ==
    Completed =>
        /\ midCg = "supervisor" /\ layers /\ devices
        /\ tags = <<>> /\ go \in {<<>>, <<"3">>}
        /\ init \in {"setup", "ready", "run", "dead"}
        /\ sv = "loop" \/ out = "RunErr" => mid \in {"wait", "dead"}
        /\ sv = "clean" /\ out # "RunErr" => mid = "none"

\* A failed boot leaves at most a pid 1 that was not let go.
Failed ==
    sv = "clean" /\ out = "Err" =>
        /\ mid = "none" /\ init # "run"
        /\ InitAlive => go = <<>>
        /\ tags = <<>> /\ go \in {<<>>, <<"1">>, <<"2">>, <<"3">>}

\* Between boots nothing is left but bytes in pipes that the next boot replaces.
Between ==
    Empty => /\ mid = "none" /\ init \in {"none", "dead"}
             /\ tags = <<>> /\ go \in {<<>>, <<"1">>, <<"2">>, <<"3">>}

\* Where the flags of the unit stand.
Flags ==
    /\ sv \in {"U", "N", "P", "loop"} => out = "none"
    /\ sv = "clean" => out # "none"
    /\ sv # "off" => broken = "no"
    /\ "TERM" \in pend => stop # "no"
    /\ stopRequested => sv \in {"loop", "clean"}
    /\ sv # "off" => (stopRequested <=> stop = "seen")
    /\ sv = "off" => pend = {}

\* What an ended unit and a launch that still waits may rely on.
Left ==
    /\ sv = "delay" \/ (sv = "off" /\ broken # "killed") => ~devices /\ ~pidFile
    /\ agent = "starting" /\ pidFile => released

Handshake == HandshakeU /\ HandshakeN /\ HandshakeP /\ Running /\ Failed /\ Between

\* TypeOK without the pipes, whose contents Handshake says.
Types ==
    /\ sv \in {"off", "prep", "boot", "U", "N", "P", "loop", "clean", "delay"}
    /\ mid \in {"none", "new", "1", "2", "root", "dev", "forked", "wait", "dead"}
    /\ midCg \in {"supervisor", "ct"}
    /\ init \in {"none", "setup", "ready", "run", "dead"}
    /\ status \in {"none", "hup", "zero", "other"}
    /\ pend \subseteq {"TERM", "CHLD"}
    /\ crashes \in 0..CrashRestarts
    /\ out \in {"none", "Reboot", "Halted", "Other", "Err", "RunErr"}
    /\ agent \in {"idle", "starting", "forcing"}
    /\ stop \in {"no", "sent", "seen"}
    /\ broken \in {"no", "error", "killed"}
    /\ starts \in 0..MaxStarts /\ boots \in 0..MaxBoots
    /\ faults \in 0..MaxFaults

Switches ==
    /\ stopRequested \in BOOLEAN /\ deadline \in BOOLEAN
    /\ pidFile \in BOOLEAN /\ devices \in BOOLEAN /\ layers \in BOOLEAN
    /\ released \in BOOLEAN /\ reported \in BOOLEAN

IInv == Types /\ Switches /\ Handshake /\ Flags /\ Left

-----------------------------------------------------------------------------
(* The invariant *)

\* A pipe that was empty holds what is written to it.
LEMMA Pipes ==
    /\ \A x : Append(<<>>, x) = <<x>> /\ <<x>> # <<>>
    /\ \A x, y : <<x>> = <<y>> => x = y
OBVIOUS

\* The agent and systemd.
LEMMA AgentSwitches ==
    ASSUME Switches, Launch \/ Await \/ SendStop \/ Interrupt \/ StopTimeout \/ ForceKill \/ ForceEnds
    PROVE  Switches'
<1>1. CASE Launch
  BY <1>1, Zenon DEF Switches, Launch, pipes, host, hist
<1>2. CASE Await
  BY <1>2, Zenon DEF Switches, Await, pipes, host, hist
<1>3. CASE SendStop
  BY <1>3, Zenon DEF Switches, SendStop, pipes, host, hist
<1>4. CASE Interrupt
  BY <1>4, Zenon DEF Switches, Interrupt, Fault, pipes, host, hist
<1>5. CASE StopTimeout
  BY <1>5, Zenon DEF Switches, StopTimeout, UnitGone, pipes, host, hist
<1>6. CASE ForceKill
  BY <1>6, Zenon DEF Switches, ForceKill, Fault, KillCt, pipes, host, hist
<1>7. CASE ForceEnds
  BY <1>7, Zenon DEF Switches, ForceEnds, pipes, host, hist
<1> QED
  BY <1>1, <1>2, <1>3, <1>4, <1>5, <1>6, <1>7

LEMMA AgentInv ==
    ASSUME IInv, Launch \/ Await \/ SendStop \/ Interrupt \/ StopTimeout \/ ForceKill \/ ForceEnds
    PROVE  IInv'
<1>0. Switches'
  BY AgentSwitches DEF IInv
<1> USE <1>0, Pipes, SupervisorAssumption
      DEF IInv, Types, Flags, Left, Handshake, HandshakeU, HandshakeN, HandshakeP, Running,
          Failed, Between, Empty, Completed, InitAlive, MidAlive, pipes, host, hist, svVars
<1>1. CASE Launch
  BY <1>1 DEF Launch
<1>2. CASE Await
  BY <1>2 DEF Await
<1>3. CASE SendStop
  BY <1>3 DEF SendStop
<1>4. CASE Interrupt
  BY <1>4 DEF Interrupt, Fault
<1>5. CASE StopTimeout
  BY Zenon, <1>5 DEF StopTimeout, UnitGone
<1>6. CASE ForceKill
  BY <1>6 DEF ForceKill, Fault, KillCt
<1>7. CASE ForceEnds
  <2>1. pend' \subseteq {"TERM", "CHLD"}
    BY Zenon, <1>7 DEF ForceEnds
  <2>2. Types'
    BY <1>7, <2>1 DEF ForceEnds
  <2>3. Handshake'
    BY ZenonT(30), <1>7 DEF ForceEnds
  <2> QED
    BY ZenonT(30), <1>7, <2>2, <2>3 DEF ForceEnds
<1> QED
  BY Zenon, <1>1, <1>2, <1>3, <1>4, <1>5, <1>6, <1>7

\* The supervisor.
LEMMA SupervisorSwitches ==
    ASSUME Switches, SupervisorStep
    PROVE  Switches'
<1>1. CASE Setup
  BY <1>1, Zenon DEF Switches, Setup, pipes, host, hist
<1>2. CASE SetupFails
  BY <1>2, Zenon DEF Switches, SetupFails, Fault, UnitGone, pipes, host, hist
<1>3. CASE Boot
  BY <1>3, Zenon DEF Switches, Boot, Fault, pipes, host, hist
<1>4. CASE GotU
  BY <1>4, Zenon DEF Switches, GotU, Proceed, pipes, host, hist
<1>5. CASE GotN
  BY <1>5, Zenon DEF Switches, GotN, Proceed, pipes, host, hist
<1>6. CASE GotP
  BY <1>6, Zenon DEF Switches, GotP, Proceed, pipes, host, hist
<1>7. CASE LaunchFails
  BY <1>7, Zenon DEF Switches, LaunchFails, Fault, pipes, host, hist
<1>8. CASE ReadTerm
  BY <1>8, Zenon DEF Switches, ReadTerm, pipes, host, hist
<1>9. CASE ReadChld
  BY <1>9, Zenon DEF Switches, ReadChld, pipes, host, hist
<1>10. CASE GracefulTimeout
  BY <1>10, Zenon DEF Switches, GracefulTimeout, KillCt, pipes, host, hist
<1>11. CASE LoopFails
  BY <1>11, Zenon DEF Switches, LoopFails, Fault, pipes, host, hist
<1>12. CASE Clean
  BY <1>12, Zenon DEF Switches, Clean, Decide, Exit, GoOn, UnitGone, Fault, pipes,
     host, hist
<1>13. CASE DelaySignal
  BY <1>13, Zenon DEF Switches, DelaySignal, Exit, UnitGone, pipes, host, hist
<1>14. CASE DelayOver
  BY <1>14, Zenon DEF Switches, DelayOver, pipes, host, hist
<1> QED
  BY <1>1, <1>2, <1>3, <1>4, <1>5, <1>6, <1>7, <1>8, <1>9, <1>10, <1>11, <1>12,
     <1>13, <1>14 DEF SupervisorStep

LEMMA SupervisorInv ==
    ASSUME IInv, SupervisorStep
    PROVE  IInv'
<1>0. Switches'
  BY SupervisorSwitches DEF IInv
<1> USE <1>0, Pipes, SupervisorAssumption
      DEF IInv, Types, Flags, Left, Handshake, HandshakeU, HandshakeN, HandshakeP, Running,
          Failed, Between, Empty, Completed, InitAlive, MidAlive, pipes, host, hist, svVars
<1>1. CASE Setup
  BY <1>1 DEF Setup
<1>2. CASE SetupFails
  BY <1>2 DEF SetupFails, Fault, UnitGone
<1>3. CASE Boot
  BY <1>3 DEF Boot, Fault
<1>4. CASE GotU
  <2>1. Types'
    BY Zenon, <1>4 DEF GotU, Proceed
  <2>2. Handshake'
    BY Zenon, <1>4 DEF GotU, Proceed
  <2>3. Flags'
    BY Zenon, <1>4 DEF GotU, Proceed
  <2>4. Left'
    BY Zenon, <1>4 DEF GotU, Proceed
  <2> HIDE DEF Types, Handshake, Flags, Left
  <2> QED
    BY Zenon, <1>0, <2>1, <2>2, <2>3, <2>4 DEF IInv
<1>5. CASE GotN
  <2>1. Types'
    BY Zenon, <1>5 DEF GotN, Proceed
  <2>2. Handshake'
    BY Zenon, <1>5 DEF GotN, Proceed
  <2>3. Flags'
    BY Zenon, <1>5 DEF GotN, Proceed
  <2>4. Left'
    BY Zenon, <1>5 DEF GotN, Proceed
  <2> HIDE DEF Types, Handshake, Flags, Left
  <2> QED
    BY Zenon, <1>0, <2>1, <2>2, <2>3, <2>4 DEF IInv
<1>6. CASE GotP
  <2>1. Types'
    BY ZenonT(30), <1>6 DEF GotP, Proceed
  <2>2. Handshake'
    BY Zenon, <1>6 DEF GotP, Proceed
  <2>3. Flags'
    BY Zenon, <1>6 DEF GotP, Proceed
  <2>4. Left'
    BY Zenon, <1>6 DEF GotP, Proceed
  <2> HIDE DEF Types, Handshake, Flags, Left
  <2> QED
    BY Zenon, <1>0, <2>1, <2>2, <2>3, <2>4 DEF IInv
<1>7. CASE LaunchFails
  BY <1>7 DEF LaunchFails, Fault
<1>8. CASE ReadTerm
  BY <1>8 DEF ReadTerm
<1>9. CASE ReadChld
  BY <1>9 DEF ReadChld, Outcome
<1>10. CASE GracefulTimeout
  BY ZenonT(30), <1>10 DEF GracefulTimeout, KillCt
<1>11. CASE LoopFails
  BY <1>11 DEF LoopFails, Fault
<1>12. CASE Clean
  <2>1. pend' \subseteq {"TERM", "CHLD"}
    BY Zenon, <1>12 DEF Clean, Decide, Exit, GoOn, UnitGone, Fault
  <2>6. crashes' \in 0..CrashRestarts /\ faults' \in 0..MaxFaults
    <3>1. crashes' = crashes \/ (crashes' \in {1, crashes + 1} /\ crashes' <= CrashRestarts)
      BY Zenon, <1>12 DEF Clean, Decide, Exit, GoOn, UnitGone, Fault
    <3>2. faults' = faults \/ (faults < MaxFaults /\ faults' = faults + 1)
      BY Zenon, <1>12 DEF Clean, Decide, Exit, GoOn, UnitGone, Fault
    <3> QED
      BY <3>1, <3>2
  <2>7. /\ (sv \in {"off", "prep", "boot", "U", "N", "P", "loop", "clean", "delay"})'
        /\ (mid \in {"none", "new", "1", "2", "root", "dev", "forked", "wait", "dead"})'
        /\ (midCg \in {"supervisor", "ct"})'
    BY ZenonT(30), <1>12 DEF Clean, Decide, Exit, GoOn, UnitGone, Fault
  <2>8. /\ (init \in {"none", "setup", "ready", "run", "dead"})'
        /\ (status \in {"none", "hup", "zero", "other"})'
        /\ (out \in {"none", "Reboot", "Halted", "Other", "Err", "RunErr"})'
    BY ZenonT(30), <1>12 DEF Clean, Decide, Exit, GoOn, UnitGone, Fault
  <2>9. /\ UNCHANGED <<agent, stop, starts, boots>>
        /\ (broken \in {"no", "error", "killed"})'
    BY ZenonT(30), <1>12 DEF Clean, Decide, Exit, GoOn, UnitGone, Fault
  <2>2. Types'
    BY Zenon, <2>1, <2>6, <2>7, <2>8, <2>9
  <2>3. Handshake'
    BY ZenonT(30), <1>12 DEF Clean, Decide, Exit, GoOn, UnitGone, Fault
  <2>4. Flags'
    <3>1. /\ (sv \in {"U", "N", "P", "loop"} => out = "none")'
          /\ (sv = "clean" => out # "none")' /\ (sv # "off" => broken = "no")'
      BY Zenon, <1>12 DEF Clean, Decide, Exit, GoOn, UnitGone, Fault
    <3>2. (stopRequested => sv \in {"loop", "clean"})'
      BY Zenon, <1>12 DEF Clean, Decide, Exit, GoOn, UnitGone, Fault
    <3>3. (sv # "off" => (stopRequested <=> stop = "seen"))'
      BY Zenon, <1>12 DEF Clean, Decide, Exit, GoOn, UnitGone, Fault
    <3>4. (sv = "off" => pend = {})'
      BY Zenon, <1>12 DEF Clean, Decide, Exit, GoOn, UnitGone, Fault
    <3>5. ("TERM" \in pend => stop # "no")'
      <4>1. pend' = {} \/ (pend' = pend \cup {"CHLD"} /\ stop' = stop)
        BY Zenon, <1>12 DEF Clean, Decide, Exit, GoOn, UnitGone, Fault
      <4>2. "TERM" \in pend => stop # "no"
        BY Zenon
      <4> QED
        BY <4>1, <4>2
    <3> QED
      BY Zenon, <3>1, <3>2, <3>3, <3>4, <3>5
  <2>5. Left'
    BY Zenon, <1>12 DEF Clean, Decide, Exit, GoOn, UnitGone, Fault
  <2> HIDE DEF Types, Handshake, Flags, Left
  <2> QED
    BY Zenon, <1>0, <2>2, <2>3, <2>4, <2>5 DEF IInv
<1>13. CASE DelaySignal
  BY <1>13 DEF DelaySignal, Exit, UnitGone
<1>14. CASE DelayOver
  BY <1>14 DEF DelayOver
<1> QED
  BY Zenon, <1>1, <1>2, <1>3, <1>4, <1>5, <1>6, <1>7, <1>8, <1>9, <1>10, <1>11, <1>12,
     <1>13, <1>14 DEF SupervisorStep

\* The intermediate, pid 1 and the guest.
LEMMA ContainerSwitches ==
    ASSUME Switches, ContainerStep \/ GuestEnds
    PROVE  Switches'
<1>1. CASE MidU
  BY <1>1, Zenon DEF Switches, MidU, MidStep, MidFails, MidEnds, Fault, svVars,
     pipes, host, hist
<1>2. CASE MidN
  BY <1>2, Zenon DEF Switches, MidN, MidStep, MidFails, MidEnds, Fault, svVars,
     pipes, host, hist
<1>3. CASE MidRoot
  BY <1>3, Zenon DEF Switches, MidRoot, MidFails, MidEnds, Fault, svVars, pipes,
     host, hist
<1>4. CASE MidDev
  BY <1>4, Zenon DEF Switches, MidDev, MidFails, MidEnds, Fault, svVars, pipes,
     host, hist
<1>5. CASE MidFork
  BY <1>5, Zenon DEF Switches, MidFork, MidFails, MidEnds, Fault, svVars, pipes,
     host, hist
<1>6. CASE MidP
  BY <1>6, Zenon DEF Switches, MidP, svVars, pipes, host, hist
<1>7. CASE MidExit
  BY <1>7, Zenon DEF Switches, MidExit, MidEnds, svVars, pipes, host, hist
<1>8. CASE MidKilled
  BY <1>8, Zenon DEF Switches, MidKilled, MidEnds, Fault, svVars, pipes, host,
     hist
<1>9. CASE InitSetup
  BY <1>9, Zenon DEF Switches, InitSetup, InitEnds, Fault, svVars, pipes, host,
     hist
<1>10. CASE InitGo
  BY <1>10, Zenon DEF Switches, InitGo, InitEnds, svVars, pipes, host, hist
<1>11. CASE GuestEnds
  BY <1>11, Zenon DEF Switches, GuestEnds, InitEnds, svVars, pipes, host, hist
<1> QED
  BY <1>1, <1>2, <1>3, <1>4, <1>5, <1>6, <1>7, <1>8, <1>9, <1>10, <1>11 DEF
     ContainerStep

LEMMA ContainerInv ==
    ASSUME IInv, ContainerStep \/ GuestEnds
    PROVE  IInv'
<1>0. Switches'
  BY ContainerSwitches DEF IInv
<1> USE <1>0, Pipes, SupervisorAssumption
      DEF IInv, Types, Flags, Left, Handshake, HandshakeU, HandshakeN, HandshakeP, Running,
          Failed, Between, Empty, Completed, InitAlive, MidAlive, pipes, host, hist, svVars
<1>1. CASE MidU
  <2>1. pend' \subseteq {"TERM", "CHLD"}
    BY Zenon, <1>1 DEF MidU, MidStep, MidFails, MidEnds, Fault
  <2>2. Types'
    BY <1>1, <2>1 DEF MidU, MidStep, MidFails, MidEnds, Fault
  <2>3. Handshake'
    BY Zenon, <1>1 DEF MidU, MidStep, MidFails, MidEnds, Fault
  <2> QED
    BY Zenon, <1>1, <2>2, <2>3 DEF MidU, MidStep, MidFails, MidEnds, Fault
<1>2. CASE MidN
  <2>1. pend' \subseteq {"TERM", "CHLD"}
    BY Zenon, <1>2 DEF MidN, MidStep, MidFails, MidEnds, Fault
  <2>2. Types'
    BY <1>2, <2>1 DEF MidN, MidStep, MidFails, MidEnds, Fault
  <2>3. Handshake'
    BY Zenon, <1>2 DEF MidN, MidStep, MidFails, MidEnds, Fault
  <2> QED
    BY Zenon, <1>2, <2>2, <2>3 DEF MidN, MidStep, MidFails, MidEnds, Fault
<1>3. CASE MidRoot
  <2>1. pend' \subseteq {"TERM", "CHLD"}
    BY Zenon, <1>3 DEF MidRoot, MidFails, MidEnds, Fault
  <2>2. Types'
    BY <1>3, <2>1 DEF MidRoot, MidFails, MidEnds, Fault
  <2>3. Handshake'
    BY Zenon, <1>3 DEF MidRoot, MidFails, MidEnds, Fault
  <2> QED
    BY Zenon, <1>3, <2>2, <2>3 DEF MidRoot, MidFails, MidEnds, Fault
<1>4. CASE MidDev
  <2>1. pend' \subseteq {"TERM", "CHLD"}
    BY Zenon, <1>4 DEF MidDev, MidFails, MidEnds, Fault
  <2>2. Types'
    BY <1>4, <2>1 DEF MidDev, MidFails, MidEnds, Fault
  <2>3. Handshake'
    BY Zenon, <1>4 DEF MidDev, MidFails, MidEnds, Fault
  <2> QED
    BY Zenon, <1>4, <2>2, <2>3 DEF MidDev, MidFails, MidEnds, Fault
<1>5. CASE MidFork
  <2>1. pend' \subseteq {"TERM", "CHLD"}
    BY Zenon, <1>5 DEF MidFork, MidFails, MidEnds, Fault
  <2>2. Types'
    BY <1>5, <2>1 DEF MidFork, MidFails, MidEnds, Fault
  <2>3. Handshake'
    BY Zenon, <1>5 DEF MidFork, MidFails, MidEnds, Fault
  <2> QED
    BY Zenon, <1>5, <2>2, <2>3 DEF MidFork, MidFails, MidEnds, Fault
<1>6. CASE MidP
  <2>1. Types'
    BY Zenon, <1>6 DEF MidP
  <2>2. Handshake'
    BY Zenon, <1>6 DEF MidP
  <2>3. Flags'
    BY Zenon, <1>6 DEF MidP
  <2>4. Left'
    BY Zenon, <1>6 DEF MidP
  <2> HIDE DEF Types, Handshake, Flags, Left
  <2> QED
    BY Zenon, <1>0, <2>1, <2>2, <2>3, <2>4 DEF IInv
<1>7. CASE MidExit
  <2>1. Types'
    BY Zenon, <1>7 DEF MidExit, MidEnds
  <2>2. Handshake'
    BY Zenon, <1>7 DEF MidExit, MidEnds
  <2>3. Flags'
    BY Zenon, <1>7 DEF MidExit, MidEnds
  <2>4. Left'
    BY Zenon, <1>7 DEF MidExit, MidEnds
  <2> HIDE DEF Types, Handshake, Flags, Left
  <2> QED
    BY Zenon, <1>0, <2>1, <2>2, <2>3, <2>4 DEF IInv
<1>8. CASE MidKilled
  BY <1>8 DEF MidKilled, MidEnds, Fault
<1>9. CASE InitSetup
  BY <1>9 DEF InitSetup, InitEnds, Fault
<1>10. CASE InitGo
  BY <1>10 DEF InitGo, InitEnds
<1>11. CASE GuestEnds
  BY <1>11, SMTT(30) DEF GuestEnds, InitEnds
<1> QED
  BY Zenon, <1>1, <1>2, <1>3, <1>4, <1>5, <1>6, <1>7, <1>8, <1>9, <1>10, <1>11 DEF
     ContainerStep

-----------------------------------------------------------------------------
(* What it implies *)

LEMMA InvInit == Init => IInv
<1> SUFFICES ASSUME Init PROVE IInv
    OBVIOUS
<1>1. Switches
  BY Zenon DEF Init, Switches
<1> QED
  BY <1>1, SupervisorAssumption
     DEF Init, IInv, Types, Flags, Left, Handshake, HandshakeU, HandshakeN, HandshakeP,
         Running, Failed, Between, Empty, Completed, InitAlive

LEMMA InvNext == IInv /\ [Next]_vars => IInv'
<1> SUFFICES ASSUME IInv, [Next]_vars PROVE IInv'
    OBVIOUS
<1>1. CASE UNCHANGED vars
  BY <1>1, SMTT(30) DEF vars, IInv, Types, Switches, Flags, Left, Handshake, HandshakeU, HandshakeN,
     HandshakeP, Running, Failed, Between, Empty, Completed, InitAlive
<1> QED
  BY <1>1, AgentInv, SupervisorInv, ContainerInv DEF Next, Rest

LEMMA Invariant == Spec => []IInv
BY InvInit, InvNext, PTL DEF Spec

\* In every reachable state the variables have their types; in particular each
\* pipe holds one byte at most.
THEOREM TypeCorrect == Spec => []TypeOK
<1>1. IInv => TypeOK
  <2> SUFFICES ASSUME IInv PROVE TypeOK
      OBVIOUS
  <2>1. /\ tags \in {<<>>, <<"U">>, <<"N">>, <<"P">>, <<"E">>}
        /\ go \in {<<>>, <<"1">>, <<"2">>, <<"3">>}
    BY Zenon DEF IInv, Types, Handshake, HandshakeU, HandshakeN, HandshakeP, Running, Failed,
       Between, Empty, Completed
  <2>2. /\ tags \in Seq({"U", "N", "P", "E"}) /\ Len(tags) <= 1
        /\ go \in Seq({"1", "2", "3"}) /\ Len(go) <= 1
    <3>1. \A S : <<>> \in Seq(S) /\ \A x \in S : <<x>> \in Seq(S)
      OBVIOUS
    <3>2. Len(<<>>) = 0 /\ \A x : Len(<<x>>) = 1
      OBVIOUS
    <3>3. /\ tags = <<>> \/ \E x \in {"U", "N", "P", "E"} : tags = <<x>>
          /\ go = <<>> \/ \E x \in {"1", "2", "3"} : go = <<x>>
      BY <2>1, Zenon
    <3>4. tags \in Seq({"U", "N", "P", "E"}) /\ go \in Seq({"1", "2", "3"})
      BY <3>1, <3>3, Zenon
    <3>5. Len(tags) \in {0, 1} /\ Len(go) \in {0, 1}
      BY <3>2, <3>3, Zenon
    <3>6. \A n \in {0, 1} : n <= 1
      OBVIOUS
    <3> QED
      BY <3>4, <3>5, <3>6, Zenon
  <2> QED
    BY Zenon, <2>2 DEF IInv, Types, Switches, TypeOK
<1> QED
  BY <1>1, Invariant, PTL

\* Whatever is killed, signalled or fails, and in whatever order, the guest's
\* init only runs with its network and layers in place and the intermediate out
\* of its cgroup.
THEOREM GuestAlone == Spec => []InitAlone
<1>1. IInv => InitAlone
  BY Zenon DEF IInv, Types, Handshake, HandshakeU, HandshakeN, HandshakeP, Running, Failed,
     Between, Empty, Completed, InitAlone
<1> QED
  BY <1>1, Invariant, PTL

\* A unit that ended by itself has left neither devices nor init.pid behind.
THEOREM NothingLeftBehind == Spec => []NothingLeft
<1>1. IInv => NothingLeft
  BY DEF IInv, Left, NothingLeft
<1> QED
  BY <1>1, Invariant, PTL

-----------------------------------------------------------------------------
(* The steps of the unit *)

\* The agent and systemd.
LEMMA AgentUnit ==
    ASSUME IInv, Launch \/ Await \/ SendStop \/ Interrupt \/ StopTimeout \/ ForceKill \/ ForceEnds
    PROVE  [Unit!Next]_(Unit!vars)
<1> USE SupervisorAssumption
      DEF IInv, Types, Flags, Handshake, Running, Failed, Between, Empty, Completed,
          InitAlive, MidAlive, Phase, Guest, Outcome, Unit!vars, Unit!Next, pipes, host, hist,
          svVars
<1>1. CASE Launch
  BY Zenon, <1>1 DEF Launch, Unit!Start
<1>2. CASE Await
  BY ZenonT(30), <1>2 DEF Await
<1>3. CASE SendStop
  BY ZenonT(30), <1>3 DEF SendStop, Unit!SendStop
<1>4. CASE Interrupt
  BY ZenonT(30), <1>4 DEF Interrupt, Fault, Unit!SendStop
<1>5. CASE StopTimeout
  BY Zenon, <1>5 DEF StopTimeout, UnitGone, Unit!Fail
<1>6. CASE ForceKill
  BY <1>6 DEF ForceKill, Fault, KillCt
<1>7. CASE ForceEnds
  BY <1>7 DEF ForceEnds, Unit!SendStop
<1> QED
  BY Zenon, <1>1, <1>2, <1>3, <1>4, <1>5, <1>6, <1>7

\* The supervisor.
LEMMA SupervisorUnit ==
    ASSUME IInv, SupervisorStep
    PROVE  [Unit!Next]_(Unit!vars)
<1> USE SupervisorAssumption
      DEF IInv, Types, Flags, Handshake, Running, Failed, Between, Empty, Completed,
          InitAlive, MidAlive, Phase, Guest, Outcome, Unit!vars, Unit!Next, pipes, host, hist,
          svVars
<1>1. CASE Setup
  BY <1>1 DEF Setup
<1>2. CASE SetupFails
  BY Zenon, <1>2 DEF SetupFails, Fault, UnitGone, Unit!Fail
<1>3. CASE Boot
  BY Zenon, <1>3 DEF Boot, Fault
<1>4. CASE GotU
  BY <1>4 DEF GotU, Proceed
<1>5. CASE GotN
  BY Zenon, <1>5 DEF GotN, Proceed
<1>6. CASE GotP
  BY Zenon, <1>6 DEF GotP, Proceed, Unit!Up
<1>7. CASE LaunchFails
  BY Zenon, <1>7 DEF LaunchFails, Fault
<1>8. CASE ReadTerm
  BY Zenon, <1>8 DEF ReadTerm, Unit!SeeStop
<1>9. CASE ReadChld
  BY Zenon, <1>9 DEF ReadChld
<1>10. CASE GracefulTimeout
  BY Zenon, <1>10 DEF GracefulTimeout, KillCt
<1>11. CASE LoopFails
  BY Zenon, <1>11 DEF LoopFails, Fault
<1>12. CASE Clean
  <2>1. CASE devices' = FALSE /\ Decide
    <3>1. CASE out \in {"Err", "RunErr"} /\ Exit("error")
      BY <1>12, <3>1 DEF Clean, Exit, UnitGone, Unit!Fail
    <3>2. CASE out = "Reboot" /\ ~stopRequested /\ GoOn("boot", crashes)
      BY <1>12, <3>2 DEF Clean, GoOn, Unit!Reboot
    <3>3. CASE /\ out = "Other" /\ ~stopRequested
               /\ \E n \in {1, crashes + 1} :
                     IF n <= CrashRestarts THEN GoOn("delay", n) ELSE Exit("no")
      <4>1. PICK n \in {1, crashes + 1} :
                IF n <= CrashRestarts THEN GoOn("delay", n) ELSE Exit("no")
        BY Zenon, <3>3
      <4>2. CASE n <= CrashRestarts
        BY <1>12, <3>3, <4>1, <4>2 DEF Clean, GoOn, Unit!Crash
      <4>3. CASE ~ (n <= CrashRestarts)
        BY <1>12, <3>3, <4>1, <4>3 DEF Clean, Exit, UnitGone, Unit!End, Unit!MayEnd
      <4> QED
        BY Zenon, <4>2, <4>3
    <3>4. CASE out = "Halted" /\ Exit("no")
      BY <1>12, <3>4 DEF Clean, Exit, UnitGone, Unit!End, Unit!MayEnd
    <3>5. CASE out \in {"Reboot", "Other"} /\ stopRequested /\ Exit("no")
      BY <1>12, <3>5 DEF Clean, Exit, UnitGone, Unit!End, Unit!MayEnd
    <3> QED
      BY Zenon, <2>1, <3>1, <3>2, <3>3, <3>4, <3>5 DEF Decide
  <2>2. CASE ~ (devices' = FALSE /\ Decide)
    BY Zenon, <1>12, <2>2 DEF Clean, UnitGone, Fault, Unit!Fail
  <2> QED
    BY Zenon, <2>1, <2>2
<1>13. CASE DelaySignal
  BY ZenonT(30), <1>13 DEF DelaySignal, Exit, UnitGone, Unit!End, Unit!MayEnd
<1>14. CASE DelayOver
  BY Zenon, <1>14 DEF DelayOver, Unit!Retry
<1> QED
  BY Zenon, <1>1, <1>2, <1>3, <1>4, <1>5, <1>6, <1>7, <1>8, <1>9, <1>10, <1>11, <1>12,
     <1>13, <1>14 DEF SupervisorStep

\* The intermediate, pid 1 and the guest.
LEMMA ContainerUnit ==
    ASSUME IInv, ContainerStep \/ GuestEnds
    PROVE  [Unit!Next]_(Unit!vars)
<1> USE SupervisorAssumption
      DEF IInv, Types, Flags, Handshake, Running, Failed, Between, Empty, Completed,
          InitAlive, MidAlive, Phase, Guest, Outcome, Unit!vars, Unit!Next, pipes, host, hist,
          svVars
<1>1. CASE MidU
  BY Zenon, <1>1 DEF MidU, MidStep, MidFails, MidEnds, Fault
<1>2. CASE MidN
  BY Zenon, <1>2 DEF MidN, MidStep, MidFails, MidEnds, Fault
<1>3. CASE MidRoot
  BY Zenon, <1>3 DEF MidRoot, MidFails, MidEnds, Fault
<1>4. CASE MidDev
  BY Zenon, <1>4 DEF MidDev, MidFails, MidEnds, Fault
<1>5. CASE MidFork
  BY Zenon, <1>5 DEF MidFork, MidFails, MidEnds, Fault
<1>6. CASE MidP
  BY Zenon, <1>6 DEF MidP
<1>7. CASE MidExit
  BY ZenonT(30), <1>7 DEF MidExit, MidEnds, Unit!GuestEnds
<1>8. CASE MidKilled
  BY <1>8 DEF MidKilled, MidEnds, Fault, Unit!GuestEnds
<1>9. CASE InitSetup
  BY ZenonT(30), <1>9 DEF InitSetup, InitEnds, Fault
<1>10. CASE InitGo
  BY ZenonT(30), <1>10 DEF InitGo, InitEnds
<1>11. CASE GuestEnds
  BY ZenonT(30), <1>11 DEF GuestEnds, InitEnds
<1> QED
  BY Zenon, <1>1, <1>2, <1>3, <1>4, <1>5, <1>6, <1>7, <1>8, <1>9, <1>10, <1>11 DEF
     ContainerStep

\* Every step of the processes is, seen from outside, a step of the unit or
\* nothing: no boot after a noticed stop, no end without a reason, no more
\* restarts in a row than allowed.
THEOREM StepsOfUnit == Spec => Unit!Init /\ [][Unit!Next]_(Unit!vars)
<1>1. Init => Unit!Init
  BY DEF Init, Unit!Init, Phase, Guest
<1>2. IInv /\ [Next]_vars => [Unit!Next]_(Unit!vars)
  <2> SUFFICES ASSUME IInv, [Next]_vars PROVE [Unit!Next]_(Unit!vars)
      OBVIOUS
  <2>1. CASE UNCHANGED vars
    BY <2>1 DEF vars, Unit!vars, Phase, Guest, Outcome
  <2> QED
    BY <2>1, AgentUnit, SupervisorUnit, ContainerUnit DEF Next, Rest
<1> QED
  BY <1>1, <1>2, Invariant, PTL DEF Spec

\* launch never reports a start on account of an earlier unit's init.pid.
THEOREM StartsAreReal == Spec => []StartedIsReleased
<1>1. Init => StartedIsReleased
  BY DEF Init, StartedIsReleased
<1>2. IInv /\ StartedIsReleased /\ [Next]_vars => StartedIsReleased'
  BY Zenon DEF IInv, Left, StartedIsReleased, vars, Next, Launch, Await, SendStop, Interrupt,
     StopTimeout, ForceKill, ForceEnds, SupervisorStep, ContainerStep, GuestEnds, Rest,
     Setup, SetupFails, Boot, GotU, GotN, GotP, Proceed, LaunchFails, ReadTerm, ReadChld,
     GracefulTimeout, LoopFails, Clean, Decide, Exit, GoOn, DelaySignal, DelayOver, MidU,
     MidN, MidStep, MidRoot, MidDev, MidFork, MidP, MidExit, MidKilled, InitSetup, InitGo,
     hist, svVars
<1> QED
  BY <1>1, <1>2, Invariant, PTL DEF Spec

-----------------------------------------------------------------------------
(* Images: types *)

\* The parts of ImagesTypeOK.
StoreTypes ==
    /\ home \subseteq Images
    /\ dirs \in [Images -> SUBSET Serials]
    /\ current \in [Images -> Serials \cup {0}]
    /\ staging \subseteq {"live", "left"} /\ trees \subseteq {"live", "left"}

RecTypes ==
    /\ rec \in [Vms \cup Builders -> Versions \cup {NoRec}]
    /\ failed \subseteq Builders
    /\ creating \in [Vms -> Images \cup {NoImage}]

SyncTypes ==
    /\ published \in [Official -> 1..MaxPublished]
    /\ sync = [pc |-> sync.pc, todo |-> sync.todo, at |-> sync.at, want |-> sync.want]
    /\ sync.pc \in {"init", "doom", "idle", "entry", "fetch", "switch", "end", "gc"}
    /\ sync.todo \subseteq IF sync.pc = "doom" THEN Builders ELSE Official
    /\ sync.pc \in {"entry", "fetch", "switch"} => sync.want \in [Official -> 1..MaxPublished]
    /\ sync.pc \in {"fetch", "switch"} => sync.at \in Official

GcTypes ==
    gc \in [by : {"none", "refresh", "panel"}, used : SUBSET Versions,
            todo : SUBSET (Images \cup {".staging"}), at : Images \cup {NoImage},
            cur : Serials \cup {0}]

BuildTypes ==
    /\ build \in [pc : {"no", "create", "run", "install", "switch", "delete", "end"},
                  b : Builders \cup {0}, image : Images \cup {NoImage},
                  base : Images \cup {NoImage}, ok : BOOLEAN]
    /\ build.pc # "no" => build.b # 0 /\ NoImage \notin {build.image, build.base}
    /\ list \in [Builders -> {"none", "running", "succeeded", "failed"}]

PanelTypes ==
    /\ disabled \subseteq Images
    /\ removing \in Images \cup {NoImage}
    /\ blind \in BOOLEAN

CountTypes == ops \in 0..MaxOps /\ failures \in 0..MaxFailures

ImageTypes ==
    StoreTypes /\ RecTypes /\ SyncTypes /\ GcTypes /\ BuildTypes /\ PanelTypes /\ CountTypes

LEMMA ImageTypesAreTypeOK == ImageTypes <=> ImagesTypeOK
BY Zenon DEF ImageTypes, ImagesTypeOK, StoreTypes, RecTypes, SyncTypes, GcTypes, BuildTypes,
       PanelTypes, CountTypes

-----------------------------------------------------------------------------
(* The inductive invariant *)

\* A collection that could read the records knows every version in use: nothing is
\* claimed while it has the allocation lock.
Collecting ==
    /\ gc.at # NoImage => gc.by # "none"
    /\ ~blind /\ gc.by # "none" =>
          \A v \in Vms \cup Builders : rec[v] # NoRec => rec[v] \in gc.used

\* Builder b is gone, or known to be left.
Ended(b) == rec[b] = NoRec \/ b \in failed

\* The build in progress is listed as running.  It starts without an instance and ends
\* with none or with one that it could not remove; what an interrupted one has left is
\* on the list of init, or will be.
Builds ==
    /\ build.pc # "no" => list[build.b] = "running"
    /\ build.pc = "create" => rec[build.b] = NoRec
    /\ build.pc = "end" => Ended(build.b)
    /\ \A b \in Builders :
          /\ list[b] = "none" => rec[b] = NoRec
          /\ list[b] # "running" =>
                Ended(b) \/ sync.pc = "init" \/ (sync.pc = "doom" /\ b \in sync.todo)

\* The refresh task waits for its collection.
Refreshing == gc.by = "refresh" => sync.pc = "gc"

ImagesInv == ImageTypes /\ Collecting /\ LowerExists /\ Refreshing /\ Builds

-----------------------------------------------------------------------------
(* Types *)

LEMMA SerialTypes ==
    /\ \A n \in 1..MaxPublished : n \in Serials
    /\ \A b \in Builders : CustomSerial(b) \in Serials
    /\ 0 \notin Serials
BY ImagesAssumption DEF Serials, Builders, CustomSerial

\* What Claim gives is a version that is there, or nothing.
LEMMA Claimed ==
    ASSUME StoreTypes, NEW i \in Images
    PROVE  /\ Claim(i) \in Versions \cup {NoRec}
           /\ Claim(i) # NoRec =>
                 Claim(i).image \in Images /\ Claim(i).serial \in dirs[Claim(i).image]
           /\ Resolved(i) \in Serials \cup {0}
           /\ i \notin Ready => Claim(i) = NoRec
<1>1. Resolved(i) \in Serials \cup {0} /\ (Resolved(i) # 0 => Resolved(i) \in dirs[i])
  BY Zenon DEF StoreTypes, Resolved
<1>2. CASE i \in Ready
  <2>1. Claim(i) = [image |-> i, serial |-> Resolved(i)] /\ Resolved(i) # 0
    BY Zenon, <1>2 DEF Claim, Ready
  <2> QED
    BY <1>1, <1>2, <2>1 DEF Versions
<1>3. CASE i \notin Ready
  BY Zenon, <1>1, <1>3 DEF Claim
<1> QED
  BY Zenon, <1>2, <1>3

LEMMA NoRecIsNone == NoRec \notin Versions
BY Zenon, SerialTypes DEF NoRec, Versions

LEMMA StoreNext ==
    ASSUME ImageTypes, ImagesNext
    PROVE  StoreTypes'
<1> USE SerialTypes DEF ImageTypes, StoreTypes
<1>1. CASE UNCHANGED store
  BY Zenon, <1>1 DEF store
<1>2. CASE SyncStart \/ SyncEnd \/ GcStaging \/ BuildRun \/ Restart
  BY Zenon, <1>2 DEF SyncStart, SyncEnd, GcStaging, BuildRun, Restart
<1>3. CASE FetchEntry
  <2>1. sync.at \in Images /\ sync.want[sync.at] \in 1..MaxPublished
    BY Zenon, <1>3, ImagesAssumption DEF FetchEntry, SyncTypes
  <2> QED
    BY Zenon, <1>3, <2>1 DEF FetchEntry
<1>4. CASE SyncSwitch
  <2>1. sync.at \in Images /\ sync.want[sync.at] \in 1..MaxPublished
    BY Zenon, <1>4, ImagesAssumption DEF SyncSwitch, SyncTypes
  <2> QED
    BY <1>4, <2>1 DEF SyncSwitch
<1>5. CASE GcSweep
  BY Zenon, <1>5 DEF GcSweep, Kept, GcTypes
<1>6. CASE InstallCustom
  <2>1. build.image \in Images /\ CustomSerial(build.b) \in Serials
    BY <1>6 DEF InstallCustom, BuildTypes
  <2> QED
    BY <1>6, <2>1 DEF InstallCustom
<1>7. CASE InstallSwitch
  <2>1. build.image \in Images /\ CustomSerial(build.b) \in Serials
    BY <1>7 DEF InstallSwitch, BuildTypes
  <2> QED
    BY <1>7, <2>1 DEF InstallSwitch
<1>8. ASSUME NEW i \in Images, RemoveCustom(i)
      PROVE  StoreTypes'
  BY Zenon, <1>8 DEF RemoveCustom
<1> QED
  <2>1. \/ UNCHANGED store
        \/ SyncStart \/ SyncEnd \/ GcStaging \/ BuildRun \/ Restart \/ FetchEntry
        \/ SyncSwitch \/ GcSweep \/ InstallCustom \/ InstallSwitch
        \/ \E i \in Images : RemoveCustom(i)
    BY Zenon DEF ImagesNext, Refresh, Collection, Claims, Building, Requests, Publish, InitScan,
           InitDelete, InitDone, SyncEntry, FetchFails, GcStart, GcLook, GcEnd, CreateCheck,
           CreateReplace, CreateClaim, Delete, StartBuild, BuildCreate, BuildCreateFails,
           BuildFails, BuildDelete, BuildEnd, SetSettings
  <2> QED
    BY Zenon, <1>1, <1>2, <1>3, <1>4, <1>5, <1>6, <1>7, <1>8, <2>1

LEMMA RecNext ==
    ASSUME ImageTypes, ImagesNext
    PROVE  RecTypes'
<1> USE DEF ImageTypes, RecTypes
<1>1. CASE UNCHANGED <<rec, failed, creating>>
  BY <1>1
<1>2. ASSUME NEW c \in Builders, InitDelete(c)
      PROVE  RecTypes'
  BY <1>2 DEF InitDelete
<1>3. ASSUME NEW v \in Vms, CreateReplace(v) \/ Delete(v)
      PROVE  RecTypes'
  BY Zenon, <1>3 DEF CreateReplace, Delete
<1>4. ASSUME NEW v \in Vms, NEW i \in Images, CreateCheck(v, i)
      PROVE  RecTypes'
  BY Zenon, <1>4 DEF CreateCheck
<1>5. ASSUME NEW v \in Vms, CreateClaim(v)
      PROVE  RecTypes'
  <2>1. Claim(creating[v]) \in Versions \cup {NoRec}
    BY Zenon, <1>5, Claimed DEF CreateClaim
  <2> QED
    BY Zenon, <1>5, <2>1 DEF CreateClaim
<1>6. CASE BuildCreate \/ BuildCreateFails
  <2>1. Claim(build.base) \in Versions \cup {NoRec} /\ build.b \in Builders
    BY <1>6, Claimed DEF BuildCreate, BuildCreateFails, BuildTypes
  <2> QED
    BY <1>6, <2>1 DEF BuildCreate, BuildCreateFails
<1>7. CASE BuildDelete
  BY <1>7 DEF BuildDelete, BuildTypes
<1>8. CASE Restart
  BY <1>8 DEF Restart
<1> QED
  <2>1. \/ UNCHANGED <<rec, failed, creating>>
        \/ \E c \in Builders : InitDelete(c)
        \/ \E v \in Vms : CreateReplace(v) \/ Delete(v) \/ CreateClaim(v)
        \/ \E v \in Vms, i \in Images : CreateCheck(v, i)
        \/ BuildCreate \/ BuildCreateFails \/ BuildDelete \/ Restart
    BY Zenon DEF ImagesNext, Refresh, Collection, Claims, Building, Requests, Publish, InitScan,
           InitDone, SyncStart, SyncEntry, FetchEntry, FetchFails, SyncSwitch, SyncEnd,
           GcStart, GcStaging, GcLook, GcSweep, GcEnd, StartBuild, BuildRun, BuildFails,
           InstallCustom, InstallSwitch, BuildEnd, SetSettings, RemoveCustom
  <2> QED
    BY Zenon, <1>1, <1>2, <1>3, <1>4, <1>5, <1>6, <1>7, <1>8, <2>1

LEMMA SyncNext ==
    ASSUME ImageTypes, ImagesNext
    PROVE  SyncTypes'
<1> USE ImagesAssumption DEF ImageTypes, SyncTypes, NoSync
<1>1. CASE UNCHANGED <<published, sync>>
  BY Zenon, <1>1
<1>2. ASSUME NEW i \in Official, Publish(i)
      PROVE  SyncTypes'
  BY <1>2 DEF Publish
<1>3. CASE InitScan
  <2>1. PICK todo \in SUBSET Builders :
          sync' = [pc |-> "doom", todo |-> todo, at |-> sync.at, want |-> sync.want]
    BY Zenon, <1>3 DEF InitScan
  <2>2. sync' = [pc |-> sync'.pc, todo |-> sync'.todo, at |-> sync'.at, want |-> sync'.want]
        /\ sync'.pc = "doom" /\ sync'.todo \subseteq Builders
    BY Zenon, <2>1
  <2> QED
    BY <1>3, <2>2 DEF InitScan
<1>4. ASSUME NEW c \in Builders, InitDelete(c)
      PROVE  SyncTypes'
  BY Zenon, <1>4 DEF InitDelete
<1>5. CASE SyncStart
  <2>1. CASE sync' = [NoSync EXCEPT !.pc = "entry", !.todo = Official, !.want = published]
    <3>1. sync' = [pc |-> "entry", todo |-> Official, at |-> NoImage, want |-> published]
      BY Zenon, <2>1
    <3> QED
      BY <1>5, <3>1 DEF SyncStart
  <2>2. CASE sync' = [NoSync EXCEPT !.pc = "end"]
    BY Zenon, <1>5, <2>2 DEF SyncStart
  <2> QED
    BY Zenon, <1>5, <2>1, <2>2 DEF SyncStart
<1>6. ASSUME NEW i \in Official, SyncEntry(i)
      PROVE  SyncTypes'
  BY Zenon, <1>6 DEF SyncEntry
<1>7. CASE FetchEntry \/ FetchFails \/ SyncSwitch
  BY <1>7 DEF FetchEntry, FetchFails, SyncSwitch
<1>8. CASE InitDone \/ SyncEnd \/ GcEnd \/ Restart
  BY <1>8 DEF InitDone, SyncEnd, GcEnd, Restart
<1> QED
  <2>1. \/ UNCHANGED <<published, sync>>
        \/ \E i \in Official : Publish(i) \/ SyncEntry(i)
        \/ \E c \in Builders : InitDelete(c)
        \/ InitScan \/ InitDone \/ SyncStart \/ FetchEntry \/ FetchFails \/ SyncSwitch
        \/ SyncEnd \/ GcEnd \/ Restart
    BY Zenon DEF ImagesNext, Refresh, Collection, Claims, Building, Requests, GcStart, GcStaging,
           GcLook, GcSweep, CreateCheck, CreateReplace, CreateClaim, Delete, StartBuild,
           BuildCreate, BuildCreateFails, BuildRun, BuildFails, InstallCustom, InstallSwitch,
           BuildDelete, BuildEnd, SetSettings, RemoveCustom
  <2> QED
    BY Zenon, <1>1, <1>2, <1>3, <1>4, <1>5, <1>6, <1>7, <1>8, <2>1

LEMMA GcNext ==
    ASSUME ImageTypes, ImagesNext
    PROVE  GcTypes'
<1> USE DEF ImageTypes, GcTypes, NoGc
<1>1. CASE UNCHANGED gc
  BY <1>1
<1>2. ASSUME NEW by \in {"refresh", "panel"}, GcStart(by)
      PROVE  GcTypes'
  <2>1. Layers \subseteq Versions /\ GcTodo \subseteq Images \cup {".staging"}
    BY DEF Layers, GcTodo, RecTypes, StoreTypes
  <2> QED
    BY ZenonT(30), <1>2, <2>1 DEF GcStart
<1>3. CASE GcStaging \/ GcSweep
  BY ZenonT(30), <1>3 DEF GcStaging, GcSweep
<1>4. ASSUME NEW i \in Images, GcLook(i)
      PROVE  GcTypes'
  BY Zenon, <1>4, Claimed DEF GcLook
<1>5. CASE GcEnd \/ Restart
  BY <1>5 DEF GcEnd, Restart
<1> QED
  <2>1. \/ UNCHANGED gc
        \/ \E by \in {"refresh", "panel"} : GcStart(by)
        \/ \E i \in Images : GcLook(i)
        \/ GcStaging \/ GcSweep \/ GcEnd \/ Restart
    BY Zenon DEF ImagesNext, Refresh, Collection, Claims, Building, Requests, Publish, InitScan,
           InitDelete, InitDone, SyncStart, SyncEntry, FetchEntry, FetchFails, SyncSwitch,
           SyncEnd, CreateCheck, CreateReplace, CreateClaim, Delete, StartBuild, BuildCreate,
           BuildCreateFails, BuildRun, BuildFails, InstallCustom, InstallSwitch,
           BuildDelete, BuildEnd, SetSettings, RemoveCustom
  <2> QED
    BY Zenon, <1>1, <1>2, <1>3, <1>4, <1>5, <2>1

LEMMA BuildNext ==
    ASSUME ImageTypes, ImagesNext
    PROVE  BuildTypes'
<1> USE DEF ImageTypes, BuildTypes, NoBuild
<1>1. CASE UNCHANGED <<build, list>>
  BY Zenon, <1>1
<1>2. ASSUME NEW i \in Images, NEW base \in Images, StartBuild(i, base)
      PROVE  BuildTypes'
  <2>1. PICK c \in Builders :
          /\ list' = [list EXCEPT ![c] = "running"]
          /\ build' = [pc |-> "create", b |-> c, image |-> i, base |-> base, ok |-> TRUE]
    BY Zenon, <1>2 DEF StartBuild
  <2>2. c # 0
    BY DEF Builders
  <2> QED
    BY Zenon, <2>1, <2>2, ImagesAssumption
<1>3. CASE BuildCreate
  BY Zenon, <1>3 DEF BuildCreate
<1>4. CASE BuildCreateFails
  BY Zenon, <1>4 DEF BuildCreateFails
<1>9. CASE BuildFails
  BY Zenon, <1>9 DEF BuildFails
<1>8. CASE BuildRun \/ InstallCustom \/ BuildDelete
  BY <1>8 DEF BuildRun, InstallCustom, BuildDelete
<1>5. CASE InstallSwitch
  <2>1. (CustomSerial(build.b) \in dirs[build.image]) \in BOOLEAN
    OBVIOUS
  <2> QED
    BY Zenon, <1>5, <2>1 DEF InstallSwitch
<1>6. CASE BuildEnd
  BY Zenon, <1>6 DEF BuildEnd
<1>7. CASE Restart
  BY <1>7 DEF Restart
<1> QED
  <2>1. \/ UNCHANGED <<build, list>>
        \/ \E i, base \in Images : StartBuild(i, base)
        \/ BuildCreate \/ BuildCreateFails \/ BuildRun \/ BuildFails \/ InstallCustom
        \/ BuildDelete \/ InstallSwitch \/ BuildEnd \/ Restart
    BY Zenon DEF ImagesNext, Refresh, Collection, Claims, Building, Requests, Publish, InitScan,
           InitDelete, InitDone, SyncStart, SyncEntry, FetchEntry, FetchFails, SyncSwitch,
           SyncEnd, GcStart, GcStaging, GcLook, GcSweep, GcEnd, CreateCheck, CreateReplace,
           CreateClaim, Delete, SetSettings, RemoveCustom
  <2> QED
    BY Zenon, <1>1, <1>2, <1>3, <1>4, <1>5, <1>6, <1>7, <1>8, <1>9, <2>1

LEMMA PanelNext ==
    ASSUME ImageTypes, ImagesNext
    PROVE  PanelTypes'
<1> USE DEF ImageTypes, PanelTypes
<1>1. CASE UNCHANGED <<disabled, removing, blind>>
  BY <1>1
<1>2. ASSUME NEW by \in {"refresh", "panel"}, GcStart(by)
      PROVE  PanelTypes'
  BY Zenon, <1>2 DEF GcStart, panel
<1>3. CASE GcEnd \/ Restart
  BY <1>3 DEF GcEnd, Restart
<1>4. ASSUME NEW d \in Choices, SetSettings(d)
      PROVE  PanelTypes'
  BY Zenon, <1>4, ImagesAssumption DEF SetSettings
<1>5. ASSUME NEW i \in Images, RemoveCustom(i)
      PROVE  PanelTypes'
  BY Zenon, <1>5 DEF RemoveCustom
<1> QED
  <2>1. \/ UNCHANGED <<disabled, removing, blind>>
        \/ \E by \in {"refresh", "panel"} : GcStart(by)
        \/ \E d \in Choices : SetSettings(d)
        \/ \E i \in Images : RemoveCustom(i)
        \/ GcEnd \/ Restart
    BY Zenon DEF ImagesNext, Refresh, Collection, Claims, Building, Requests, Publish, InitScan,
           InitDelete, InitDone, SyncStart, SyncEntry, FetchEntry, FetchFails, SyncSwitch,
           SyncEnd, GcStaging, GcLook, GcSweep, CreateCheck, CreateReplace, CreateClaim,
           Delete, StartBuild, BuildCreate, BuildCreateFails, BuildRun, BuildFails,
           InstallCustom, InstallSwitch, BuildDelete, BuildEnd, panel
  <2> QED
    BY Zenon, <1>1, <1>2, <1>3, <1>4, <1>5, <2>1

LEMMA CountNext ==
    ASSUME ImageTypes, ImagesNext
    PROVE  CountTypes'
<1>1. (UNCHANGED ops \/ Request) /\ (UNCHANGED failures \/ Failure)
  BY Zenon DEF ImagesNext, Refresh, Collection, Claims, Building, Requests, Publish, InitScan,
         InitDelete, InitDone, SyncStart, SyncEntry, FetchEntry, FetchFails, SyncSwitch,
         SyncEnd, GcStart, GcStaging, GcLook, GcSweep, GcEnd, CreateCheck, CreateReplace,
         CreateClaim, Delete, StartBuild, BuildCreate, BuildCreateFails, BuildRun,
         BuildFails, InstallCustom, InstallSwitch, BuildDelete, BuildEnd, SetSettings,
         RemoveCustom, Restart, counters
<1> QED
  BY <1>1, ImagesAssumption DEF ImageTypes, CountTypes, Request, Failure

-----------------------------------------------------------------------------
(* Versions in use *)

\* What a step may do to versions and records without endangering a version in use:
\* versions are added or kept when a collection finds them in use, records are removed,
\* or made of a version that is there while nothing is collected.
LEMMA LowerStep ==
    ASSUME ImageTypes, Collecting, LowerExists, ImagesNext
    PROVE  Collecting' /\ LowerExists'
<1> DEFINE Names == Vms \cup Builders
<1>0. /\ DOMAIN rec = Names /\ DOMAIN rec' = Names
      /\ \A v \in Names : rec[v] # NoRec => rec[v].image \in Images
      /\ \A v \in Names : rec[v] # NoRec =>
            rec[v] = [image |-> rec[v].image, serial |-> rec[v].serial]
  BY RecNext, Zenon DEF ImageTypes, RecTypes, Versions
<1>a. ASSUME \A i \in Images : dirs[i] \subseteq dirs'[i], UNCHANGED blind,
             \A v \in Names : rec'[v] = rec[v] \/ rec'[v] = NoRec
      PROVE  LowerExists'
  BY Zenon, <1>0, <1>a DEF LowerExists
<1>b. ASSUME UNCHANGED <<gc, blind>>,
             \A v \in Names : rec'[v] = rec[v] \/ rec'[v] = NoRec
      PROVE  Collecting'
  BY Zenon, <1>b DEF Collecting
<1>c. ASSUME UNCHANGED <<gc, blind, dirs>>, gc.by = "none", NEW w \in Names, NEW i \in Images,
             rec' = [rec EXCEPT ![w] = Claim(i)]
      PROVE  Collecting' /\ LowerExists'
  <2>1. \A v \in Names : rec'[v] = IF v = w THEN Claim(i) ELSE rec[v]
    BY Zenon, <1>0, <1>c DEF ImageTypes, RecTypes
  <2>2. Claim(i) # NoRec => Claim(i).serial \in dirs[Claim(i).image]
    BY Zenon, Claimed DEF ImageTypes
  <2>3. LowerExists'
    BY Zenon, <1>0, <1>c, <2>1, <2>2 DEF LowerExists
  <2> QED
    BY Zenon, <1>c, <2>3 DEF Collecting
<1>1. CASE UNCHANGED <<dirs, rec, gc, blind>>
  BY Zenon, <1>1, <1>a, <1>b
<1>2. CASE FetchEntry \/ InstallCustom
  <2>1. UNCHANGED <<gc, blind, rec>> /\ \A i \in Images : dirs[i] \subseteq dirs'[i]
    BY <1>2 DEF FetchEntry, InstallCustom, ImageTypes, StoreTypes
  <2> QED
    BY Zenon, <2>1, <1>a, <1>b
<1>3. ASSUME NEW by \in {"refresh", "panel"}, GcStart(by)
      PROVE  Collecting' /\ LowerExists'
  <2>1. LowerExists'
    BY <1>3 DEF GcStart, LowerExists, store
  <2>2. Collecting'
    <3>1. UNCHANGED rec /\ gc'.by = by /\ gc'.at = NoImage /\ (blind' \/ gc'.used = Layers)
      BY Zenon, <1>3 DEF GcStart, NoGc
    <3>2. \A v \in Names : rec[v] # NoRec => rec[v] \in Layers
      BY Zenon, <1>0 DEF Layers
    <3> QED
      BY Zenon, <3>1, <3>2 DEF Collecting
  <2> QED
    BY <2>1, <2>2
<1>4. ASSUME GcStaging \/ \E i \in Images : GcLook(i)
      PROVE  Collecting' /\ LowerExists'
  <2>1. UNCHANGED <<dirs, rec, blind>> /\ gc'.by = gc.by /\ gc'.used = gc.used /\ gc.by # "none"
    BY Zenon, <1>4 DEF GcStaging, GcLook, ImageTypes, GcTypes, store
  <2> QED
    BY Zenon, <2>1, <1>a DEF Collecting
<1>5. CASE GcSweep
  <2>1. UNCHANGED <<rec, blind>> /\ gc'.by = gc.by /\ gc'.used = gc.used /\ gc'.at = NoImage
    BY <1>5 DEF GcSweep, ImageTypes, GcTypes
  <2>2. \A i \in Images : dirs'[i] = IF i = gc.at THEN Kept(i) ELSE dirs[i]
    BY <1>5 DEF GcSweep, ImageTypes, StoreTypes
  <2>3. ASSUME ~blind, NEW v \in Names, rec[v] # NoRec
        PROVE  rec[v].serial \in dirs'[rec[v].image]
    <3>1. rec[v] \in gc.used /\ rec[v].serial \in dirs[rec[v].image]
      BY <1>0, <1>5, <2>3 DEF Collecting, GcSweep, LowerExists
    <3>2. [image |-> rec[v].image, serial |-> rec[v].serial] \in gc.used
      BY Zenon, <1>0, <2>3, <3>1
    <3> QED
      BY Zenon, <1>0, <2>2, <2>3, <3>1, <3>2 DEF Kept
  <2>4. LowerExists'
    BY Zenon, <1>0, <2>1, <2>3 DEF LowerExists
  <2> QED
    BY Zenon, <2>1, <2>4 DEF Collecting
<1>6. CASE GcEnd \/ Restart
  <2>1. UNCHANGED <<dirs, rec, blind>> /\ gc' = NoGc
    BY <1>6 DEF GcEnd, Restart, store
  <2> QED
    BY Zenon, <2>1, <1>a DEF Collecting, NoGc
<1>7. ASSUME NEW w \in Names, UNCHANGED <<gc, blind, dirs>>,
             rec' = [rec EXCEPT ![w] = NoRec] \/ UNCHANGED rec
      PROVE  Collecting' /\ LowerExists'
  <2>1. \A v \in Names : rec'[v] = rec[v] \/ rec'[v] = NoRec
    BY Zenon, <1>0, <1>7 DEF ImageTypes, RecTypes
  <2> QED
    BY Zenon, <1>7, <2>1, <1>a, <1>b
<1>8. ASSUME NEW v \in Vms, CreateReplace(v) \/ Delete(v)
      PROVE  Collecting' /\ LowerExists'
  BY Zenon, <1>7, <1>8 DEF CreateReplace, Delete, store
<1>9. ASSUME NEW c \in Builders, InitDelete(c)
      PROVE  Collecting' /\ LowerExists'
  BY <1>7, <1>9 DEF InitDelete, store
<1>10. CASE BuildDelete
  BY <1>7, <1>10 DEF BuildDelete, store, ImageTypes, BuildTypes
<1>11. ASSUME NEW v \in Vms, CreateClaim(v)
      PROVE  Collecting' /\ LowerExists'
  <2>1. creating[v] \in Images
    BY Zenon, <1>11 DEF CreateClaim, ImageTypes, RecTypes
  <2> QED
    BY Zenon, <1>c, <1>11, <2>1 DEF CreateClaim, AllocFree, store
<1>12. CASE BuildCreate \/ BuildCreateFails
  <2>1. build.base \in Images /\ build.b \in Builders
    BY <1>12 DEF BuildCreate, BuildCreateFails, ImageTypes, BuildTypes
  <2>2. UNCHANGED <<gc, blind, dirs>> /\ gc.by = "none"
        /\ (rec' = [rec EXCEPT ![build.b] = Claim(build.base)] \/ UNCHANGED rec)
    BY <1>12 DEF BuildCreate, BuildCreateFails, AllocFree, store
  <2> QED
    BY Zenon, <1>c, <1>1, <2>1, <2>2
<1> QED
  <2>1. \/ UNCHANGED <<dirs, rec, gc, blind>>
        \/ FetchEntry \/ InstallCustom \/ GcStaging \/ GcSweep \/ GcEnd \/ Restart
        \/ BuildDelete \/ BuildCreate \/ BuildCreateFails
        \/ \E by \in {"refresh", "panel"} : GcStart(by)
        \/ \E i \in Images : GcLook(i)
        \/ \E v \in Vms : CreateReplace(v) \/ Delete(v) \/ CreateClaim(v)
        \/ \E c \in Builders : InitDelete(c)
    BY Zenon DEF ImagesNext, Refresh, Collection, Claims, Building, Requests, Publish, InitScan,
           InitDone, SyncStart, SyncEntry, FetchFails, SyncSwitch, SyncEnd, CreateCheck,
           StartBuild, BuildRun, BuildFails, InstallSwitch, BuildEnd, SetSettings,
           RemoveCustom, store
  <2> QED
    BY Zenon, <1>1, <1>2, <1>3, <1>4, <1>5, <1>6, <1>8, <1>9, <1>10, <1>11, <1>12, <2>1

-----------------------------------------------------------------------------
(* Builders *)

LEMMA RefreshingStep ==
    ASSUME ImageTypes, Refreshing, ImagesNext
    PROVE  Refreshing'
<1> USE DEF Refreshing
<1>1. ASSUME NEW by \in {"refresh", "panel"}, GcStart(by)
      PROVE  Refreshing'
  BY Zenon, <1>1 DEF GcStart, Caller, NoGc
<1>2. CASE GcEnd \/ Restart
  BY <1>2 DEF GcEnd, Restart, NoGc
<1>3. ASSUME GcStaging \/ GcSweep \/ \E i \in Images : GcLook(i)
      PROVE  Refreshing'
  BY Zenon, <1>3 DEF GcStaging, GcSweep, GcLook, ImageTypes, GcTypes
<1> QED
  <2>1. \/ UNCHANGED <<gc, sync>>
        \/ UNCHANGED gc /\ sync.pc # "gc"
        \/ \E by \in {"refresh", "panel"} : GcStart(by)
        \/ \E i \in Images : GcLook(i)
        \/ GcStaging \/ GcSweep \/ GcEnd \/ Restart
    BY Zenon DEF ImagesNext, Refresh, Collection, Claims, Building, Requests, Publish, InitScan,
           InitDelete, InitDone, SyncStart, SyncEntry, FetchEntry, FetchFails, SyncSwitch,
           SyncEnd, CreateCheck, CreateReplace, CreateClaim, Delete, StartBuild, BuildCreate,
           BuildCreateFails, BuildRun, BuildFails, InstallCustom, InstallSwitch,
           BuildDelete, BuildEnd, SetSettings, RemoveCustom
  <2> QED
    BY Zenon, <1>1, <1>2, <1>3, <2>1

LEMMA BuildsStep ==
    ASSUME ImageTypes, Refreshing, Builds, ImagesNext
    PROVE  Builds'
<1>0. /\ rec \in [Vms \cup Builders -> Versions \cup {NoRec}]
      /\ list \in [Builders -> {"none", "running", "succeeded", "failed"}]
      /\ build.pc # "no" => build.b \in Builders
      /\ \A c \in Builders : c \notin Vms
  BY Zenon, ImagesAssumption DEF ImageTypes, RecTypes, BuildTypes
<1>a. ASSUME UNCHANGED <<build, list, failed>>, \A c \in Builders : rec'[c] = rec[c],
             sync'.pc \in {"init", "doom"} <=> sync.pc \in {"init", "doom"},
             UNCHANGED sync \/ sync.pc \notin {"init", "doom"}
      PROVE  Builds'
  BY Zenon, <1>0, <1>a DEF Builds, Ended
<1>1. CASE InitScan
  BY Zenon, <1>0, <1>1 DEF InitScan, Builds, Ended, ImageTypes, SyncTypes
<1>2. ASSUME NEW c \in Builders, InitDelete(c)
      PROVE  Builds'
  <2>1. UNCHANGED <<build, list>> /\ sync.pc = "doom" /\ sync'.pc = "doom"
        /\ sync'.todo = sync.todo \ {c}
    BY <1>2 DEF InitDelete, ImageTypes, SyncTypes
  <2>2. /\ \A d \in Builders : d # c => rec'[d] = rec[d] /\ (d \in failed' <=> d \in failed)
        /\ rec'[c] = NoRec \/ (rec'[c] = rec[c] /\ c \in failed')
    BY <1>0, <1>2 DEF InitDelete
  <2>3. Ended(c)' /\ (rec[c] = NoRec => rec'[c] = NoRec)
    BY Zenon, <2>2 DEF Ended
  <2> QED
    BY Zenon, <1>0, <2>1, <2>2, <2>3 DEF Builds, Ended
<1>3. CASE InitDone
  BY Zenon, <1>0, <1>3 DEF InitDone, Builds, Ended, NoSync
<1>4. ASSUME NEW i \in Images, NEW base \in Images, StartBuild(i, base)
      PROVE  Builds'
  <2>1. PICK c \in Builders :
          /\ list[c] = "none" /\ list' = [list EXCEPT ![c] = "running"]
          /\ build' = [pc |-> "create", b |-> c, image |-> i, base |-> base, ok |-> TRUE]
    BY Zenon, <1>4 DEF StartBuild
  <2>2. UNCHANGED <<rec, failed, sync>> /\ build'.pc = "create" /\ build'.b = c
        /\ \A d \in Builders : list'[d] = IF d = c THEN "running" ELSE list[d]
    BY Zenon, <1>0, <1>4, <2>1 DEF StartBuild
  <2> QED
    BY Zenon, <2>1, <2>2 DEF Builds, Ended
<1>5. CASE BuildCreate \/ BuildCreateFails
  <2>1. /\ UNCHANGED <<list, sync>> /\ build.pc = "create" /\ build'.b = build.b
        /\ build.b \in Builders /\ build'.pc \in {"run", "end"}
        /\ \A d \in Builders : d # build.b => rec'[d] = rec[d] /\ (d \in failed' <=> d \in failed)
    <3>1. CASE BuildCreate
      BY Zenon, <1>0, <3>1 DEF BuildCreate, ImageTypes, BuildTypes
    <3>2. CASE BuildCreateFails
      BY Zenon, <1>0, <3>2 DEF BuildCreateFails, ImageTypes, BuildTypes
    <3> QED
      BY Zenon, <1>5, <3>1, <3>2
  <2>2. build'.pc = "end" => Ended(build.b)'
    <3>1. CASE BuildCreate
      <4>1. build.base \in Images
        BY <3>1 DEF BuildCreate, ImageTypes, BuildTypes
      <4>2. build'.pc = "end" => rec'[build.b] = NoRec
        BY <1>0, <2>1, <3>1, <4>1, Claimed DEF BuildCreate, ImageTypes, BuildTypes
      <4> QED
        BY Zenon, <2>1, <4>2 DEF Ended
    <3>2. CASE BuildCreateFails
      BY <1>0, <2>1, <3>2 DEF BuildCreateFails, Builds, Ended
    <3> QED
      BY <1>5, <3>1, <3>2
  <2> QED
    BY Zenon, <1>0, <2>1, <2>2 DEF Builds, Ended
<1>6. CASE BuildRun \/ BuildFails \/ InstallCustom \/ InstallSwitch
  <2>1. /\ UNCHANGED <<list, sync, rec, failed>> /\ build.pc # "no"
        /\ build'.b = build.b /\ build'.pc \in {"install", "switch", "delete"}
    BY ZenonT(30), <1>6 DEF BuildRun, BuildFails, InstallCustom, InstallSwitch, ImageTypes, BuildTypes
  <2> QED
    BY Zenon, <2>1 DEF Builds, Ended
<1>7. CASE BuildDelete
  <2>1. /\ UNCHANGED <<list, sync>> /\ build.pc = "delete" /\ build.b \in Builders
        /\ build'.b = build.b /\ build'.pc = "end"
        /\ \A d \in Builders : d # build.b => rec'[d] = rec[d] /\ (d \in failed' <=> d \in failed)
        /\ rec'[build.b] = NoRec \/ build.b \in failed'
        /\ failed \subseteq failed'
    BY <1>0, <1>7 DEF BuildDelete, ImageTypes, BuildTypes
  <2>2. list[build.b] = "running"
    BY Zenon, <2>1 DEF Builds
  <2> QED
    BY Zenon, <2>1, <2>2 DEF Builds, Ended
<1>8. CASE BuildEnd
  <2>1. /\ UNCHANGED <<rec, failed, sync>> /\ build.pc = "end" /\ build.b \in Builders
        /\ build'.pc = "no" /\ list'[build.b] \in {"succeeded", "failed"}
        /\ \A d \in Builders : d # build.b => list'[d] = list[d]
    BY Zenon, <1>0, <1>8 DEF BuildEnd, NoBuild
  <2> QED
    BY Zenon, <2>1 DEF Builds, Ended
<1>9. CASE Restart
  <2>1. /\ UNCHANGED <<rec, failed>> /\ build'.pc = "no" /\ sync'.pc = "init"
        /\ \A d \in Builders : list'[d] = IF list[d] = "running" THEN "failed" ELSE list[d]
    BY <1>9 DEF Restart, NoBuild, NoSync
  <2> QED
    BY Zenon, <2>1 DEF Builds, Ended
<1>10. ASSUME NEW v \in Vms, CreateReplace(v) \/ CreateClaim(v) \/ Delete(v)
       PROVE  Builds'
  <2>1. UNCHANGED <<build, list, failed, sync>> /\ \A c \in Builders : rec'[c] = rec[c]
    BY Zenon, <1>0, <1>10 DEF CreateReplace, CreateClaim, Delete
  <2> QED
    BY Zenon, <2>1, <1>a
<1>11. CASE GcEnd
  <2>1. UNCHANGED <<build, list, failed, rec>> /\ (UNCHANGED sync \/ (sync.pc = "gc" /\ sync' = NoSync))
    BY Zenon, <1>11 DEF GcEnd, Refreshing
  <2> QED
    BY <2>1, <1>a DEF NoSync
<1>12. CASE \/ SyncStart \/ FetchEntry \/ FetchFails \/ SyncSwitch \/ SyncEnd
            \/ \E i \in Official : SyncEntry(i)
  <2>1. /\ UNCHANGED <<build, list, failed, rec>>
        /\ sync.pc \notin {"init", "doom"} /\ sync'.pc \notin {"init", "doom"}
    BY Zenon, <1>12 DEF SyncStart, FetchEntry, FetchFails, SyncSwitch, SyncEnd, SyncEntry, NoSync,
                 ImageTypes, SyncTypes
  <2> QED
    BY Zenon, <2>1, <1>a
<1>13. CASE UNCHANGED <<build, list, failed, rec, sync>>
  BY Zenon, <1>13, <1>a
<1> QED
  <2>1. \/ UNCHANGED <<build, list, failed, rec, sync>>
        \/ InitScan \/ InitDone \/ SyncStart \/ FetchEntry \/ FetchFails \/ SyncSwitch
        \/ SyncEnd \/ GcEnd \/ Restart
        \/ BuildCreate \/ BuildCreateFails \/ BuildRun \/ BuildFails \/ InstallCustom
        \/ InstallSwitch \/ BuildDelete \/ BuildEnd
        \/ \E c \in Builders : InitDelete(c)
        \/ \E i \in Official : SyncEntry(i)
        \/ \E v \in Vms : CreateReplace(v) \/ CreateClaim(v) \/ Delete(v)
        \/ \E i, base \in Images : StartBuild(i, base)
    BY Zenon DEF ImagesNext, Refresh, Collection, Claims, Building, Requests, Publish, GcStart,
           GcStaging, GcLook, GcSweep, CreateCheck, SetSettings, RemoveCustom
  <2> QED
    BY Zenon, <1>1, <1>2, <1>3, <1>4, <1>5, <1>6, <1>7, <1>8, <1>9, <1>10, <1>11, <1>12, <1>13, <2>1

-----------------------------------------------------------------------------
(* Theorems *)

LEMMA ImagesInvInit == ImagesInit => ImagesInv
<1> SUFFICES ASSUME ImagesInit
             PROVE  ImagesInv
  OBVIOUS
<1> DEFINE first(i) == IF i \in Official THEN 1 ELSE CustomSerial(1)
<1>1. \A i \in Images : first(i) \in Serials
  BY SerialTypes, ImagesAssumption DEF Builders
<1>2. PICK used \in BOOLEAN :
        /\ home = IF used THEN Images ELSE {}
        /\ dirs = [i \in Images |-> IF used THEN {first(i)} ELSE {}]
        /\ current = [i \in Images |-> IF used THEN first(i) ELSE 0]
        /\ list = [c \in Builders |-> IF used /\ c = 1 THEN "succeeded" ELSE "none"]
        /\ rec \in [Vms \cup Builders ->
                      {NoRec} \cup IF used
                                   THEN {[image |-> i, serial |-> first(i)] : i \in Images}
                                   ELSE {}]
        /\ \A c \in Builders : rec[c] = NoRec
  BY DEF ImagesInit
<1>3. StoreTypes
  BY <1>1, <1>2 DEF ImagesInit, StoreTypes
<1>4. RecTypes
  <2>1. {[image |-> i, serial |-> first(i)] : i \in Images} \subseteq Versions
    BY <1>1 DEF Versions
  <2> QED
    BY <1>2, <2>1 DEF ImagesInit, RecTypes
<1>5. SyncTypes /\ GcTypes
  <2>1. published \in [Official -> 1..MaxPublished]
    BY ImagesAssumption DEF ImagesInit
  <2>2. sync = [pc |-> "init", todo |-> {}, at |-> NoImage, want |-> 0]
    BY Zenon DEF ImagesInit, NoSync
  <2>3. SyncTypes
    BY Zenon, <2>1, <2>2 DEF SyncTypes
  <2>4. GcTypes
    BY DEF ImagesInit, GcTypes, NoGc
  <2> QED
    BY <2>3, <2>4
<1>6. BuildTypes
  BY <1>2 DEF ImagesInit, BuildTypes, NoBuild
<1>7. PanelTypes /\ CountTypes
  <2>1. PanelTypes
    BY Zenon DEF ImagesInit, PanelTypes
  <2>2. CountTypes
    BY ImagesAssumption, SMT DEF ImagesInit, CountTypes
  <2> QED
    BY <2>1, <2>2
<1>8. Collecting /\ Refreshing
  BY DEF ImagesInit, Collecting, Refreshing, NoGc
<1>9. LowerExists
  <2>1. ASSUME NEW v \in Vms \cup Builders, rec[v] # NoRec
        PROVE  rec[v].serial \in dirs[rec[v].image]
    <3>1. PICK i \in Images : used /\ rec[v] = [image |-> i, serial |-> first(i)]
      BY Zenon, <1>2, <2>1
    <3> QED
      BY <1>2, <3>1
  <2> QED
    BY Zenon, <1>2, <2>1 DEF LowerExists
<1>10. Builds
  BY <1>2 DEF ImagesInit, Builds, Ended, NoBuild
<1> QED
  BY <1>3, <1>4, <1>5, <1>6, <1>7, <1>8, <1>9, <1>10 DEF ImagesInv, ImageTypes

LEMMA ImagesInvNext == ImagesInv /\ [ImagesNext]_imagesVars => ImagesInv'
<1>1. ASSUME ImagesInv, ImagesNext
      PROVE  ImagesInv'
  BY Zenon, <1>1, StoreNext, RecNext, SyncNext, GcNext, BuildNext, PanelNext, CountNext, LowerStep,
     RefreshingStep, BuildsStep DEF ImagesInv, ImageTypes
<1>2. ASSUME ImagesInv, UNCHANGED imagesVars
      PROVE  ImagesInv'
  <2>1. ImageTypes'
    <3>1. StoreTypes' /\ RecTypes' /\ CountTypes'
      BY Zenon, <1>2 DEF ImagesInv, ImageTypes, StoreTypes, RecTypes, CountTypes, imagesVars,
                         store, counters
    <3>2. SyncTypes' /\ GcTypes' /\ BuildTypes' /\ PanelTypes'
      BY <1>2 DEF ImagesInv, ImageTypes, SyncTypes, GcTypes, BuildTypes, PanelTypes,
                  imagesVars, panel
    <3> QED
      BY Zenon, <3>1, <3>2 DEF ImageTypes
  <2> QED
    BY Zenon, <1>2, <2>1 DEF ImagesInv, Collecting, LowerExists, Refreshing, Builds, Ended,
                      imagesVars, store
<1> QED
  BY <1>1, <1>2

LEMMA ImagesInvariant == ImagesSpec => []ImagesInv
BY ImagesInvInit, ImagesInvNext, PTL DEF ImagesSpec

\* The image store, the builds and the tasks that work on them stay well formed.
THEOREM ImagesTypeCorrect == ImagesSpec => []ImagesTypeOK
<1>1. ImagesInv => ImagesTypeOK
  BY ImageTypesAreTypeOK DEF ImagesInv
<1> QED
  BY <1>1, ImagesInvariant, PTL

\* gc_images and the claims of create_locked exclude each other: whatever syncs, builds,
\* removals and restarts run beside them, the version an instance is mounted over is never
\* collected, unless a collection could not read the records.
THEOREM LowersExist == ImagesSpec => []LowerExists
<1>1. ImagesInv => LowerExists
  BY DEF ImagesInv
<1> QED
  BY <1>1, ImagesInvariant, PTL

\* run_build and init: a build that has ended has left no temporary instance, unless
\* creating or deleting it failed or a restarted agent has not yet cleaned up.
THEOREM BuildersAreRemoved == ImagesSpec => []BuildersRemoved
<1>1. ImagesInv => BuildersRemoved
  BY Zenon DEF ImagesInv, Builds, Ended, BuildersRemoved
<1> QED
  BY <1>1, ImagesInvariant, PTL
=============================================================================
