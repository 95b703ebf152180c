------------------------------ MODULE Consoles ------------------------------
(***************************************************************************)
(* The console sessions of one platform stream (platform/console.rs) and   *)
(* the pseudo-terminal behind each of them (ExecTarget::console in         *)
(* runtime/exec.rs).                                                       *)
(*                                                                         *)
(* A session is a task of the agent, a reader thread, a writer thread, a   *)
(* resize task and a shell.  Reader, writer and resize task each own a     *)
(* duplicate of the master side of the terminal, and the shell is hung up  *)
(* when the last of the three is closed.  Nobody tells the shell to end in *)
(* any other way, so that every shell ends only if every owner lets go:    *)
(*   - the writer, when the input senders are dropped;                     *)
(*   - the reader, when the writer has set `closed`, when the shell is     *)
(*     gone or when nobody receives its output;                            *)
(*   - the resize task, when the resize senders are dropped, one of which  *)
(*     the session's task keeps until it returns.                          *)
(*                                                                         *)
(* The queues between the threads and the task are rendezvous: the thread  *)
(* or task that would wait for room waits for the other side.  The flag    *)
(* `closed` and the resize task follow from the rest of the state.         *)
(***************************************************************************)
EXTENDS Naturals

CONSTANTS
    Opens,      \* the ConsoleOpen commands of the stream
    Sids,       \* session identifiers; the platform may use one twice
    NoOpen      \* no session: none of Opens

ASSUME NoOpenAssumption == NoOpen \notin Opens

VARIABLES
    task,       \* task[o]: where Consoles::run stands
    sid,        \* sid[o]: the identifier o was sent with
    sessions,   \* sessions[s]: whose senders and token the map holds
    cancel,     \* cancel[o]: the session's token is cancelled
    all,        \* the token of the stream is cancelled
    tx,         \* the stream's channel: has room, is full, is closed
    reader,     \* reader[o]: where the reader thread stands
    writer,     \* writer[o]: where the writer thread stands
    shell       \* shell[o]: the helper and the shell below it

agentVars == <<task, sid, sessions, cancel, all, tx>>
ttyVars == <<reader, writer, shell>>
consoleVars == <<agentVars, ttyVars>>

ConsoleTypeOK ==
    /\ task \in [Opens -> {"none", "reporting", "opening", "connecting",
                           "live", "sending", "leaving", "done"}]
    /\ sid \in [Opens -> Sids]
    /\ sessions \in [Sids -> Opens \cup {NoOpen}]
    /\ cancel \in [Opens -> BOOLEAN]
    /\ all \in BOOLEAN
    /\ tx \in {"room", "full", "closed"}
    /\ reader \in [Opens -> {"none", "poll", "send", "wait", "ended"}]
    /\ writer \in [Opens -> {"none", "recv", "stuck", "ended"}]
    /\ shell \in [Opens -> {"none", "up", "gone"}]

ConsoleInit ==
    /\ task = [o \in Opens |-> "none"]
    /\ sid \in [Opens -> Sids]
    /\ sessions = [s \in Sids |-> NoOpen]
    /\ cancel = [o \in Opens |-> FALSE]
    /\ all = FALSE
    /\ tx = "room"
    /\ reader = [o \in Opens |-> "none"]
    /\ writer = [o \in Opens |-> "none"]
    /\ shell = [o \in Opens |-> "none"]

\* The map's entry is the only holder of the input sender once run has
\* dropped its own; the resize sender is also kept by run until it returns.
HasInputSender(o) == \E s \in Sids : sessions[s] = o

HasResizeSender(o) == HasInputSender(o) \/ task[o] # "done"

HasReceiver(o) == task[o] # "done"

\* The flag the threads share: each sets it when its loop has ended.
closed(o) == writer[o] = "ended" \/ reader[o] \in {"wait", "ended"}

(***************************************************************************)
(* The task of a session                                                   *)
(***************************************************************************)

\* tx.send: an envelope for a channel that is full holds its task up.  An
\* event that can no longer be sent is ignored.
Post(o, blocked, next) ==
    task' = [task EXCEPT ![o] = IF tx = "full" THEN blocked ELSE next]

\* The platform's ConsoleOpen: a task is spawned and looks the identifier up.
Open(o) ==
    /\ task[o] = "none"
    /\ ~all
    /\ IF sessions[sid[o]] # NoOpen
         THEN Post(o, "reporting", "done")
         ELSE task' = [task EXCEPT ![o] = "opening"]
    /\ UNCHANGED <<sid, sessions, cancel, all, tx, ttyVars>>

\* The instance is unknown or not running, or the terminal cannot be made.
OpenFails(o) ==
    /\ task[o] = "opening"
    /\ Post(o, "reporting", "done")
    /\ UNCHANGED <<sid, sessions, cancel, all, tx, ttyVars>>

\* ExecTarget::console: the helper is spawned, then the three owners.
Spawn(o) ==
    /\ shell' = [shell EXCEPT ![o] = "up"]
    /\ reader' = [reader EXCEPT ![o] = "poll"]
    /\ writer' = [writer EXCEPT ![o] = "recv"]

\* The console is open: its entry replaces whatever the identifier held, and
\* its token is a child of the stream's, which may be cancelled by now.
OpenDone(o) ==
    /\ task[o] = "opening"
    /\ Spawn(o)
    /\ sessions' = [sessions EXCEPT ![sid[o]] = o]
    /\ Post(o, "connecting", "live")
    /\ UNCHANGED <<sid, cancel, all, tx>>

\* The end of the loop: the entry of the identifier is removed, whoever's it
\* is, and the Disconnected event is sent.
Leave(o) ==
    /\ sessions' = [sessions EXCEPT ![sid[o]] = NoOpen]
    /\ Post(o, "leaving", "done")
    /\ UNCHANGED <<sid, cancel, all, tx>>

\* The token is only looked at between two envelopes.
Cancelled(o) ==
    /\ task[o] = "live"
    /\ all \/ cancel[o]
    /\ Leave(o)
    /\ UNCHANGED ttyVars

\* A chunk of output; one that can no longer be sent ends the session.
Output(o) ==
    /\ task[o] = "live"
    /\ reader[o] = "send"
    /\ reader' = [reader EXCEPT ![o] = "poll"]
    /\ IF tx = "closed"
         THEN Leave(o)
         ELSE /\ Post(o, "sending", "live")
              /\ UNCHANGED <<sid, sessions, cancel, all, tx>>
    /\ UNCHANGED <<writer, shell>>

\* The reader thread has returned and dropped the output sender.
OutputEnds(o) ==
    /\ task[o] = "live"
    /\ reader[o] = "ended"
    /\ Leave(o)
    /\ UNCHANGED ttyVars

(***************************************************************************)
(* What the platform sends, and the stream                                 *)
(***************************************************************************)

\* Input the terminal takes changes nothing here, and input for a queue that
\* is full is dropped (try_send).  A shell may stop reading for good: then
\* the writer never returns from its write.
Input(s) ==
    /\ ~all
    /\ sessions[s] # NoOpen
    /\ writer[sessions[s]] = "recv"
    /\ writer' = [writer EXCEPT ![sessions[s]] = "stuck"]
    /\ UNCHANGED <<agentVars, reader, shell>>

Close(s) ==
    /\ ~all
    /\ sessions[s] # NoOpen
    /\ cancel' = [cancel EXCEPT ![sessions[s]] = TRUE]
    /\ UNCHANGED <<task, sid, sessions, all, tx, ttyVars>>

CloseAll ==
    /\ ~all
    /\ all' = TRUE
    /\ UNCHANGED <<task, sid, sessions, cancel, tx, ttyVars>>

\* Other envelopes of the stream fill the channel.
Congest ==
    /\ tx = "room"
    /\ tx' = "full"
    /\ UNCHANGED <<task, sid, sessions, cancel, all, ttyVars>>

\* Where a task that was held up goes on.
Unblocked(t) ==
    CASE t \in {"connecting", "sending"} -> "live"
      [] t \in {"reporting", "leaving"}  -> "done"
      [] OTHER                           -> t

\* The transport has caught up: the tasks that wait are served in turn.
Transmit ==
    /\ tx = "full"
    /\ tx' = "room"
    /\ task' = [o \in Opens |-> Unblocked(task[o])]
    /\ UNCHANGED <<sid, sessions, cancel, all, ttyVars>>

\* The stream is over and drops the receiving side of the channel: an event
\* that waited is given up, a chunk of output that waited ends its session.
TransmitEnds ==
    /\ all
    /\ tx # "closed"
    /\ tx' = "closed"
    /\ task' = [o \in Opens |-> IF task[o] = "sending" THEN "done"
                                                      ELSE Unblocked(task[o])]
    /\ sessions' = [s \in Sids |->
                      IF \E o \in Opens : task[o] = "sending" /\ sid[o] = s
                        THEN NoOpen ELSE sessions[s]]
    /\ UNCHANGED <<sid, cancel, all, ttyVars>>

(***************************************************************************)
(* The reader thread                                                       *)
(***************************************************************************)

\* The loop has ended: the flag is set and the descriptor closed, then the
\* thread waits for the helper.
ReaderLets(o) ==
    /\ reader' = [reader EXCEPT ![o] = "wait"]
    /\ UNCHANGED <<agentVars, writer, shell>>

\* Mutant: a blocking read, which only the terminal's end interrupts.
ReaderSeesEof(o) ==
    /\ reader[o] = "poll"
    /\ shell[o] = "gone"
    /\ ReaderLets(o)

\* The poll is over after 200 ms at the latest; a terminal nobody has open
\* on the other side reads as an error.
ReaderSees(o) ==
    /\ reader[o] = "poll"
    /\ closed(o) \/ shell[o] = "gone"
    /\ ReaderLets(o)

ReaderReads(o) ==
    /\ reader[o] = "poll"
    /\ ~closed(o)
    /\ shell[o] = "up"
    /\ reader' = [reader EXCEPT ![o] = "send"]
    /\ UNCHANGED <<agentVars, writer, shell>>

ReaderSendFails(o) ==
    /\ reader[o] = "send"
    /\ ~HasReceiver(o)
    /\ ReaderLets(o)

\* child.wait() returns; with the thread goes the output sender.
ReaderReaps(o) ==
    /\ reader[o] = "wait"
    /\ shell[o] = "gone"
    /\ reader' = [reader EXCEPT ![o] = "ended"]
    /\ UNCHANGED <<agentVars, writer, shell>>

(***************************************************************************)
(* The writer thread                                                       *)
(***************************************************************************)

\* Mutant: a writer that ends when no input waits.
WriterEndedIdle(o) ==
    \/ writer[o] = "recv"
    \/ writer[o] = "stuck" /\ shell[o] = "gone"

\* Nobody can send input any more, or the write fails.
WriterEnded(o) ==
    \/ writer[o] = "recv" /\ ~HasInputSender(o)
    \/ writer[o] = "stuck" /\ shell[o] = "gone"

WriterEnds(o) ==
    /\ WriterEnded(o)
    /\ writer' = [writer EXCEPT ![o] = "ended"]
    /\ UNCHANGED <<agentVars, reader, shell>>

(***************************************************************************)
(* The shell, seen through the terminal                                    *)
(***************************************************************************)

\* The user leaves the shell, or the instance stops.
ShellExits(o) ==
    /\ shell[o] = "up"
    /\ shell' = [shell EXCEPT ![o] = "gone"]
    /\ UNCHANGED <<agentVars, reader, writer>>

\* The threads and tasks that hold a master descriptor.
Holders(o) ==
    {t \in {"reader", "writer", "resizer"} :
        \/ t = "reader" /\ reader[o] \in {"poll", "send"}
        \/ t = "writer" /\ writer[o] \in {"recv", "stuck"}
        \/ t = "resizer" /\ HasResizeSender(o)}

\* The last master descriptor is gone: the kernel hangs the shell up.
Hangup(o) ==
    /\ shell[o] = "up"
    /\ Holders(o) = {}
    /\ shell' = [shell EXCEPT ![o] = "gone"]
    /\ UNCHANGED <<agentVars, reader, writer>>

(***************************************************************************)
(* The specification                                                       *)
(***************************************************************************)

Reader(o) ==
    \/ ReaderSees(o)
    \/ ReaderSendFails(o)
    \/ ReaderReaps(o)

ConsoleNext ==
    \/ \E o \in Opens :
          \/ Open(o) \/ OpenFails(o) \/ OpenDone(o)
          \/ Cancelled(o) \/ Output(o) \/ OutputEnds(o)
          \/ ReaderReads(o) \/ Reader(o) \/ WriterEnds(o)
          \/ ShellExits(o) \/ Hangup(o)
    \/ \E s \in Sids : Input(s) \/ Close(s)
    \/ CloseAll \/ Congest \/ Transmit \/ TransmitEnds

ConsoleSpec == ConsoleInit /\ [][ConsoleNext]_consoleVars

\* Tasks and threads are scheduled and the transport takes envelopes.  A
\* select! that finds both the token cancelled and a chunk of output picks
\* one at random, so a cancelled session is not passed over for ever (SF).
ConsoleFairness ==
    /\ \A o \in Opens :
          /\ WF_consoleVars(OpenFails(o) \/ OpenDone(o) \/ OutputEnds(o))
          /\ SF_consoleVars(Cancelled(o))
          /\ WF_consoleVars(Output(o))
          /\ WF_consoleVars(Reader(o))
          /\ WF_consoleVars(WriterEnds(o))
          /\ WF_consoleVars(Hangup(o))
    /\ WF_consoleVars(Transmit)
    /\ WF_consoleVars(TransmitEnds)

ConsoleFairSpec == ConsoleSpec /\ ConsoleFairness

(***************************************************************************)
(* Properties                                                              *)
(***************************************************************************)

\* Nothing of the session is left in the agent or in the instance.
Ended(o) ==
    /\ task[o] = "done"
    /\ shell[o] # "up"
    /\ {reader[o], writer[o]} \subseteq {"none", "ended"}

\* Another command of the stream carries the same identifier.
Contested(o) == \E p \in Opens \ {o} : sid[p] = sid[o] /\ task[p] # "none"

\* A console whose identifier no other command uses stays attached: while
\* its task serves it, nobody has asked it to close and its shell runs, its
\* entry is in the map and all three owners keep the terminal open.
StaysAttached ==
    \A o \in Opens :
        (/\ task[o] \in {"connecting", "live", "sending"}
         /\ ~Contested(o)
         /\ shell[o] = "up")
        => /\ sessions[sid[o]] = o
           /\ Holders(o) = {"reader", "writer", "resizer"}

\* A console ends, to the last thread and with its shell, when the stream it
\* was opened on ends, when the platform closes it and when its shell is gone
\* (the user left it or the instance stopped): also when its opening was still
\* under way, when another command replaced or removed its entry, and when
\* the stream no longer takes its output.  The exception is a shell that runs
\* on and does not read what was written to it: the writer then keeps the
\* terminal open.
ConsoleEnds ==
    \A o \in Opens :
        (task[o] # "none" /\ (all \/ cancel[o] \/ shell[o] = "gone"))
        ~> (Ended(o) \/ (writer[o] = "stuck" /\ shell[o] = "up"))

\* A console whose entry was replaced detaches, its input sender having been
\* dropped.  It does not: its task keeps a resize sender and waits for the
\* reader, which waits for the shell, which the resize task keeps up.
ReplacedEnds ==
    \A o \in Opens :
        (task[o] = "live" /\ ~HasInputSender(o)) ~> (Ended(o) \/ writer[o] = "stuck")
=============================================================================
