------------------------------- MODULE Panel --------------------------------
(***************************************************************************)
(* The management panel (web/mod.rs), the configuration store (config.rs)  *)
(* and what follows from them in the agent: the platform session (the loop *)
(* of Agent::run in platform/mod.rs), which uses the stored token, and the *)
(* dedicated addresses of a node without one (local_wg.rs).                *)
(*                                                                         *)
(* Requests run concurrently, each up to its next await; a request whose   *)
(* client disconnects is dropped at one.  The store's lock covers an       *)
(* update from reading the old configuration to committing the new one.    *)
(* Reconciling the host's tunnels is one step here; Tunnels has its parts. *)
(***************************************************************************)
EXTENDS Naturals, Sequences

CONSTANTS
    Reqs,          \* requests served at once
    Bindings,      \* dedicated addresses the owner may bind
    Token,         \* the token the platform issued
    LoginFailures, \* LOGIN_MAX_FAILURES
    MaxOps,        \* bound: requests
    MaxSessions,   \* bound: sessions ever opened
    MaxMishaps     \* bound: disconnects, failing writes and rounds, restarts, lost streams

Absent == "none"
Init0 == "init"    \* the task that applies the bindings after a start
Procs == Reqs \cup {Init0}

ASSUME ReqsAssumption == Absent \notin Reqs /\ Init0 \notin Reqs

VARIABLES
    cfg,        \* the configuration in memory: token, password, another setting
    file,       \* config.toml
    writer,     \* who holds the store's write lock
    sessions,   \* panel sessions
    failures,   \* failed logins that count against the client
    req,        \* req[r]: the request in progress
    agent,      \* Agent::run: where it is, and the token it took
    permit,     \* the stored wake-up of Agent.reconnect
    hasInst,    \* there is a local instance
    binds,      \* wg-local.json
    host,       \* bindings the host's tunnels were last reconciled to
    sync,       \* a platform round that was answered and is not applied yet
    opened,     \* opened[s]: the password session s was opened with, and whether a
                \*   change was completed while that login was under way
    changer,    \* the session that changed the password last
    last,       \* per setting, the value that was written last
    sure,       \* the last round on the host ran alone and to its end
    ops, mishaps

store == <<cfg, file, writer, last>>
access == <<sessions, failures, opened, changer>>
platform == <<agent, permit, sync>>
local == <<hasInst, binds, host, sure>>
bounds == <<ops, mishaps>>
panelVars == <<store, access, req, platform, local, bounds>>

Idle == [at |-> "idle"]
At(r, pc) == req[r].at = pc
GoOn(r, pc) == req' = [req EXCEPT ![r].at = pc]
End(r) == req' = [req EXCEPT ![r] = Idle]

Operation(r) == At(r, "idle") /\ r \in Reqs /\ ops < MaxOps /\ ops' = ops + 1 /\ UNCHANGED mishaps
Mishap == mishaps < MaxMishaps /\ mishaps' = mishaps + 1 /\ UNCHANGED ops

\* A configured node without a token, just started, its owner logged in; it may have an
\* instance with bindings.
PanelInit ==
    /\ cfg = [token |-> Absent, password |-> 0, limit |-> 0]
    /\ file = cfg /\ last = cfg /\ writer = Absent
    /\ sessions = {1} /\ failures = 0 /\ changer = 0
    /\ opened = <<[password |-> 0, late |-> FALSE]>>
    /\ req = [r \in Procs |-> IF r = Init0 THEN [at |-> "apply"] ELSE Idle]
    /\ agent = [pc |-> "read", token |-> Absent]
    /\ permit = FALSE /\ sync = FALSE
    /\ hasInst \in BOOLEAN /\ binds \in {{}, Bindings} /\ (binds # {} => hasInst)
    /\ host = binds /\ sure = TRUE
    /\ ops = 0 /\ mishaps = 0

Standalone == writer = Absent /\ cfg.token = Absent

-----------------------------------------------------------------------------
(* Sessions.                                                               *)

\* login: refused after too many failures; the stored hash is read, and the password is
\* verified on another thread.
Login(r, good) ==
    /\ Operation(r)
    /\ failures < LoginFailures
    /\ writer = Absent
    /\ req' = [req EXCEPT ![r] = [at |-> "login", password |-> cfg.password,
                                  good |-> good, overtaken |-> FALSE]]
    /\ UNCHANGED <<store, access, platform, local>>

\* The outcome: one more failure, or a fresh session.
LoginDone(r) ==
    /\ At(r, "login")
    /\ IF req[r].good
       THEN /\ Len(opened) < MaxSessions
            /\ failures' = 0
            /\ sessions' = sessions \cup {Len(opened) + 1}
            /\ opened' = Append(opened, [password |-> req[r].password,
                                         late |-> req[r].overtaken])
       ELSE failures' = failures + 1 /\ UNCHANGED <<sessions, opened>>
    /\ End(r)
    /\ UNCHANGED <<store, changer, platform, local, bounds>>

\* LOGIN_WINDOW passes for the oldest failure.
ForgetFailure ==
    /\ failures > 0
    /\ failures' = failures - 1
    /\ UNCHANGED <<store, sessions, opened, changer, req, platform, local, bounds>>

\* logout, or SESSION_TTL has passed since the session's last request.
Logout(s) ==
    /\ s \in sessions
    /\ sessions' = sessions \ {s}
    /\ UNCHANGED <<store, failures, opened, changer, req, platform, local, bounds>>

-----------------------------------------------------------------------------
(* Settings.  Every request of a session first goes through require_session*)
(* and may outlive the session.                                            *)

SessionValid(s) == s \in sessions

Accept(r, s, at) ==
    /\ Operation(r)
    /\ SessionValid(s)
    /\ req' = [req EXCEPT ![r] = at]

\* put_settings: a checked value for one of the settings.
PutSettings(r, s) ==
    /\ Accept(r, s, [at |-> "update", session |-> s, field |-> "limit", value |-> ops'])
    /\ UNCHANGED <<store, access, platform, local>>

\* change_password: the old one is verified against the hash read here, the new one
\* hashed.
ChangePassword(r, s, good) ==
    /\ writer = Absent
    /\ Accept(r, s, [at |-> "hash", session |-> s, field |-> "password", value |-> ops',
                      good |-> good])
    /\ UNCHANGED <<store, access, platform, local>>

PasswordVerified(r) ==
    /\ At(r, "hash")
    /\ IF req[r].good THEN GoOn(r, "update") ELSE End(r)
    /\ UNCHANGED <<store, access, platform, local, bounds>>

\* set_token: taking a token on a node with instances needs the owner's confirmation.
SetToken(r, s, token, confirm) ==
    /\ writer = Absent
    /\ ~(token # Absent /\ cfg.token = Absent /\ ~confirm /\ hasInst)
    /\ Accept(r, s, [at |-> "update", session |-> s, field |-> "token", value |-> token])
    /\ UNCHANGED <<store, access, platform, local>>

\* Mutated form: the change is made in memory before it is written.
UpdateMemoryFirst(r) ==
    /\ At(r, "update") /\ writer = Absent
    /\ \/ /\ writer' = r
          /\ file' = [cfg EXCEPT ![req[r].field] = req[r].value]
          /\ last' = [last EXCEPT ![req[r].field] = req[r].value]
          /\ GoOn(r, "commit")
          /\ UNCHANGED <<cfg, bounds>>
       \/ /\ Mishap /\ End(r)
          /\ cfg' = [cfg EXCEPT ![req[r].field] = req[r].value]
          /\ UNCHANGED <<writer, file, last>>
    /\ UNCHANGED <<access, platform, local>>

\* Store::update takes the write lock and writes the changed configuration to the file; a
\* failed write changes nothing and ends the request.
Update(r) ==
    /\ At(r, "update") /\ writer = Absent
    /\ \/ /\ writer' = r
          /\ file' = [cfg EXCEPT ![req[r].field] = req[r].value]
          /\ last' = [last EXCEPT ![req[r].field] = req[r].value]
          /\ GoOn(r, "commit")
          /\ UNCHANGED bounds
       \/ Mishap /\ End(r) /\ UNCHANGED <<writer, file, last>>
    /\ UNCHANGED <<cfg, access, platform, local>>

\* Then it becomes the current one, and the request goes on.
Commit(r) ==
    /\ At(r, "commit")
    /\ cfg' = file /\ writer' = Absent
    /\ CASE req[r].field = "limit" -> End(r)
         [] req[r].field = "password" -> GoOn(r, "retain")
         [] req[r].field = "token" -> GoOn(r, "notify")
    /\ UNCHANGED <<file, last, access, platform, local, bounds>>

\* Mutated form: the other sessions stay.
RetainAll(r) ==
    /\ At(r, "retain")
    /\ changer' = req[r].session
    /\ End(r)
    /\ UNCHANGED <<store, sessions, failures, opened, platform, local, bounds>>

\* Every other session is signed out.
Retain(r) ==
    /\ At(r, "retain")
    /\ sessions' = sessions \cap {req[r].session}
    /\ changer' = req[r].session
    /\ req' = [p \in Procs |->
                IF p = r THEN Idle
                ELSE IF At(p, "login") THEN [req[p] EXCEPT !.overtaken = TRUE] ELSE req[p]]
    /\ UNCHANGED <<store, failures, opened, platform, local, bounds>>

\* Mutated forms: the agent's loop is not woken; the node's own bindings are not applied.
NotifyNobody(r) ==
    /\ At(r, "notify")
    /\ IF req[r].value = Absent THEN GoOn(r, "apply") ELSE End(r)
    /\ UNCHANGED <<store, access, platform, local, bounds>>

NotifyOnly(r) ==
    /\ At(r, "notify")
    /\ permit' = TRUE
    /\ End(r)
    /\ UNCHANGED <<store, access, agent, sync, local, bounds>>

\* reconnect_now; a node that gave its token up applies its own bindings.
Notify(r) ==
    /\ At(r, "notify")
    /\ permit' = TRUE
    /\ IF req[r].value = Absent THEN GoOn(r, "apply") ELSE End(r)
    /\ UNCHANGED <<store, access, agent, sync, local, bounds>>

-----------------------------------------------------------------------------
(* Instances and bindings of a node without a token (require_standalone).  *)

\* create_instance.
Create(r, s) ==
    /\ Standalone
    /\ Accept(r, s, [at |-> "create"])
    /\ UNCHANGED <<store, access, platform, local>>

\* reinstall_instance, for an instance that was listed; create_locked does not ask whether
\* it is still there.
Reinstall(r, s) ==
    /\ Standalone /\ hasInst
    /\ Accept(r, s, [at |-> "create"])
    /\ UNCHANGED <<store, access, platform, local>>

Created(r) ==
    /\ At(r, "create")
    /\ hasInst' = TRUE
    /\ End(r)
    /\ UNCHANGED <<store, access, platform, binds, host, sure, bounds>>

\* delete_instance: the instance, its forwards, then its bindings.
Delete(r, s) ==
    /\ Standalone
    /\ Accept(r, s, [at |-> "delete"])
    /\ UNCHANGED <<store, access, platform, local>>

Deleted(r) ==
    /\ At(r, "delete")
    /\ hasInst' = FALSE
    /\ GoOn(r, "unbind")
    /\ UNCHANGED <<store, access, platform, binds, host, sure, bounds>>

\* The list changes under rounds that were prepared from the old one.
Disturbed == [p \in Procs |-> IF At(p, "applying") THEN [req[p] EXCEPT !.clean = FALSE]
                              ELSE req[p]]
Rebind(r, next) ==
    /\ binds' = next
    /\ req' = IF next = binds THEN [req EXCEPT ![r] = Idle]
              ELSE [Disturbed EXCEPT ![r] = [at |-> "apply"]]

Unbind(r) ==
    /\ At(r, "unbind")
    /\ \/ Rebind(r, {}) /\ UNCHANGED bounds
       \/ Mishap /\ End(r) /\ UNCHANGED binds
    /\ UNCHANGED <<store, access, platform, hasInst, host, sure>>

\* add_wg: the instance is looked up first; an address that is bound is refused.
AddWg(r, s, b) ==
    /\ Standalone /\ hasInst
    /\ Accept(r, s, [at |-> "bind", binding |-> b])
    /\ UNCHANGED <<store, access, platform, local>>

Bind(r) ==
    /\ At(r, "bind")
    /\ Rebind(r, binds \cup {req[r].binding})
    /\ UNCHANGED <<store, access, platform, hasInst, host, sure, bounds>>

\* delete_wg has nothing to wait for before the round.
DeleteWg(r, s, b) ==
    /\ Standalone /\ Operation(r)
    /\ s \in sessions /\ b \in binds
    /\ Rebind(r, binds \ {b})
    /\ UNCHANGED <<store, access, platform, hasInst, host, sure>>

\* LocalWg::apply copies the list, then waits for the tunnels.  After a start this is
\* done on a node without a token only.
ApplyRound(r) ==
    /\ At(r, "apply")
    /\ IF r = Init0 /\ ~(Standalone) THEN End(r)
       ELSE req' = [req EXCEPT ![r] = [at |-> "applying", list |-> binds, clean |-> TRUE]]
    /\ r = Init0 => writer = Absent
    /\ UNCHANGED <<store, access, platform, local, bounds>>

\* The round, which may fail half-way.
Applied(r) ==
    /\ At(r, "applying")
    /\ End(r)
    /\ \/ /\ host' = req[r].list
          /\ sure' = (req[r].clean /\ ~sync /\ \A p \in Procs \ {r} : ~At(p, "applying"))
          /\ UNCHANGED bounds
       \/ Mishap /\ sure' = FALSE /\ UNCHANGED host
    /\ UNCHANGED <<store, access, platform, hasInst, binds>>

-----------------------------------------------------------------------------
(* Agent::run.                                                             *)

Agent(pc, token) == agent' = [pc |-> pc, token |-> token]

\* The configuration is read; without a token the platform is not contacted.
ReadConfig ==
    /\ agent.pc = "read" /\ writer = Absent
    /\ Agent(IF cfg.token = Absent THEN "wait" ELSE "connect", cfg.token)
    /\ UNCHANGED <<store, access, req, permit, sync, local, bounds>>

\* session: the stream opens, or cannot be opened.
Connect ==
    /\ agent.pc = "connect"
    /\ \E pc \in {"open", "wait"} : Agent(pc, agent.token)
    /\ UNCHANGED <<store, access, req, permit, sync, local, bounds>>

\* A wake-up ends the stream, or the wait before the next one.
Wake ==
    /\ agent.pc \in {"open", "wait"} /\ permit
    /\ permit' = FALSE
    /\ Agent(IF agent.pc = "open" THEN "wait" ELSE "read", agent.token)
    /\ UNCHANGED <<store, access, req, sync, local, bounds>>

\* The delay before the next attempt is over.
WaitOver ==
    /\ agent.pc = "wait"
    /\ Agent("read", agent.token)
    /\ UNCHANGED <<store, access, req, permit, sync, local, bounds>>

\* The platform closes the stream, or stops pinging.
StreamEnds ==
    /\ agent.pc = "open" /\ Mishap
    /\ Agent("wait", agent.token)
    /\ UNCHANGED <<store, access, req, permit, sync, local>>

\* wg_sync_loop: the platform answers a round; it is carried out even when the stream
\* has ended meanwhile.  The platform wants no bindings here.
SyncReply ==
    /\ agent.pc = "open" /\ ~sync
    /\ sync' = TRUE
    /\ UNCHANGED <<store, access, req, agent, permit, local, bounds>>

SyncApply ==
    /\ sync
    /\ sync' = FALSE
    /\ host' = {} /\ sure' = (sure /\ cfg.token # Absent)
    /\ req' = Disturbed
    /\ UNCHANGED <<store, access, agent, permit, hasInst, binds, bounds>>

-----------------------------------------------------------------------------
(* Faults.                                                                 *)

\* The client disconnects and the request is dropped where it waits, or what it waits
\* for fails.
Disconnect(r) ==
    /\ r \in Reqs /\ req[r].at \in {"login", "hash", "create", "delete", "bind", "applying"}
    /\ Mishap
    /\ End(r)
    /\ sure' = (sure /\ ~At(r, "applying"))
    /\ UNCHANGED <<store, access, platform, hasInst, binds, host>>

\* The agent restarts with the configuration it finds.
Restart ==
    /\ Mishap
    /\ cfg' = file /\ writer' = Absent
    /\ sessions' = {} /\ failures' = 0
    /\ req' = [r \in Procs |-> IF r = Init0 THEN [at |-> "apply"] ELSE Idle]
    /\ agent' = [pc |-> "read", token |-> Absent] /\ permit' = FALSE /\ sync' = FALSE
    /\ sure' = FALSE
    /\ UNCHANGED <<file, last, opened, changer, hasInst, binds, host>>

-----------------------------------------------------------------------------
Serve(r) ==
    \/ LoginDone(r) \/ PasswordVerified(r) \/ Update(r) \/ Commit(r) \/ Retain(r) \/ Notify(r)
    \/ Created(r) \/ Deleted(r) \/ Unbind(r) \/ Bind(r) \/ ApplyRound(r) \/ Applied(r)

AgentStep == ReadConfig \/ Connect \/ Wake \/ WaitOver

Arrive(r) ==
    \/ \E good \in BOOLEAN : Login(r, good)
    \/ \E s \in sessions :
        \/ PutSettings(r, s) \/ Create(r, s) \/ Reinstall(r, s) \/ Delete(r, s)
        \/ \E good \in BOOLEAN : ChangePassword(r, s, good)
        \/ \E token \in {Absent, Token}, confirm \in BOOLEAN : SetToken(r, s, token, confirm)
        \/ \E b \in Bindings : AddWg(r, s, b) \/ DeleteWg(r, s, b)

PanelNext ==
    \/ \E r \in Reqs : Arrive(r) \/ Disconnect(r)
    \/ \E r \in Procs : Serve(r)
    \/ \E s \in sessions : Logout(s)
    \/ ForgetFailure
    \/ AgentStep \/ StreamEnds \/ SyncReply \/ SyncApply
    \/ Restart

PanelSpec == PanelInit /\ [][PanelNext]_panelVars

\* Requests and the agent's loop go on; every wait of theirs has a time limit.
Fairness ==
    /\ \A r \in Procs : WF_panelVars(Serve(r))
    /\ WF_panelVars(ReadConfig) /\ WF_panelVars(Connect)
    /\ WF_panelVars(Wake) /\ WF_panelVars(WaitOver)

PanelFairSpec == PanelSpec /\ Fairness

-----------------------------------------------------------------------------
(* Properties.                                                             *)

\* The types of the state: a request carries what its handler holds at that point.
Settings == [token : {Absent, Token}, password : Nat, limit : Nat]
Simple == [at : {"idle", "create", "delete", "unbind", "apply"}]
Logins == [at : {"login"}, password : Nat, good : BOOLEAN, overtaken : BOOLEAN]
LimitChanges == [at : {"update", "commit"}, session : Nat, field : {"limit"}, value : Nat]
PasswordChanges == [at : {"hash", "update", "commit", "retain"}, session : Nat,
                    field : {"password"}, value : Nat, good : BOOLEAN]
TokenChanges == [at : {"update", "commit", "notify", "apply"}, session : Nat,
                 field : {"token"}, value : {Absent, Token}]
Binds == [at : {"bind"}, binding : Bindings]
Rounds == [at : {"applying"}, list : SUBSET Bindings, clean : BOOLEAN]
Requests ==
    Simple \cup Logins \cup LimitChanges \cup PasswordChanges \cup TokenChanges
        \cup Binds \cup Rounds

PanelTypeOK ==
    /\ cfg \in Settings /\ file \in Settings /\ last \in Settings
    /\ writer \in Reqs \cup {Absent}
    /\ opened \in Seq([password : Nat, late : BOOLEAN])
    /\ sessions \subseteq 1..Len(opened) /\ failures \in Nat /\ changer \in Nat
    /\ req \in [Procs -> Requests]
    /\ req[Init0].at \in {"idle", "apply", "applying"}
    /\ agent \in [pc : {"read", "connect", "open", "wait"}, token : {Absent, Token}]
    /\ permit \in BOOLEAN /\ sync \in BOOLEAN /\ hasInst \in BOOLEAN /\ sure \in BOOLEAN
    /\ binds \subseteq Bindings /\ host \subseteq Bindings
    /\ ops \in Nat /\ mishaps \in Nat

\* A setting has the value that was written to it last, in memory and in the file: no
\* update takes another one's change back, whatever fails, and a restart loses none.
SettingsKept == writer = Absent => cfg = last /\ file = last

\* After a change of the password, the sessions are those opened with the new one, the
\* one that made the change, and those of logins that were under way then.
SignedOut ==
    (\A r \in Reqs : ~At(r, "retain") /\ ~At(r, "commit")) =>
        \A s \in sessions :
            opened[s].password = cfg.password \/ s = changer \/ opened[s].late

\* Without a token, and with nothing under way, the host has the stored bindings, unless
\* the last round did not run alone and to its end.
BindingsApplied ==
    (/\ Standalone /\ ~sync /\ sure
     /\ \A r \in Procs : ~(req[r].at \in {"apply", "applying", "notify"})) => host = binds

\* The platform is not talked to with a token that is no longer the configured one:
\* the session ends.
Stale == agent.pc \in {"connect", "open"} /\ agent.token # cfg.token
StaleSessionEnds == Stale ~> ~Stale

\* What LocalWg::apply says: the host converges to exactly the stored bindings.
BindingsConverge ==
    (Standalone /\ ~sync /\ \A r \in Procs : At(r, "idle")) => host = binds

\* What change_password says: every other session is signed out.
OthersSignedOut ==
    (\A r \in Reqs : ~At(r, "retain") /\ ~At(r, "commit")) =>
        \A s \in sessions : opened[s].password = cfg.password \/ s = changer
=============================================================================
