----------------------------- MODULE UdpSessions -----------------------------
(***************************************************************************)
(* The session-tracked UDP forwarder of one listener.  The receive loop is *)
(* the only reader of the listener socket and never waits: a datagram goes *)
(* to the session the map names, or a task is spawned that sets a session  *)
(* up and then pumps the replies.  Two datagrams of a new client that      *)
(* arrive before the first session stands spawn two sessions; the later    *)
(* one takes the map entry, and the earlier one must not evict it when it  *)
(* ends.  A drain aborts every task wherever it is.                        *)
(***************************************************************************)
EXTENDS Integers, Sequences, FiniteSets

CONSTANTS
  Clients,        \* the peers of the listener
  SessionLimit,   \* MAX_CONCURRENT_SESSIONS
  MaxDatagrams    \* bound: datagrams the clients send

ASSUME SessionLimitAssumption == SessionLimit \in Nat \ {0} /\ MaxDatagrams \in Nat

VARIABLES
  sessions,   \* the session map: the task of each client, 0 for none
  pumps,      \* the spawned tasks: client, phase, and the bumps of last_seen
  permits,    \* what is left of the semaphore
  live,       \* coxswain_proxy_udp_sessions_active
  forwarder,  \* the receive loop: running, aborting, exited
  sent        \* datagrams sent so far

udpVars == <<sessions, pumps, permits, live, forwarder, sent>>

PumpIds == DOMAIN pumps
Established == {i \in PumpIds : pumps[i].phase = "pumping"}
Unfinished == {i \in PumpIds : pumps[i].phase # "done"}

Pumps == [client : Clients, phase : {"setup", "pumping", "done"}, recent : {"yes", "no"}]

UdpTypeOK ==
  /\ sessions \in [Clients -> 0 .. MaxDatagrams]
  /\ pumps \in Seq(Pumps)
  /\ permits \in 0 .. SessionLimit
  /\ live \in 0 .. SessionLimit
  /\ forwarder \in {"running", "aborting", "exited"}
  /\ sent \in 0 .. MaxDatagrams

UdpInit ==
  /\ sessions = [c \in Clients |-> 0]
  /\ pumps = <<>>
  /\ permits = SessionLimit
  /\ live = 0
  /\ forwarder = "running"
  /\ sent = 0

-----------------------------------------------------------------------------
(* The receive loop *)

\* handle_datagram on the session the map names: last_seen is bumped.
RepeatDatagram(c) ==
  /\ forwarder = "running" /\ sent < MaxDatagrams
  /\ sessions[c] # 0
  /\ pumps' = [pumps EXCEPT ![sessions[c]].recent = "yes"]
  /\ sent' = sent + 1
  /\ UNCHANGED <<sessions, permits, live, forwarder>>

\* The permit is taken before the task is spawned, so a set-up is counted too.
Admitted(c) == permits > 0 /\ c \in Clients

FirstDatagram(c) ==
  /\ forwarder = "running" /\ sent < MaxDatagrams
  /\ sessions[c] = 0
  /\ sent' = sent + 1
  /\ IF Admitted(c)
     THEN /\ permits' = permits - 1
          /\ pumps' = Append(pumps, [client |-> c, phase |-> "setup", recent |-> "yes"])
     ELSE UNCHANGED <<permits, pumps>>
  /\ UNCHANGED <<sessions, live, forwarder>>

\* No route, an empty backend group or a receive error drops the datagram.
DroppedDatagram ==
  /\ forwarder = "running" /\ sent < MaxDatagrams
  /\ sent' = sent + 1
  /\ UNCHANGED <<sessions, pumps, permits, live, forwarder>>

-----------------------------------------------------------------------------
(* A session task.  It also runs on for a while after abort_all, which only  *)
(* schedules the cancellation.                                               *)

\* A failed bind, connect or first send drops the frame and with it the permit.
SetupFails(i) ==
  /\ pumps[i].phase = "setup"
  /\ pumps' = [pumps EXCEPT ![i].phase = "done"]
  /\ permits' = permits + 1
  /\ UNCHANGED <<sessions, live, forwarder, sent>>

\* SessionGuard::new: the map entry and the gauge together.
Establish(i) ==
  /\ pumps[i].phase = "setup"
  /\ pumps' = [pumps EXCEPT ![i].phase = "pumping"]
  /\ sessions' = [sessions EXCEPT ![pumps[i].client] = i]
  /\ live' = live + 1
  /\ UNCHANGED <<permits, forwarder, sent>>

\* Mutant: the entry of the client is removed whoever owns it.
EvictedAny(i) == [sessions EXCEPT ![pumps[i].client] = 0]
\* Drop for SessionGuard: remove_if with Arc::ptr_eq.
Evicted(i) == [sessions EXCEPT ![pumps[i].client] = IF @ = i THEN 0 ELSE @]

\* Drop releases the entry, the gauge and the permit of an established session;
\* before that there is only the permit.
Teardown(i) ==
  /\ pumps' = [pumps EXCEPT ![i].phase = "done"]
  /\ permits' = permits + 1
  /\ IF pumps[i].phase = "pumping"
     THEN sessions' = Evicted(i) /\ live' = live - 1
     ELSE UNCHANGED <<sessions, live>>
  /\ UNCHANGED <<forwarder, sent>>

RecvError(i) == pumps[i].phase = "pumping" /\ Teardown(i)

\* The idle timeout of the pump's recv: the session ends only if last_seen has
\* not moved since; otherwise the pump waits once more.
IdleTick(i) ==
  /\ pumps[i].phase = "pumping"
  /\ \/ pumps[i].recent = "no" /\ Teardown(i)
     \/ /\ pumps[i].recent = "yes"
        /\ pumps' = [pumps EXCEPT ![i].recent = "no"]
        /\ UNCHANGED <<sessions, permits, live, forwarder, sent>>

-----------------------------------------------------------------------------
(* Drain *)

UdpDrain ==
  /\ forwarder = "running"
  /\ forwarder' = "aborting"
  /\ UNCHANGED <<sessions, pumps, permits, live, sent>>

\* Mutant: the code after the pump loop does the cleanup, an abort skips it.
AbortedSilently(i) ==
  /\ forwarder = "aborting" /\ i \in Unfinished
  /\ pumps' = [pumps EXCEPT ![i].phase = "done"]
  /\ permits' = permits + 1
  /\ UNCHANGED <<sessions, live, forwarder, sent>>
\* abort_all drops the future wherever it waits; join_next reaps it.
Aborted(i) == forwarder = "aborting" /\ i \in Unfinished /\ Teardown(i)

UdpExit ==
  /\ forwarder = "aborting" /\ Unfinished = {}
  /\ forwarder' = "exited"
  /\ UNCHANGED <<sessions, pumps, permits, live, sent>>

UdpNext ==
  \/ \E c \in Clients : RepeatDatagram(c) \/ FirstDatagram(c)
  \/ DroppedDatagram \/ UdpDrain \/ UdpExit
  \/ \E i \in PumpIds : \/ SetupFails(i) \/ Establish(i) \/ RecvError(i)
                        \/ IdleTick(i) \/ Aborted(i)

UdpSpec == UdpInit /\ [][UdpNext]_udpVars

-----------------------------------------------------------------------------
(* Properties *)

\* The map never names a session that has ended (the idle pump's last look and its
\* eviction are one step here; in the code a datagram may reach the socket in between).
MapNamesLive == \A c \in Clients : sessions[c] # 0 =>
                  sessions[c] \in Established /\ pumps[sessions[c]].client = c

\* The three resources of a session agree at every moment, on every way a session
\* can end: the permits taken are the unfinished tasks, the gauge counts the
\* established sessions, the map names none that has ended, and at the exit of the
\* listener all are exact.
SessionsAccounted ==
  /\ permits + Cardinality(Unfinished) = SessionLimit
  /\ live = Cardinality(Established)
  /\ MapNamesLive
  /\ forwarder = "exited" => live = 0 /\ permits = SessionLimit

\* A client with sessions standing loses its map entry only when the session that
\* owns it ends: the loser of a race of two first datagrams never evicts the winner.
NeverEvictsAnother ==
  [][\A c \in Clients : sessions[c] # 0 /\ sessions'[c] = 0 =>
       pumps'[sessions[c]].phase = "done"]_udpVars
=============================================================================
