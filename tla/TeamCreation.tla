---------------------------- MODULE TeamCreation ----------------------------
(***************************************************************************)
(* Manager::createTeam (include/manager.hpp) in the multi-threaded build,  *)
(* over the processes of one application.  The threads of the root of a    *)
(* team wait on group_cond until every other participant has connected;    *)
(* the I/O thread of the root, in addinQ, puts the connections of a        *)
(* collective in groupsReady and wakes one waiting thread.                 *)
(*                                                                         *)
(* A team is known by its ID, which contains the participants, the root    *)
(* and the type.  A Handle is known by the process at its other end.  The  *)
(* sections under group_mutex and ctx_mutex are single steps.              *)
(***************************************************************************)
EXTENDS Integers, Sequences, FiniteSets, Functions

CONSTANTS
  Proc,      \* processes, by application name
  Team,      \* team IDs
  Thread,    \* application threads
  Host,      \* Thread -> Proc
  Root,      \* Team -> Proc
  Ordering,  \* Team -> the other participants, in the order of the string
  NoProc,    \* what the end iterator of a map points to
  Misconfigured, \* teams with a participant or a root the config file lacks
  Program,   \* Thread -> the calls of createTeam it makes, in order
  Failures   \* TRUE: connections may fail

Others(team) == Range(Ordering[team])

ASSUME HostAssumption == Host \in [Thread -> Proc] /\ NoProc \notin Proc
ASSUME TeamAssumption ==
  /\ Root \in [Team -> Proc] /\ Ordering \in [Team -> Seq(Proc)]
  /\ Misconfigured \subseteq Team
  /\ \A team \in Team : /\ Root[team] \notin Others(team)
                        /\ IsInjective(Ordering[team])
ASSUME ProgramAssumption ==
  /\ Program \in [Thread -> Seq(Team)]
  /\ \A t \in Thread : \A i \in DOMAIN Program[t] :
       Host[t] \in Others(Program[t][i]) \cup {Root[Program[t][i]]}
ASSUME FailuresAssumption == Failures \in BOOLEAN

VARIABLES
  createdTeams, \* by process
  arriving,     \* connections of a team that its root has not read yet
  groupsReady,  \* of the root of each team: participants that connected
  asleep,       \* threads sleeping in group_cond
  contexts,     \* by process: the teams it has a CollectiveContext for
  coll_handles, \* by process and team: the handles given to the context
  th            \* program counter, calls made, their results

vars == <<createdTeams, arriving, groupsReady, asleep, contexts, coll_handles, th>>

Pc == {"enter", "insert", "connect", "wait", "asleep", "install"}
Outcome == {"ok", "refused", "failed"}

TypeOK ==
  /\ createdTeams \in [Proc -> SUBSET Team]
  /\ arriving \in [Team -> SUBSET Proc] /\ groupsReady \in [Team -> SUBSET Proc]
  /\ asleep \subseteq Thread
  /\ contexts \in [Proc -> SUBSET Team]
  /\ coll_handles \in [Proc -> [Team -> Seq(Proc)]]
  /\ th \in [Thread -> [pc : Pc, res : Seq(Outcome)]]

Init ==
  /\ createdTeams = [p \in Proc |-> {}]
  /\ arriving = [team \in Team |-> {}] /\ groupsReady = [team \in Team |-> {}]
  /\ asleep = {}
  /\ contexts = [p \in Proc |-> {}]
  /\ coll_handles = [p \in Proc |-> [team \in Team |-> <<>>]]
  /\ th = [t \in Thread |-> [pc |-> "enter", res |-> <<>>]]

-----------------------------------------------------------------------------
(* createTeam *)

\* The call in progress, or the next one.
Calling(t) == Len(th[t].res) < Len(Program[t])
CurTeam(t) == Program[t][Len(th[t].res) + 1]

Goto(t, p) == th' = [th EXCEPT ![t].pc = p]
Return(t, o) == th' = [th EXCEPT ![t] = [pc |-> "enter", res |-> Append(@.res, o)]]

\* createdTeams.count(teamID), read without a lock
AlreadyCreated(t) == CurTeam(t) \in createdTeams[Host[t]]

Enter(t) ==
  /\ th[t].pc = "enter" /\ Calling(t)
  /\ IF AlreadyCreated(t) THEN Return(t, "refused") ELSE Goto(t, "insert")
  /\ UNCHANGED <<createdTeams, arriving, groupsReady, asleep, contexts, coll_handles>>

\* createdTeams.insert(teamID), then the configuration is looked up.
Insert(t) ==
  /\ th[t].pc = "insert"
  /\ createdTeams' = [createdTeams EXCEPT ![Host[t]] = @ \cup {CurTeam(t)}]
  /\ IF CurTeam(t) \in Misconfigured THEN Return(t, "failed")
     ELSE Goto(t, IF Host[t] = Root[CurTeam(t)] THEN "wait" ELSE "connect")
  /\ UNCHANGED <<arriving, groupsReady, asleep, contexts, coll_handles>>

\* A participant connects to the root and sends flag, name and team ID.  That
\* these are sent is not checked.
Connect(t) ==
  /\ th[t].pc = "connect"
  /\ \/ /\ \/ arriving' = [arriving EXCEPT ![CurTeam(t)] = @ \cup {Host[t]}]
           \/ Failures /\ UNCHANGED arriving
        /\ coll_handles' = [coll_handles EXCEPT ![Host[t]][CurTeam(t)] = <<Root[CurTeam(t)]>>]
        /\ Goto(t, "install")
     \/ /\ Failures
        /\ Return(t, "failed") /\ UNCHANGED <<arriving, coll_handles>>
  /\ UNCHANGED <<createdTeams, groupsReady, asleep, contexts>>

\* CollectiveContext::update: as many connections as participants but one
GroupAny(team) == groupsReady[team] # {} \* mutant
GroupFull(team) == groupsReady[team] # {}
                   /\ Cardinality(groupsReady[team]) = Len(Ordering[team])

\* groupsReady.at(teamID).find(appName), not compared with end()
Found(team, p) == IF p \in groupsReady[team] THEN p ELSE NoProc

\* The root evaluates the predicate of group_cond.wait; when it holds, it takes
\* the handles in the order of the participants.
Wait(t) ==
  LET team == CurTeam(t) IN
  /\ th[t].pc = "wait"
  /\ IF GroupFull(team)
       THEN /\ coll_handles' = [coll_handles EXCEPT ![Host[t]][team] =
                  [i \in 1 .. Len(Ordering[team]) |-> Found(team, Ordering[team][i])]]
            /\ groupsReady' = [groupsReady EXCEPT ![team] = {}]
            /\ Goto(t, "install") /\ UNCHANGED asleep
       ELSE /\ asleep' = asleep \cup {t} /\ Goto(t, "asleep")
            /\ UNCHANGED <<coll_handles, groupsReady>>
  /\ UNCHANGED <<createdTeams, arriving, contexts>>

\* Notified, or by a spurious wakeup: back to the predicate.
Wake(t) ==
  /\ th[t].pc = "asleep" /\ t \notin asleep
  /\ Goto(t, "wait")
  /\ UNCHANGED <<createdTeams, arriving, groupsReady, asleep, contexts, coll_handles>>

SpuriousWake(t) ==
  /\ t \in asleep
  /\ asleep' = asleep \ {t}
  /\ UNCHANGED <<createdTeams, arriving, groupsReady, contexts, coll_handles, th>>

\* setImplementation, and contexts.emplace under ctx_mutex.  setImplementation
\* fails only for an implementation that was not compiled in, which createTeam
\* has refused before (Misconfigured); createContext knows every type of a team.
Install(t) ==
  /\ th[t].pc = "install"
  /\ contexts' = [contexts EXCEPT ![Host[t]] = @ \cup {CurTeam(t)}]
  /\ Return(t, "ok")
  /\ UNCHANGED <<createdTeams, arriving, groupsReady, asleep, coll_handles>>

-----------------------------------------------------------------------------
(* The I/O thread of the root: addinQ for a connection of a collective *)

Sleepers(p) == {t \in asleep : Host[t] = p}

\* group_cond.notify_one()
NotifyNone(p) == UNCHANGED asleep \* mutant
NotifyOne(p) == \/ \E t \in Sleepers(p) : asleep' = asleep \ {t}
                \/ Sleepers(p) = {} /\ UNCHANGED asleep

AddGroup(team, p) ==
  /\ p \in arriving[team]
  /\ arriving' = [arriving EXCEPT ![team] = @ \ {p}]
  /\ groupsReady' = [groupsReady EXCEPT ![team] = @ \cup {p}]
  /\ NotifyOne(Root[team])
  /\ UNCHANGED <<createdTeams, contexts, coll_handles, th>>

-----------------------------------------------------------------------------
(* Specification *)

Run(t) == Enter(t) \/ Insert(t) \/ Connect(t) \/ Wait(t) \/ Wake(t) \/ Install(t)
Io == \E team \in Team : \E p \in Proc : AddGroup(team, p)

Finished(t) == ~Calling(t)
Done == (\A t \in Thread : Finished(t)) /\ UNCHANGED vars

Next == \/ \E t \in Thread : Run(t) \/ SpuriousWake(t)
        \/ Io
        \/ Done

Spec == Init /\ [][Next]_vars

\* Threads run.  No thread is sure to wake up without a notification.
FairSpec == Spec /\ (\A t \in Thread : WF_vars(Run(t))) /\ WF_vars(Io)

-----------------------------------------------------------------------------
(* Properties *)

\* The context of the root has the handles of all the other participants, in
\* the order of the participants string (manager.hpp 734-735), and each of them
\* comes from a process that called createTeam for this team.
GroupComplete == \A team \in Team : team \in contexts[Root[team]] =>
  /\ coll_handles[Root[team]][team] = Ordering[team]
  /\ \A p \in Others(team) : team \in createdTeams[p]

\* Thread t is inside the wait of createTeam, as the root of team.
WaitsFor(t, team) == /\ th[t].pc \in {"wait", "asleep"}
                     /\ Host[t] = Root[team] /\ CurTeam(t) = team

\* A root that waits for a team all of whose other participants have connected
\* gets the team, whatever other teams its process is waiting for
\* (manager.hpp 191 and 796: one condition variable, one predicate for each team).
CompleteTeamCreated == \A team \in Team :
  ((\E t \in Thread : WaitsFor(t, team)) /\ Others(team) \subseteq groupsReady[team])
    ~> (team \in contexts[Root[team]])

=============================================================================
