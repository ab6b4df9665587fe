------------------------ MODULE TeamCreation_proofs ------------------------
(***************************************************************************)
(* Proofs about TeamCreation: whatever the processes, the teams and the    *)
(* number of threads, and although connections may fail, a root that       *)
(* leaves group_cond.wait has the handle of every other participant.       *)
(***************************************************************************)
EXTENDS TeamCreation, FiniteSetTheorems, TLAPS

-----------------------------------------------------------------------------
(* The inductive invariant *)

\* Whoever connected for a team is another participant that recorded it.
Connected == \A team \in Team : \A p \in arriving[team] \cup groupsReady[team] :
  p \in Others(team) /\ team \in createdTeams[p]

\* The root of a team has taken the handles of all other participants.
RootHasAll(team) ==
  /\ coll_handles[Root[team]][team] = Ordering[team]
  /\ \A p \in Others(team) : team \in createdTeams[p]

\* What the program counter of createTeam says about the call.
CallOK(t) ==
  /\ Calling(t)
  /\ th[t].pc # "insert" => CurTeam(t) \in createdTeams[Host[t]]
  /\ th[t].pc = "connect" => Host[t] # Root[CurTeam(t)]
  /\ th[t].pc \in {"wait", "asleep"} => Host[t] = Root[CurTeam(t)]
  /\ th[t].pc = "install" /\ Host[t] = Root[CurTeam(t)] => RootHasAll(CurTeam(t))

InCall == \A t \in Thread : th[t].pc # "enter" => CallOK(t)

Installed == \A team \in Team : team \in contexts[Root[team]] => RootHasAll(team)

IInv == TypeOK /\ Connected /\ InCall /\ Installed

-----------------------------------------------------------------------------
(* Facts about the constants *)

\* A set of other participants that is as large as the ordering is all of them:
\* the test of CollectiveContext::update counts, and counting is enough.
LEMMA FullIsAll ==
  ASSUME NEW team \in Team, NEW S, S \subseteq Others(team),
         Cardinality(S) = Len(Ordering[team])
  PROVE  S = Others(team)
<1> DEFINE o == Ordering[team]
           n == Len(o)
<1>1. o \in Seq(Proc) /\ IsInjective(o) /\ n \in Nat /\ DOMAIN o = 1 .. n
  BY TeamAssumption
<1>2. o \in Bijection(1 .. n, Range(o))
  BY <1>1 DEF Bijection, Injection, Surjection, Range
<1>3. ExistsBijection(1 .. n, Range(o))
  BY <1>2 DEF ExistsBijection
<1>4. Cardinality(Range(o)) = n
  BY <1>1, <1>3, FS_CountingElements
<1>5. IsFiniteSet(Range(o))
  BY <1>1, <1>3, FS_NatBijection
<1>6. QED
  BY <1>4, <1>5, FS_Subset DEF Others

\* The call a thread is in is for a team that its process takes part in.
LEMMA CurTeamType ==
  ASSUME TypeOK, NEW t \in Thread, Calling(t)
  PROVE  /\ CurTeam(t) \in Team /\ Host[t] \in Proc
         /\ Root[CurTeam(t)] \in Proc
         /\ Host[t] # Root[CurTeam(t)] => Host[t] \in Others(CurTeam(t))
<1>1. th[t].res \in Seq(Outcome) /\ Len(th[t].res) \in Nat
  BY DEF TypeOK
<1>2. Program[t] \in Seq(Team)
  BY ProgramAssumption
<1>3. Len(th[t].res) + 1 \in DOMAIN Program[t]
  BY <1>1, <1>2 DEF Calling
<1>4. QED
  BY <1>2, <1>3, ProgramAssumption, HostAssumption, TeamAssumption DEF CurTeam

-----------------------------------------------------------------------------
(* The steps of a thread *)

ThType == th \in [Thread -> [pc : Pc, res : Seq(Outcome)]]
Others_same(t) == \A s \in Thread \ {t} : th'[s] = th[s]

\* A jump changes the program counter of one thread and not the call it is in.
LEMMA GotoStep ==
  ASSUME ThType, NEW t \in Thread, NEW p \in Pc, Goto(t, p)
  PROVE  /\ ThType' /\ Others_same(t)
         /\ th'[t].pc = p /\ th'[t].res = th[t].res
BY DEF ThType, Goto, Others_same

\* A return leaves the thread outside createTeam, with one more result.
LEMMA ReturnStep ==
  ASSUME ThType, NEW t \in Thread, NEW o \in Outcome, Return(t, o)
  PROVE  /\ ThType' /\ Others_same(t)
         /\ th'[t].pc = "enter" /\ th'[t].res = Append(th[t].res, o)
<1>1. th[t].res \in Seq(Outcome)
  BY DEF ThType
<1>2. Append(th[t].res, o) \in Seq(Outcome)
  BY <1>1
<1>3. th' = [th EXCEPT ![t] = [pc |-> "enter", res |-> Append(th[t].res, o)]]
  BY DEF Return
<1>4. [pc |-> "enter", res |-> Append(th[t].res, o)] \in [pc : Pc, res : Seq(Outcome)]
  BY <1>2 DEF Pc
<1>5. QED
  BY <1>3, <1>4 DEF ThType, Others_same

\* A team that is complete stays so when a step only adds to createdTeams and
\* gives handles to no root.
LEMMA RootHasAllStable ==
  ASSUME \A p \in Proc : createdTeams[p] \subseteq createdTeams'[p],
         NEW team \in Team, RootHasAll(team),
         coll_handles'[Root[team]][team] = coll_handles[Root[team]][team]
  PROVE  RootHasAll(team)'
<1>1. Others(team) \subseteq Proc
  BY TeamAssumption DEF Others, Range
<1>2. QED BY <1>1 DEF RootHasAll

\* The other threads stay where they are, and so do their calls.
LEMMA OthersKeep ==
  ASSUME IInv, NEW t \in Thread, Others_same(t),
         \A p \in Proc : createdTeams[p] \subseteq createdTeams'[p],
         \A team \in Team : RootHasAll(team) => RootHasAll(team)',
         NEW s \in Thread \ {t}, th'[s].pc # "enter"
  PROVE  CallOK(s)'
<1>1. th'[s] = th[s]
  BY DEF Others_same
<1>2. Calling(s)' = Calling(s) /\ CurTeam(s)' = CurTeam(s)
  BY <1>1 DEF Calling, CurTeam
<1>3. CallOK(s)
  BY <1>1 DEF IInv, InCall
<1>4. CurTeam(s) \in Team /\ Host[s] \in Proc
  BY <1>3, CurTeamType DEF IInv, CallOK
<1>5. RootHasAll(CurTeam(s)) => RootHasAll(CurTeam(s))'
  <2> DEFINE team == CurTeam(s)
  <2>1. RootHasAll(CurTeam(s)) =>
          /\ coll_handles'[Root[team]][team] = Ordering[team]
          /\ \A p \in Others(team) : team \in createdTeams'[p]
    BY <1>4 DEF RootHasAll
  <2>2. QED BY <1>2, <2>1 DEF RootHasAll
<1>6. QED
  BY <1>1, <1>2, <1>3, <1>4, <1>5 DEF CallOK

-----------------------------------------------------------------------------
(* Every step preserves the invariant *)

\* The initial state satisfies the invariant.
LEMMA InitInv == Init => IInv
BY TeamAssumption, HostAssumption
   DEF Init, IInv, TypeOK, Connected, InCall, Installed, Pc, Outcome

\* A call that is refused, or goes on to record the team.
LEMMA EnterInv == ASSUME IInv, NEW t \in Thread, Enter(t) PROVE IInv'
<1>1. ThType /\ TypeOK
  BY DEF IInv, TypeOK, ThType
<1>2. ThType' /\ Others_same(t) /\ (th'[t].pc = "enter" \/ (th'[t].pc = "insert" /\ Calling(t)'))
  <2>1. CASE Return(t, "refused")
    BY <1>1, <2>1, ReturnStep DEF Outcome
  <2>2. CASE Goto(t, "insert")
    <3>1. ThType' /\ Others_same(t) /\ th'[t].pc = "insert" /\ th'[t].res = th[t].res
      BY <1>1, <2>2, GotoStep DEF Pc
    <3>2. QED BY <3>1 DEF Enter, Calling
  <2>3. QED BY <2>1, <2>2 DEF Enter
<1>3. TypeOK'
  BY <1>1, <1>2 DEF Enter, TypeOK, ThType
<1>4. Connected' /\ Installed'
  BY DEF IInv, Connected, Installed, Enter, RootHasAll
<1>5. \A team \in Team : RootHasAll(team) => RootHasAll(team)'
  BY DEF Enter, RootHasAll
<1>6. InCall'
  <2>1. ASSUME NEW s \in Thread, th'[s].pc # "enter" PROVE CallOK(s)'
    <3>1. CASE s = t
      BY <1>2, <2>1, <3>1 DEF CallOK
    <3>2. CASE s # t
      BY <1>2, <1>5, <2>1, <3>2, OthersKeep DEF Enter
    <3>3. QED BY <3>1, <3>2
  <2>2. QED BY <2>1 DEF InCall
<1>7. QED BY <1>3, <1>4, <1>6 DEF IInv

\* What is left to show of a step of thread t that keeps contexts: the type of
\* the state, its own call, and that it takes no handles back.
LEMMA ThreadStep ==
  ASSUME IInv, NEW t \in Thread, Others_same(t), TypeOK', Connected',
         th'[t].pc # "enter" => CallOK(t)',
         \A p \in Proc : createdTeams[p] \subseteq createdTeams'[p],
         \A team \in Team : RootHasAll(team) => RootHasAll(team)',
         \A team \in Team : team \in contexts'[Root[team]] =>
            team \in contexts[Root[team]] \/ RootHasAll(team)
  PROVE  IInv'
<1>1. InCall'
  <2>1. ASSUME NEW s \in Thread, th'[s].pc # "enter" PROVE CallOK(s)'
    BY <2>1, OthersKeep
  <2>2. QED BY <2>1 DEF InCall
<1>2. Installed'
  BY DEF IInv, Installed
<1>3. QED BY <1>1, <1>2 DEF IInv

\* The team is recorded; if its configuration is unknown the call fails.
LEMMA InsertInv == ASSUME IInv, NEW t \in Thread, Insert(t) PROVE IInv'
<1> DEFINE team == CurTeam(t)
<1>1. ThType /\ TypeOK /\ CallOK(t)
  BY DEF IInv, TypeOK, ThType, Insert, InCall
<1>2. Calling(t) /\ team \in Team /\ Host[t] \in Proc
  BY <1>1, CurTeamType DEF CallOK
<1>3. createdTeams' = [createdTeams EXCEPT ![Host[t]] = createdTeams[Host[t]] \cup {team}]
  BY DEF Insert
<1>4. /\ createdTeams' \in [Proc -> SUBSET Team]
      /\ \A p \in Proc : createdTeams[p] \subseteq createdTeams'[p]
      /\ team \in createdTeams'[Host[t]]
  BY <1>1, <1>2, <1>3 DEF TypeOK
<1>5. \/ Return(t, "failed")
      \/ Host[t] = Root[team] /\ Goto(t, "wait")
      \/ Host[t] # Root[team] /\ Goto(t, "connect")
  BY DEF Insert
<1>6. /\ ThType' /\ Others_same(t)
      /\ \/ th'[t].pc = "enter"
         \/ /\ th'[t].res = th[t].res
            /\ \/ Host[t] = Root[team] /\ th'[t].pc = "wait"
               \/ Host[t] # Root[team] /\ th'[t].pc = "connect"
  <2>1. CASE Return(t, "failed")
    BY <1>1, <2>1, ReturnStep DEF Outcome
  <2>2. CASE Host[t] = Root[team] /\ Goto(t, "wait")
    BY <1>1, <2>2, GotoStep DEF Pc
  <2>3. CASE Host[t] # Root[team] /\ Goto(t, "connect")
    BY <1>1, <2>3, GotoStep DEF Pc
  <2>4. QED BY <1>5, <2>1, <2>2, <2>3
<1>7. TypeOK'
  BY <1>1, <1>4, <1>6 DEF Insert, TypeOK, ThType
<1>8. Connected'
  <2>1. \A tm \in Team : Others(tm) \subseteq Proc
    BY TeamAssumption DEF Others, Range
  <2>2. QED BY <1>4, <2>1 DEF Insert, IInv, Connected
<1>9. ASSUME NEW tm \in Team, RootHasAll(tm) PROVE RootHasAll(tm)'
  BY <1>4, <1>9, RootHasAllStable DEF Insert
<1>10. th'[t].pc # "enter" => CallOK(t)'
  <2>1. th'[t].res = th[t].res => Calling(t)' /\ CurTeam(t)' = team
    BY <1>2 DEF Calling, CurTeam
  <2>2. QED BY <1>4, <1>6, <2>1 DEF CallOK
<1>11. QED
  BY <1>4, <1>6, <1>7, <1>8, <1>9, <1>10, ThreadStep DEF Insert

\* A participant connects, or fails to; its own handles are never a root's.
LEMMA ConnectInv == ASSUME IInv, NEW t \in Thread, Connect(t) PROVE IInv'
<1> DEFINE team == CurTeam(t)
           kept == arriving' = arriving
           gained == arriving' = [arriving EXCEPT ![team] = arriving[team] \cup {Host[t]}]
           given == coll_handles' = [coll_handles EXCEPT ![Host[t]] =
                      [coll_handles[Host[t]] EXCEPT ![team] = <<Root[team]>>]]
<1>1. ThType /\ TypeOK /\ CallOK(t)
  BY DEF IInv, TypeOK, ThType, Connect, InCall
<1>2. /\ Calling(t) /\ team \in Team /\ Host[t] \in Proc /\ Root[team] \in Proc
      /\ Host[t] # Root[team] /\ Host[t] \in Others(team) /\ team \in createdTeams[Host[t]]
  BY <1>1, CurTeamType DEF CallOK, Connect
<1>3. /\ kept \/ gained
      /\ \/ given /\ Goto(t, "install")
         \/ UNCHANGED coll_handles /\ Return(t, "failed")
      /\ UNCHANGED <<createdTeams, groupsReady, asleep, contexts>>
  BY DEF Connect
<1>4. /\ arriving' \in [Team -> SUBSET Proc]
      /\ \A tm \in Team : \A p \in arriving'[tm] :
           p \in arriving[tm] \/ (tm = team /\ p = Host[t])
  <2>1. arriving \in [Team -> SUBSET Proc]
    BY <1>1 DEF TypeOK
  <2>2. arriving[team] \cup {Host[t]} \in SUBSET Proc
    BY <1>2, <2>1
  <2>3. CASE kept
    BY <2>1, <2>3
  <2>4. CASE gained
    <3> HIDE DEF team
    <3>1. QED BY <1>2, <2>1, <2>2, <2>4
  <2>5. QED BY <1>3, <2>3, <2>4
<1>5. coll_handles' \in [Proc -> [Team -> Seq(Proc)]]
  <2>1. <<Root[team]>> \in Seq(Proc)
    BY <1>2
  <2>2. coll_handles[Host[t]] \in [Team -> Seq(Proc)]
    BY <1>1, <1>2 DEF TypeOK
  <2>3. [coll_handles[Host[t]] EXCEPT ![team] = <<Root[team]>>] \in [Team -> Seq(Proc)]
    BY <2>1, <2>2
  <2>4. QED BY <1>1, <1>2, <1>3, <2>3 DEF TypeOK
<1>6. /\ ThType' /\ Others_same(t)
      /\ \/ th'[t].pc = "enter"
         \/ th'[t].res = th[t].res /\ th'[t].pc = "install"
  <2>1. CASE Return(t, "failed")
    BY <1>1, <2>1, ReturnStep DEF Outcome
  <2>2. CASE Goto(t, "install")
    BY <1>1, <2>2, GotoStep DEF Pc
  <2>3. QED BY <1>3, <2>1, <2>2
<1>7. TypeOK'
  BY <1>1, <1>3, <1>4, <1>5, <1>6 DEF TypeOK, ThType
<1>8. Connected'
  BY <1>2, <1>3, <1>4 DEF IInv, Connected
<1>9. ASSUME NEW tm \in Team, RootHasAll(tm) PROVE RootHasAll(tm)'
  <2>1. Root[tm] \in Proc
    BY TeamAssumption
  <2>2. coll_handles'[Root[tm]][tm] = coll_handles[Root[tm]][tm]
    <3>1. CASE UNCHANGED coll_handles
      BY <3>1
    <3>2. CASE given
      <4>1. coll_handles \in [Proc -> [Team -> Seq(Proc)]]
        BY <1>1 DEF TypeOK
      <4> HIDE DEF team
      <4>2. QED BY <1>2, <2>1, <3>2, <4>1
    <3>3. QED BY <1>3, <3>1, <3>2
  <2>3. QED BY <1>3, <1>9, <2>2, RootHasAllStable
<1>10. th'[t].pc # "enter" => CallOK(t)'
  <2>1. th'[t].res = th[t].res => Calling(t)' /\ CurTeam(t)' = team
    BY <1>2 DEF Calling, CurTeam
  <2>2. QED BY <1>2, <1>3, <1>6, <2>1 DEF CallOK
<1>11. QED
  BY <1>3, <1>6, <1>7, <1>8, <1>9, <1>10, ThreadStep

\* The root takes the group when it is full, which by FullIsAll means that
\* every find succeeds; otherwise it goes to sleep.
LEMMA WaitInv == ASSUME IInv, NEW t \in Thread, Wait(t) PROVE IInv'
<1> DEFINE team == CurTeam(t)
           hs == [i \in 1 .. Len(Ordering[team]) |-> Found(team, Ordering[team][i])]
           given == coll_handles' = [coll_handles EXCEPT ![Host[t]] =
                      [coll_handles[Host[t]] EXCEPT ![team] = Ordering[team]]]
<1>1. ThType /\ TypeOK /\ CallOK(t)
  BY DEF IInv, TypeOK, ThType, Wait, InCall
<1>2. /\ Calling(t) /\ team \in Team /\ Host[t] \in Proc
      /\ Host[t] = Root[team] /\ team \in createdTeams[Host[t]]
  BY <1>1, CurTeamType DEF CallOK, Wait
<1>3. Ordering[team] \in Seq(Proc) /\ \A tm \in Team : Others(tm) \subseteq Proc
  BY <1>2, TeamAssumption DEF Others, Range
<1>4. CASE GroupFull(team)
  <2>1. groupsReady[team] = Others(team)
    <3>1. groupsReady[team] \subseteq Others(team)
      BY <1>2 DEF IInv, Connected
    <3>2. Cardinality(groupsReady[team]) = Len(Ordering[team])
      BY <1>4 DEF GroupFull
    <3>3. QED BY <1>2, <3>1, <3>2, FullIsAll
  <2>2. \A p \in Others(team) : team \in createdTeams[p]
    BY <1>2, <2>1 DEF IInv, Connected
  <2>3. hs = Ordering[team]
    <3>1. \A i \in 1 .. Len(Ordering[team]) : Ordering[team][i] \in groupsReady[team]
      BY <1>3, <2>1 DEF Others, Range
    <3>2. hs = [i \in 1 .. Len(Ordering[team]) |-> Ordering[team][i]]
      BY <3>1 DEF Found
    <3>3. QED BY <1>3, <3>2
  <2>4. /\ given /\ Goto(t, "install")
        /\ groupsReady' = [groupsReady EXCEPT ![team] = {}]
        /\ UNCHANGED <<createdTeams, arriving, asleep, contexts>>
    BY <1>4, <2>3 DEF Wait
  <2>5. /\ coll_handles' \in [Proc -> [Team -> Seq(Proc)]]
        /\ coll_handles'[Root[team]][team] = Ordering[team]
        /\ \A tm \in Team \ {team} : \A p \in Proc : coll_handles'[p][tm] = coll_handles[p][tm]
    <3>1. coll_handles \in [Proc -> [Team -> Seq(Proc)]]
      BY <1>1 DEF TypeOK
    <3> HIDE DEF team
    <3>2. [coll_handles[Host[t]] EXCEPT ![team] = Ordering[team]] \in [Team -> Seq(Proc)]
      BY <1>2, <1>3, <3>1
    <3>3. QED BY <1>2, <1>3, <2>4, <3>1, <3>2
  <2>6. /\ ThType' /\ Others_same(t)
        /\ th'[t].res = th[t].res /\ th'[t].pc = "install"
    BY <1>1, <2>4, GotoStep DEF Pc
  <2>7. /\ groupsReady' \in [Team -> SUBSET Proc]
        /\ \A tm \in Team : groupsReady'[tm] \subseteq groupsReady[tm]
    BY <1>1, <1>2, <2>4 DEF TypeOK
  <2>8. TypeOK'
    BY <1>1, <2>4, <2>5, <2>6, <2>7 DEF TypeOK, ThType
  <2>9. Connected'
    BY <2>4, <2>7 DEF IInv, Connected
  <2>10. CurTeam(t)' = team /\ Calling(t)'
    BY <1>2, <2>6 DEF CurTeam, Calling
  <2>11. ASSUME NEW tm \in Team, RootHasAll(tm) PROVE RootHasAll(tm)'
    <3>1. Root[tm] \in Proc
      BY TeamAssumption
    <3>2. CASE tm = team
      BY <2>2, <2>4, <2>5, <3>2 DEF RootHasAll
    <3>3. CASE tm # team
      BY <2>4, <2>5, <2>11, <3>1, <3>3, RootHasAllStable
    <3>4. QED BY <3>2, <3>3
  <2>12. CallOK(t)'
    BY <1>2, <2>2, <2>4, <2>5, <2>6, <2>10 DEF CallOK, RootHasAll
  <2>13. QED
    BY <2>4, <2>6, <2>8, <2>9, <2>11, <2>12, ThreadStep
<1>5. CASE ~GroupFull(team)
  <2>1. /\ asleep' = asleep \cup {t} /\ Goto(t, "asleep")
        /\ UNCHANGED <<createdTeams, arriving, groupsReady, contexts, coll_handles>>
    BY <1>5 DEF Wait
  <2>2. /\ ThType' /\ Others_same(t)
        /\ th'[t].res = th[t].res /\ th'[t].pc = "asleep"
    BY <1>1, <2>1, GotoStep DEF Pc
  <2>3. TypeOK'
    BY <1>1, <2>1, <2>2 DEF TypeOK, ThType
  <2>4. Connected'
    BY <2>1 DEF IInv, Connected
  <2>5. CurTeam(t)' = team /\ Calling(t)'
    BY <1>2, <2>2 DEF CurTeam, Calling
  <2>6. CallOK(t)'
    BY <1>2, <2>1, <2>2, <2>5 DEF CallOK
  <2>7. \A tm \in Team : RootHasAll(tm) => RootHasAll(tm)'
    BY <2>1 DEF RootHasAll
  <2>8. QED
    BY <2>1, <2>2, <2>3, <2>4, <2>6, <2>7, ThreadStep
<1>6. QED BY <1>4, <1>5

\* A thread that was notified evaluates the predicate again.
LEMMA WakeInv == ASSUME IInv, NEW t \in Thread, Wake(t) PROVE IInv'
<1>1. ThType /\ TypeOK /\ CallOK(t)
  BY DEF IInv, TypeOK, ThType, Wake, InCall
<1>2. /\ ThType' /\ Others_same(t)
      /\ th'[t].res = th[t].res /\ th'[t].pc = "wait"
  BY <1>1, GotoStep DEF Pc, Wake
<1>3. TypeOK' /\ Connected'
  BY <1>1, <1>2 DEF TypeOK, ThType, Wake, IInv, Connected
<1>4. CurTeam(t)' = CurTeam(t) /\ Calling(t)'
  BY <1>1, <1>2 DEF CurTeam, Calling, CallOK
<1>5. CallOK(t)'
  BY <1>1, <1>2, <1>4 DEF CallOK, Wake
<1>6. \A tm \in Team : RootHasAll(tm) => RootHasAll(tm)'
  BY DEF RootHasAll, Wake
<1>7. QED
  BY <1>2, <1>3, <1>5, <1>6, ThreadStep DEF Wake

\* The context is installed with the handles taken before.
LEMMA InstallInv == ASSUME IInv, NEW t \in Thread, Install(t) PROVE IInv'
<1> DEFINE team == CurTeam(t)
<1>1. ThType /\ TypeOK /\ CallOK(t)
  BY DEF IInv, TypeOK, ThType, Install, InCall
<1>2. /\ team \in Team /\ Host[t] \in Proc
      /\ Host[t] = Root[team] => RootHasAll(team)
  BY <1>1, CurTeamType DEF CallOK, Install
<1>3. contexts' = [contexts EXCEPT ![Host[t]] = contexts[Host[t]] \cup {team}]
  BY DEF Install
<1>4. ThType' /\ Others_same(t) /\ th'[t].pc = "enter"
  BY <1>1, ReturnStep DEF Outcome, Install
<1>5. /\ contexts' \in [Proc -> SUBSET Team]
      /\ \A p \in Proc : \A tm \in contexts'[p] :
           tm \in contexts[p] \/ (p = Host[t] /\ tm = team)
  <2>1. contexts \in [Proc -> SUBSET Team]
    BY <1>1 DEF TypeOK
  <2> HIDE DEF team
  <2>2. QED BY <1>2, <1>3, <2>1
<1>6. TypeOK' /\ Connected'
  BY <1>1, <1>4, <1>5 DEF TypeOK, ThType, Install, IInv, Connected
<1>7. \A tm \in Team : RootHasAll(tm) => RootHasAll(tm)'
  BY DEF RootHasAll, Install
<1>8. \A tm \in Team : tm \in contexts'[Root[tm]] =>
        tm \in contexts[Root[tm]] \/ RootHasAll(tm)
  BY <1>2, <1>5, TeamAssumption
<1>9. QED
  BY <1>4, <1>6, <1>7, <1>8, ThreadStep DEF Install

\* Steps that touch neither the calls nor what they hold.
LEMMA AsleepInv ==
  ASSUME IInv, asleep' \subseteq asleep,
         UNCHANGED <<createdTeams, contexts, coll_handles, th>>,
         Connected', arriving' \in [Team -> SUBSET Proc], groupsReady' \in [Team -> SUBSET Proc]
  PROVE  IInv'
<1>1. TypeOK'
  BY DEF IInv, TypeOK
<1>2. InCall'
  BY DEF IInv, InCall, CallOK, Calling, CurTeam, RootHasAll
<1>3. Installed'
  BY DEF IInv, Installed, RootHasAll
<1>4. QED BY <1>1, <1>2, <1>3 DEF IInv

\* A connection is read: its participant goes from arriving to groupsReady.
LEMMA AddGroupInv ==
  ASSUME IInv, NEW team \in Team, NEW p \in Proc, AddGroup(team, p) PROVE IInv'
<1>1. arriving \in [Team -> SUBSET Proc] /\ groupsReady \in [Team -> SUBSET Proc]
  BY DEF IInv, TypeOK
<1>2. /\ arriving' = [arriving EXCEPT ![team] = arriving[team] \ {p}]
      /\ groupsReady' = [groupsReady EXCEPT ![team] = groupsReady[team] \cup {p}]
      /\ p \in arriving[team] /\ UNCHANGED createdTeams
  BY DEF AddGroup
<1>3. arriving' \in [Team -> SUBSET Proc] /\ groupsReady' \in [Team -> SUBSET Proc]
  BY <1>1, <1>2
<1>4. \A tm \in Team :
        arriving'[tm] \cup groupsReady'[tm] \subseteq arriving[tm] \cup groupsReady[tm]
  BY <1>1, <1>2
<1>5. Connected'
  BY <1>2, <1>4 DEF IInv, Connected
<1>6. asleep' \subseteq asleep
  BY DEF AddGroup, NotifyOne, Sleepers
<1>7. QED BY <1>3, <1>5, <1>6, AsleepInv DEF AddGroup

\* Every step preserves the invariant.
LEMMA NextInv == IInv /\ [Next]_vars => IInv'
<1> SUFFICES ASSUME IInv, [Next]_vars PROVE IInv'
  OBVIOUS
<1>1. ASSUME NEW t \in Thread, Run(t) PROVE IInv'
  BY <1>1, EnterInv, InsertInv, ConnectInv, WaitInv, WakeInv, InstallInv DEF Run
<1>2. ASSUME NEW t \in Thread, SpuriousWake(t) PROVE IInv'
  BY <1>2, AsleepInv DEF SpuriousWake, IInv, TypeOK, Connected
<1>3. CASE Io
  BY <1>3, AddGroupInv DEF Io
<1>4. CASE UNCHANGED vars
  BY <1>4, AsleepInv DEF vars, IInv, TypeOK, Connected
<1>5. QED BY <1>1, <1>2, <1>3, <1>4 DEF Next, Done

-----------------------------------------------------------------------------
(* Theorems *)

\* Type correctness: in particular no root takes the end iterator of the map
\* for a handle (manager.hpp 801-804 compares nothing with end()).
THEOREM TypeCorrect == Spec => []TypeOK
<1>1. IInv => TypeOK
  BY DEF IInv
<1>2. QED BY <1>1, InitInv, NextInv, PTL DEF Spec

\* The context of the root is complete and in order, for any number of
\* processes, teams and threads, with failing connections and spurious wakeups.
THEOREM GroupCompleteHolds == Spec => []GroupComplete
<1>1. IInv => GroupComplete
  BY DEF IInv, Installed, RootHasAll, GroupComplete
<1>2. QED BY <1>1, InitInv, NextInv, PTL DEF Spec

=============================================================================
