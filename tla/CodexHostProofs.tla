--------------------------- MODULE CodexHostProofs ---------------------------
(***************************************************************************)
(* Proofs about the host of agents, for all commands, sessions, requests   *)
(* and keys, and any number of ends of the process: its type invariant,    *)
(* that two follow-ups never have a process at work in one session, that   *)
(* the rows tell the truth about the processes and the decisions, and that *)
(* a withdrawn command stays withdrawn.                                    *)
(*                                                                         *)
(* None of the properties is inductive alone.  That follow-ups take turns  *)
(* rests on the lease each turn holds from its start to its very end; that *)
(* the rows tell the truth rests on what dies with the process (stages,    *)
(* resolvers) and on a decision being written before any later one can     *)
(* find its request pending.                                               *)
(***************************************************************************)
EXTENDS CodexHost, TLAPS

-----------------------------------------------------------------------------
(* The inductive invariant.                                                *)

\* A dispatched command is one that runs, while the process does; a command's
\* dispatch is gone with the process.
RowsAreShown ==
  /\ RunsAsShown
  /\ ~up => \A c \in Commands : stage[c] = "off"

\* A follow-up's turn has its session's lease, alone.
LeasesAreHeld ==
  /\ \A c \in FollowUps : command[c] # "none" => at[c] \in Sessions
  /\ \A c \in FollowUps : Turning(c) => at[c] \in lease
  /\ FollowUpsTakeTurns

\* Resolvers are gone with the process, and who decided is written with the decision.
AsksAreDecided ==
  /\ DecidedOnce
  /\ ~up => resolver = {}
  /\ \A q \in Asks : winner[q] # Nobody => row[q] = "resolved"

\* The four together are inductive.
HostInv == TypeOK /\ RowsAreShown /\ LeasesAreHeld /\ AsksAreDecided

-----------------------------------------------------------------------------
(* What becomes of a session's row.                                        *)

\* What a session's row may say.
SessionRows == [known : BOOLEAN, busy : BOOLEAN, pid : {"none", "terminal", "agent"}]

\* Beginning a turn leaves a well-formed row,
LEMMA BeginKeeps ==
  ASSUME session \in [Sessions -> SessionRows], NEW s,
         NEW pid \in {"none", "terminal", "agent"}, Begin(s, pid)
  PROVE  session' \in [Sessions -> SessionRows]
<1> DEFINE r == [known |-> TRUE, pid |-> pid, busy |-> TRUE]
<1>1. r \in SessionRows
      BY DEF SessionRows
<1>2. session' = [session EXCEPT ![s] = r]
      BY DEF Begin
<1> HIDE DEF r
<1> QED BY <1>1, <1>2

\* and so does ending one,
LEMMA FinishKeeps ==
  ASSUME session \in [Sessions -> SessionRows], NEW s, Finish(s)
  PROVE  session' \in [Sessions -> SessionRows]
<1> SUFFICES ASSUME NEW t \in Sessions
             PROVE  [session EXCEPT ![s].pid = "none", ![s].busy = FALSE][t] \in SessionRows
    BY DEF Finish
<1>1. session[t] \in SessionRows
      OBVIOUS
<1> QED BY <1>1 DEF SessionRows

\* marking a session busy or idle,
LEMMA BusyKeeps ==
  ASSUME session \in [Sessions -> SessionRows], NEW s, NEW b \in BOOLEAN,
         session' = [session EXCEPT ![s].busy = b]
  PROVE  session' \in [Sessions -> SessionRows]
<1> SUFFICES ASSUME NEW t \in Sessions
             PROVE  [session EXCEPT ![s].busy = b][t] \in SessionRows
    OBVIOUS
<1>1. session[t] \in SessionRows
      OBVIOUS
<1> QED BY <1>1 DEF SessionRows

\* and a terminal that takes a session or leaves it.
LEMMA TerminalKeeps ==
  ASSUME session \in [Sessions -> SessionRows], NEW s \in Sessions, Terminal(s)
  PROVE  session' \in [Sessions -> SessionRows]
<1>1. session[s] \in SessionRows
      OBVIOUS
<1>2. PICK r \in SessionRows : session' = [session EXCEPT ![s] = r]
  <2>1. CASE session[s].pid = "terminal"
    <3> DEFINE r == [session[s] EXCEPT !.pid = "none", !.busy = FALSE]
    <3>1. r \in SessionRows
          BY <1>1 DEF SessionRows
    <3>2. session' = [session EXCEPT ![s] = r]
          BY <2>1 DEF Terminal
    <3> QED BY <3>1, <3>2
  <2>2. CASE session[s].pid # "terminal"
    <3> DEFINE r == [session[s] EXCEPT !.pid = "terminal", !.busy = TRUE]
    <3>1. r \in SessionRows
          BY <1>1 DEF SessionRows
    <3>2. session' = [session EXCEPT ![s] = r]
          BY <2>2 DEF Terminal
    <3> QED BY <3>1, <3>2
  <2> QED BY <2>1, <2>2
<1> QED BY <1>2

-----------------------------------------------------------------------------
(* The steps.                                                              *)

\* The invariant holds at the start,
LEMMA HostInitially == Init => HostInv
<1> SUFFICES ASSUME Init PROVE HostInv
    OBVIOUS
<1> USE DEF Init
<1>1. TypeOK
  <2>1. session \in [Sessions -> SessionRows]
    <3> SUFFICES ASSUME NEW s \in Sessions
                 PROVE  [Absent EXCEPT !.known = s \in Found] \in SessionRows
        OBVIOUS
    <3> DEFINE b == s \in Found
    <3>1. b \in BOOLEAN
          OBVIOUS
    <3> HIDE DEF b
    <3>2. [Absent EXCEPT !.known = b] \in SessionRows
          BY <3>1 DEF Absent, SessionRows
    <3> QED BY <3>2 DEF b
  <2>2. restarts \in 0..MaxRestarts
        BY MaxRestartsIsNatural
  <2> QED BY <2>1, <2>2 DEF TypeOK, SessionRows, Stages
<1>2. RowsAreShown
      BY DEF RowsAreShown, RunsAsShown
<1>3. LeasesAreHeld
      BY DEF LeasesAreHeld, FollowUpsTakeTurns, Turning, Commands
<1>4. AsksAreDecided
      BY KeysAreTargeted DEF AsksAreDecided, DecidedOnce
<1> QED BY <1>1, <1>2, <1>3, <1>4 DEF HostInv

\* and every step keeps it: one case for each action, in it one step for each
\* conjunct.
LEMMA HostStep == HostInv /\ [Next]_vars => HostInv'
<1> SUFFICES ASSUME HostInv, [Next]_vars PROVE HostInv'
    OBVIOUS
<1>0. TypeOK /\ RowsAreShown /\ LeasesAreHeld /\ AsksAreDecided
      BY DEF HostInv
<1> USE <1>0, MaxRestartsIsNatural
<1>1. CASE Tick
  <2> USE <1>1 DEF Tick, DispatchQueued, askVars
  <2>1. TypeOK'
        BY DEF TypeOK, Stages, Commands
  <2>2. RowsAreShown'
        BY DEF RowsAreShown, RunsAsShown, TypeOK
  <2>3. LeasesAreHeld'
        BY CommandsDiffer
        DEF LeasesAreHeld, FollowUpsTakeTurns, Turning, RowsAreShown, RunsAsShown,
            TypeOK, Commands
  <2>4. AsksAreDecided'
        BY DEF AsksAreDecided, DecidedOnce
  <2> QED BY <2>1, <2>2, <2>3, <2>4 DEF HostInv
<1>2. CASE Crash
  <2> USE <1>2 DEF Crash, Down
  <2>1. TypeOK'
    <3>1. session' \in [Sessions -> SessionRows]
          BY <1>0 DEF TypeOK, SessionRows
    <3>2. restarts' \in 0..MaxRestarts
          BY DEF TypeOK
    <3>3. lease' \subseteq Sessions
          BY DEF TypeOK, Commands, Sessions, LeasesAreHeld, RowsAreShown, RunsAsShown
    <3> QED BY <3>1, <3>2, <3>3 DEF TypeOK, SessionRows, Stages, Commands
  <2>2. RowsAreShown'
        BY DEF RowsAreShown, RunsAsShown, TypeOK
  <2>3. LeasesAreHeld'
        BY CommandsDiffer
        DEF LeasesAreHeld, FollowUpsTakeTurns, Turning, RowsAreShown, RunsAsShown,
            TypeOK, Commands
  <2>4. AsksAreDecided'
        BY KeysAreTargeted DEF AsksAreDecided, DecidedOnce, TypeOK
  <2> QED BY <2>1, <2>2, <2>3, <2>4 DEF HostInv
<1>3. CASE Start
  <2> USE <1>3 DEF Start, Expired
  <2>1. TypeOK'
        BY DEF TypeOK, Stages, Commands
  <2>2. RowsAreShown'
        BY DEF RowsAreShown, RunsAsShown, TypeOK
  <2>3. LeasesAreHeld'
        BY CommandsDiffer
        DEF LeasesAreHeld, FollowUpsTakeTurns, Turning, RowsAreShown, RunsAsShown,
            TypeOK, Commands
  <2>4. AsksAreDecided'
        BY KeysAreTargeted DEF AsksAreDecided, DecidedOnce, TypeOK
  <2> QED BY <2>1, <2>2, <2>3, <2>4 DEF HostInv
<1>4. ASSUME NEW c \in Commands, Enqueue(c) PROVE HostInv'
  <2> USE <1>4 DEF Enqueue, DispatchQueued, askVars
  <2>1. TypeOK'
        BY DEF TypeOK, Stages, Commands
  <2>2. RowsAreShown'
        BY DEF RowsAreShown, RunsAsShown, TypeOK
  <2>3. LeasesAreHeld'
        BY CommandsDiffer
        DEF LeasesAreHeld, FollowUpsTakeTurns, Turning, RowsAreShown, RunsAsShown,
            TypeOK, Commands
  <2>4. AsksAreDecided'
        BY DEF AsksAreDecided, DecidedOnce
  <2> QED BY <2>1, <2>2, <2>3, <2>4 DEF HostInv
<1>5. ASSUME NEW c \in Commands, Retry(c) PROVE HostInv'
  <2> USE <1>5 DEF Retry, DispatchQueued, askVars
  <2>1. TypeOK'
        BY DEF TypeOK, Stages, Commands
  <2>2. RowsAreShown'
        BY DEF RowsAreShown, RunsAsShown, TypeOK
  <2>3. LeasesAreHeld'
        BY CommandsDiffer
        DEF LeasesAreHeld, FollowUpsTakeTurns, Turning, RowsAreShown, RunsAsShown,
            TypeOK, Commands
  <2>4. AsksAreDecided'
        BY DEF AsksAreDecided, DecidedOnce
  <2> QED BY <2>1, <2>2, <2>3, <2>4 DEF HostInv
<1>6. ASSUME NEW c \in Commands, Cancel(c) PROVE HostInv'
  <2> USE <1>6 DEF Cancel, askVars
  <2>1. TypeOK'
        BY DEF TypeOK, Stages, Commands
  <2>2. RowsAreShown'
        BY DEF RowsAreShown, RunsAsShown, TypeOK
  <2>3. LeasesAreHeld'
        BY CommandsDiffer
        DEF LeasesAreHeld, FollowUpsTakeTurns, Turning, RowsAreShown, RunsAsShown,
            TypeOK, Commands
  <2>4. AsksAreDecided'
        BY DEF AsksAreDecided, DecidedOnce
  <2> QED BY <2>1, <2>2, <2>3, <2>4 DEF HostInv
<1>7. ASSUME NEW c \in Commands, MaterialsMissing(c) PROVE HostInv'
  <2> USE <1>7 DEF MaterialsMissing, askVars
  <2>1. TypeOK'
        BY DEF TypeOK, Stages, Commands
  <2>2. RowsAreShown'
        BY DEF RowsAreShown, RunsAsShown, TypeOK
  <2>3. LeasesAreHeld'
        BY CommandsDiffer
        DEF LeasesAreHeld, FollowUpsTakeTurns, Turning, RowsAreShown, RunsAsShown,
            TypeOK, Commands
  <2>4. AsksAreDecided'
        BY DEF AsksAreDecided, DecidedOnce
  <2> QED BY <2>1, <2>2, <2>3, <2>4 DEF HostInv
<1>8. ASSUME NEW c \in Commands, StartsNew(c) PROVE HostInv'
  <2> USE <1>8 DEF StartsNew, askVars
  <2>1. TypeOK'
        BY DEF TypeOK, Stages, Commands
  <2>2. RowsAreShown'
        BY DEF RowsAreShown, RunsAsShown, TypeOK
  <2>3. LeasesAreHeld'
        BY CommandsDiffer
        DEF LeasesAreHeld, FollowUpsTakeTurns, Turning, RowsAreShown, RunsAsShown,
            TypeOK, Commands
  <2>4. AsksAreDecided'
        BY DEF AsksAreDecided, DecidedOnce
  <2> QED BY <2>1, <2>2, <2>3, <2>4 DEF HostInv
<1>9. ASSUME NEW c \in Commands, Resumes(c) PROVE HostInv'
  <2> USE <1>9 DEF Resumes, MayResume, askVars
  <2>1. TypeOK'
    <3>1. session' \in [Sessions -> SessionRows]
          BY BeginKeeps DEF TypeOK, SessionRows
    <3>2. restarts' \in 0..MaxRestarts
          BY DEF TypeOK
    <3>3. lease' \subseteq Sessions
          BY DEF TypeOK, Commands, Sessions, LeasesAreHeld, RowsAreShown, RunsAsShown
    <3> QED BY <3>1, <3>2, <3>3 DEF TypeOK, SessionRows, Stages, Commands
  <2>2. RowsAreShown'
        BY DEF RowsAreShown, RunsAsShown, TypeOK
  <2>3. LeasesAreHeld'
        BY CommandsDiffer
        DEF LeasesAreHeld, FollowUpsTakeTurns, Turning, RowsAreShown, RunsAsShown,
            TypeOK, Commands
  <2>4. AsksAreDecided'
        BY DEF AsksAreDecided, DecidedOnce
  <2> QED BY <2>1, <2>2, <2>3, <2>4 DEF HostInv
<1>10. ASSUME NEW c \in Commands, ThreadStarted(c) PROVE HostInv'
  <2> USE <1>10 DEF ThreadStarted, askVars
  <2>1. TypeOK'
    <3>1. session' \in [Sessions -> SessionRows]
          BY BeginKeeps DEF TypeOK, SessionRows
    <3>2. restarts' \in 0..MaxRestarts
          BY DEF TypeOK
    <3>3. lease' \subseteq Sessions
          BY DEF TypeOK, Commands, Sessions, LeasesAreHeld, RowsAreShown, RunsAsShown
    <3>4. at' \in [Commands -> Sessions \union {Nowhere}]
          BY DEF TypeOK, Sessions
    <3> QED BY <3>1, <3>2, <3>3, <3>4 DEF TypeOK, SessionRows, Stages, Commands
  <2>2. RowsAreShown'
        BY DEF RowsAreShown, RunsAsShown, TypeOK
  <2>3. LeasesAreHeld'
        BY CommandsDiffer
        DEF LeasesAreHeld, FollowUpsTakeTurns, Turning, RowsAreShown, RunsAsShown,
            TypeOK, Commands
  <2>4. AsksAreDecided'
        BY DEF AsksAreDecided, DecidedOnce
  <2> QED BY <2>1, <2>2, <2>3, <2>4 DEF HostInv
<1>11. ASSUME NEW c \in Commands, ThreadResumed(c) PROVE HostInv'
  <2> USE <1>11 DEF ThreadResumed, askVars
  <2>1. TypeOK'
    <3>1. session' \in [Sessions -> SessionRows]
          BY BeginKeeps DEF TypeOK, SessionRows
    <3>2. restarts' \in 0..MaxRestarts
          BY DEF TypeOK
    <3>3. lease' \subseteq Sessions
          BY DEF TypeOK, Commands, Sessions, LeasesAreHeld, RowsAreShown, RunsAsShown
    <3> QED BY <3>1, <3>2, <3>3 DEF TypeOK, SessionRows, Stages, Commands
  <2>2. RowsAreShown'
        BY DEF RowsAreShown, RunsAsShown, TypeOK
  <2>3. LeasesAreHeld'
        BY CommandsDiffer
        DEF LeasesAreHeld, FollowUpsTakeTurns, Turning, RowsAreShown, RunsAsShown,
            TypeOK, Commands
  <2>4. AsksAreDecided'
        BY DEF AsksAreDecided, DecidedOnce
  <2> QED BY <2>1, <2>2, <2>3, <2>4 DEF HostInv
<1>12. ASSUME NEW c \in Commands, StartFails(c) PROVE HostInv'
  <2> USE <1>12 DEF StartFails, Ends, askVars
  <2>1. TypeOK'
    <3>1. session' \in [Sessions -> SessionRows]
          BY FinishKeeps DEF TypeOK, SessionRows
    <3>2. restarts' \in 0..MaxRestarts
          BY DEF TypeOK
    <3>3. lease' \subseteq Sessions
          BY DEF TypeOK, Commands, Sessions, LeasesAreHeld, RowsAreShown, RunsAsShown
    <3> QED BY <3>1, <3>2, <3>3 DEF TypeOK, SessionRows, Stages, Commands
  <2>2. RowsAreShown'
        BY DEF RowsAreShown, RunsAsShown, TypeOK
  <2>3. LeasesAreHeld'
    <3>1. CASE c \in Creates \/ ~IsClaude(c)
      <4>1. stage' = [stage EXCEPT ![c] = "broken"] /\ UNCHANGED <<command, at, lease>>
            BY <3>1
      <4> QED BY <4>1 DEF LeasesAreHeld, FollowUpsTakeTurns, Turning, TypeOK, Commands
    <3>2. CASE ~(c \in Creates \/ ~IsClaude(c))
      <4>1. /\ stage' = [stage EXCEPT ![c] = "off"]
            /\ command' = [command EXCEPT ![c] = "failed"]
            /\ lease' = lease \ {at[c]} /\ UNCHANGED at
            BY <3>2 DEF Commands
      <4> QED
          BY <3>2, <4>1
          DEF LeasesAreHeld, FollowUpsTakeTurns, Turning, RowsAreShown, RunsAsShown, TypeOK,
              Commands
    <3> QED BY <3>1, <3>2
  <2>4. AsksAreDecided'
        BY DEF AsksAreDecided, DecidedOnce
  <2> QED BY <2>1, <2>2, <2>3, <2>4 DEF HostInv
<1>13. ASSUME NEW c \in Commands, CompletesEarly(c) PROVE HostInv'
  <2> USE <1>13 DEF CompletesEarly, askVars
  <2>1. TypeOK'
    <3>1. session' \in [Sessions -> SessionRows]
          BY BusyKeeps DEF TypeOK, SessionRows
    <3>2. restarts' \in 0..MaxRestarts
          BY DEF TypeOK
    <3>3. lease' \subseteq Sessions
          BY DEF TypeOK, Commands, Sessions, LeasesAreHeld, RowsAreShown, RunsAsShown
    <3> QED BY <3>1, <3>2, <3>3 DEF TypeOK, SessionRows, Stages, Commands
  <2>2. RowsAreShown'
        BY DEF RowsAreShown, RunsAsShown, TypeOK
  <2>3. LeasesAreHeld'
        BY CommandsDiffer
        DEF LeasesAreHeld, FollowUpsTakeTurns, Turning, RowsAreShown, RunsAsShown,
            TypeOK, Commands
  <2>4. AsksAreDecided'
        BY DEF AsksAreDecided, DecidedOnce
  <2> QED BY <2>1, <2>2, <2>3, <2>4 DEF HostInv
<1>14. ASSUME NEW c \in Commands, TurnStarts(c) PROVE HostInv'
  <2> USE <1>14 DEF TurnStarts, askVars
  <2>1. TypeOK'
        BY DEF TypeOK, Stages, Commands
  <2>2. RowsAreShown'
        BY DEF RowsAreShown, RunsAsShown, TypeOK
  <2>3. LeasesAreHeld'
        BY CommandsDiffer
        DEF LeasesAreHeld, FollowUpsTakeTurns, Turning, RowsAreShown, RunsAsShown,
            TypeOK, Commands
  <2>4. AsksAreDecided'
        BY DEF AsksAreDecided, DecidedOnce
  <2> QED BY <2>1, <2>2, <2>3, <2>4 DEF HostInv
<1>15. ASSUME NEW c \in Commands, RequestFails(c) PROVE HostInv'
  <2> USE <1>15 DEF RequestFails, Closes, Down, OpenAsks, Expired, askVars
  <2>1. TypeOK'
    <3>1. session' \in [Sessions -> SessionRows]
          BY <1>0 DEF TypeOK, SessionRows
    <3>2. restarts' \in 0..MaxRestarts
          BY DEF TypeOK
    <3>3. lease' \subseteq Sessions
          BY DEF TypeOK, Commands, Sessions, LeasesAreHeld, RowsAreShown, RunsAsShown
    <3>4. /\ command' \in [Commands -> {"none", "queued", "running", "completed",
                                  "failed", "canceled"}]
          /\ stage' \in [Commands -> Stages]
          /\ at' \in [Commands -> Sessions \union {Nowhere}]
          BY DEF TypeOK, Stages, Commands
    <3>5. /\ row' \in [Asks -> {"none", "pending", "resolved", "expired"}]
          /\ by' \in [Asks -> Commands \union {Nobody}]
          BY DEF TypeOK
    <3>6. /\ resolver' \subseteq Asks /\ reminder' \subseteq Asks /\ up' \in BOOLEAN
          /\ results' \in [Keys -> {"none", "ok", "no"}]
          BY DEF TypeOK
    <3>7. /\ winner' \in [Asks -> Keys \union {Nobody, "policy"}]
          /\ answer' \in [Asks -> Keys \union {"nothing", "policy", "cancel"}]
          BY DEF TypeOK
    <3> QED BY <3>1, <3>2, <3>3, <3>4, <3>5, <3>6, <3>7 DEF TypeOK, SessionRows
  <2>2. RowsAreShown'
        BY DEF RowsAreShown, RunsAsShown, TypeOK
  <2>3. LeasesAreHeld'
        BY CommandsDiffer
        DEF LeasesAreHeld, FollowUpsTakeTurns, Turning, RowsAreShown, RunsAsShown,
            TypeOK, Commands
  <2>4. AsksAreDecided'
        BY KeysAreTargeted DEF AsksAreDecided, DecidedOnce, TypeOK
  <2> QED BY <2>1, <2>2, <2>3, <2>4 DEF HostInv
<1>16. ASSUME NEW c \in Commands, TurnEnds(c) PROVE HostInv'
  <2> USE <1>16 DEF TurnEnds, Closes, Down, OpenAsks, Expired, askVars
  <2>1. TypeOK'
    <3>1. session' \in [Sessions -> SessionRows]
          BY FinishKeeps DEF TypeOK, SessionRows
    <3>2. restarts' \in 0..MaxRestarts
          BY DEF TypeOK
    <3>3. lease' \subseteq Sessions
          BY DEF TypeOK, Commands, Sessions, LeasesAreHeld, RowsAreShown, RunsAsShown
    <3>4. /\ command' \in [Commands -> {"none", "queued", "running", "completed",
                                  "failed", "canceled"}]
          /\ stage' \in [Commands -> Stages]
          /\ at' \in [Commands -> Sessions \union {Nowhere}]
          BY DEF TypeOK, Stages, Commands
    <3>5. /\ row' \in [Asks -> {"none", "pending", "resolved", "expired"}]
          /\ by' \in [Asks -> Commands \union {Nobody}]
          BY DEF TypeOK
    <3>6. /\ resolver' \subseteq Asks /\ reminder' \subseteq Asks /\ up' \in BOOLEAN
          /\ results' \in [Keys -> {"none", "ok", "no"}]
          BY DEF TypeOK
    <3>7. /\ winner' \in [Asks -> Keys \union {Nobody, "policy"}]
          /\ answer' \in [Asks -> Keys \union {"nothing", "policy", "cancel"}]
          BY DEF TypeOK
    <3> QED BY <3>1, <3>2, <3>3, <3>4, <3>5, <3>6, <3>7 DEF TypeOK, SessionRows
  <2>2. RowsAreShown'
        BY DEF RowsAreShown, RunsAsShown, TypeOK
  <2>3. LeasesAreHeld'
        BY CommandsDiffer
        DEF LeasesAreHeld, FollowUpsTakeTurns, Turning, RowsAreShown, RunsAsShown,
            TypeOK, Commands
  <2>4. AsksAreDecided'
        BY KeysAreTargeted DEF AsksAreDecided, DecidedOnce, TypeOK
  <2> QED BY <2>1, <2>2, <2>3, <2>4 DEF HostInv
<1>17. ASSUME NEW c \in Commands, ClaudeExits(c) PROVE HostInv'
  <2> USE <1>17 DEF ClaudeExits, Ends, askVars
  <2>1. TypeOK'
    <3>1. session' \in [Sessions -> SessionRows]
          BY FinishKeeps DEF TypeOK, SessionRows
    <3>2. restarts' \in 0..MaxRestarts
          BY DEF TypeOK
    <3>3. lease' \subseteq Sessions
          BY DEF TypeOK, Commands, Sessions, LeasesAreHeld, RowsAreShown, RunsAsShown
    <3> QED BY <3>1, <3>2, <3>3 DEF TypeOK, SessionRows, Stages, Commands
  <2>2. RowsAreShown'
        BY DEF RowsAreShown, RunsAsShown, TypeOK
  <2>3. LeasesAreHeld'
        BY CommandsDiffer
        DEF LeasesAreHeld, FollowUpsTakeTurns, Turning, RowsAreShown, RunsAsShown,
            TypeOK, Commands
  <2>4. AsksAreDecided'
        BY DEF AsksAreDecided, DecidedOnce
  <2> QED BY <2>1, <2>2, <2>3, <2>4 DEF HostInv
<1>18. ASSUME NEW c \in Commands, AppServerExits(c) PROVE HostInv'
  <2> USE <1>18 DEF AppServerExits, Ends, Down, OpenAsks, Expired, askVars
  <2>1. TypeOK'
    <3>1. session' \in [Sessions -> SessionRows]
          BY FinishKeeps DEF TypeOK, SessionRows
    <3>2. restarts' \in 0..MaxRestarts
          BY DEF TypeOK
    <3>3. lease' \subseteq Sessions
          BY DEF TypeOK, Commands, Sessions, LeasesAreHeld, RowsAreShown, RunsAsShown
    <3>4. /\ command' \in [Commands -> {"none", "queued", "running", "completed",
                                  "failed", "canceled"}]
          /\ stage' \in [Commands -> Stages]
          /\ at' \in [Commands -> Sessions \union {Nowhere}]
          BY DEF TypeOK, Stages, Commands
    <3>5. /\ row' \in [Asks -> {"none", "pending", "resolved", "expired"}]
          /\ by' \in [Asks -> Commands \union {Nobody}]
          BY DEF TypeOK
    <3>6. /\ resolver' \subseteq Asks /\ reminder' \subseteq Asks /\ up' \in BOOLEAN
          /\ results' \in [Keys -> {"none", "ok", "no"}]
          BY DEF TypeOK
    <3>7. /\ winner' \in [Asks -> Keys \union {Nobody, "policy"}]
          /\ answer' \in [Asks -> Keys \union {"nothing", "policy", "cancel"}]
          BY DEF TypeOK
    <3> QED BY <3>1, <3>2, <3>3, <3>4, <3>5, <3>6, <3>7 DEF TypeOK, SessionRows
  <2>2. RowsAreShown'
        BY DEF RowsAreShown, RunsAsShown, TypeOK
  <2>3. LeasesAreHeld'
        BY CommandsDiffer
        DEF LeasesAreHeld, FollowUpsTakeTurns, Turning, RowsAreShown, RunsAsShown,
            TypeOK, Commands
  <2>4. AsksAreDecided'
        BY KeysAreTargeted DEF AsksAreDecided, DecidedOnce, TypeOK
  <2> QED BY <2>1, <2>2, <2>3, <2>4 DEF HostInv
<1>19. ASSUME NEW c \in Commands, Closed(c) PROVE HostInv'
  <2> USE <1>19 DEF Closed, Ends, askVars
  <2>1. TypeOK'
    <3>1. session' \in [Sessions -> SessionRows]
          BY FinishKeeps DEF TypeOK, SessionRows
    <3>2. restarts' \in 0..MaxRestarts
          BY DEF TypeOK
    <3>3. lease' \subseteq Sessions
          BY DEF TypeOK, Commands, Sessions, LeasesAreHeld, RowsAreShown, RunsAsShown
    <3> QED BY <3>1, <3>2, <3>3 DEF TypeOK, SessionRows, Stages, Commands
  <2>2. RowsAreShown'
        BY DEF RowsAreShown, RunsAsShown, TypeOK
  <2>3. LeasesAreHeld'
        BY CommandsDiffer
        DEF LeasesAreHeld, FollowUpsTakeTurns, Turning, RowsAreShown, RunsAsShown,
            TypeOK, Commands
  <2>4. AsksAreDecided'
        BY DEF AsksAreDecided, DecidedOnce
  <2> QED BY <2>1, <2>2, <2>3, <2>4 DEF HostInv
<1>20. ASSUME NEW q \in Asks, NEW c \in Commands, Ask(q, c) PROVE HostInv'
  <2> USE <1>20 DEF Ask, Asking, Saves, Writes, commandVars
  <2>1. TypeOK'
    <3>1. session' \in [Sessions -> SessionRows]
          BY BusyKeeps DEF TypeOK, SessionRows
    <3>2. restarts' \in 0..MaxRestarts
          BY DEF TypeOK
    <3>3. lease' \subseteq Sessions
          BY DEF TypeOK, Commands, Sessions, LeasesAreHeld, RowsAreShown, RunsAsShown
    <3>4. /\ command' \in [Commands -> {"none", "queued", "running", "completed",
                                  "failed", "canceled"}]
          /\ stage' \in [Commands -> Stages]
          /\ at' \in [Commands -> Sessions \union {Nowhere}]
          BY DEF TypeOK, Stages, Commands
    <3>5. /\ row' \in [Asks -> {"none", "pending", "resolved", "expired"}]
          /\ by' \in [Asks -> Commands \union {Nobody}]
          BY DEF TypeOK
    <3>6. /\ resolver' \subseteq Asks /\ reminder' \subseteq Asks /\ up' \in BOOLEAN
          /\ results' \in [Keys -> {"none", "ok", "no"}]
          BY DEF TypeOK
    <3>7. /\ winner' \in [Asks -> Keys \union {Nobody, "policy"}]
          /\ answer' \in [Asks -> Keys \union {"nothing", "policy", "cancel"}]
          BY DEF TypeOK
    <3> QED BY <3>1, <3>2, <3>3, <3>4, <3>5, <3>6, <3>7 DEF TypeOK, SessionRows
  <2>2. RowsAreShown'
        BY DEF RowsAreShown, RunsAsShown
  <2>3. LeasesAreHeld'
        BY DEF LeasesAreHeld, FollowUpsTakeTurns, Turning
  <2>4. AsksAreDecided'
        BY KeysAreTargeted DEF AsksAreDecided, DecidedOnce, RowsAreShown, TypeOK
  <2> QED BY <2>1, <2>2, <2>3, <2>4 DEF HostInv
<1>21. ASSUME NEW k \in Keys, NEW fits \in BOOLEAN, Decide(k, fits) PROVE HostInv'
  <2> USE <1>21 DEF Decide, Saves, Writes, commandVars
  <2>1. TypeOK'
        BY DEF TypeOK, Stages, Commands
  <2>2. RowsAreShown'
        BY DEF RowsAreShown, RunsAsShown
  <2>3. LeasesAreHeld'
        BY DEF LeasesAreHeld, FollowUpsTakeTurns, Turning
  <2>4. AsksAreDecided'
    <3> DEFINE q == Target[k]
    <3> DEFINE ok == fits /\ q \in resolver /\ row[q] = "pending"
    <3>1. q \in Asks /\ k \notin {Nobody, "policy", "cancel", "nothing"}
          BY KeysAreTargeted
    <3>2. CASE ok
      <4>1. /\ results' = [results EXCEPT ![k] = "ok"]
            /\ row' = [row EXCEPT ![q] = "resolved"]
            /\ winner' = [winner EXCEPT ![q] = k]
            /\ answer' = [answer EXCEPT ![q] = k]
            /\ resolver' = resolver \ {q} /\ reminder' = reminder \ {q}
            BY <3>2
      <4>2. row[q] = "pending" /\ winner[q] = Nobody
            BY <3>1, <3>2 DEF AsksAreDecided
      <4>3. \A i \in Keys : Target[i] \in Asks
            BY KeysAreTargeted
      <4>4. ASSUME NEW i \in Keys, results'[i] = "ok" PROVE winner'[Target[i]] = i
        <5>1. CASE i = k
              BY <3>1, <4>1, <5>1 DEF TypeOK
        <5>2. CASE i # k
          <6>1. winner[Target[i]] = i
                BY <4>1, <4>4, <5>2 DEF AsksAreDecided, DecidedOnce, TypeOK
          <6>2. i # Nobody
                BY KeysAreTargeted
          <6> QED BY <3>1, <4>1, <4>2, <4>3, <6>1, <6>2 DEF TypeOK
        <5> QED BY <5>1, <5>2
      <4> HIDE DEF q
      <4>5. \A p \in Asks :
              /\ answer'[p] \in Keys \union {"policy"}
                   => row'[p] = "resolved" /\ winner'[p] = answer'[p]
              /\ answer'[p] = "cancel" => row'[p] = "expired"
              /\ winner'[p] # Nobody => row'[p] = "resolved"
            BY <3>1, <4>1, KeysAreTargeted DEF AsksAreDecided, DecidedOnce, TypeOK
      <4>6. /\ up => resolver' = {p \in Asks : row'[p] = "pending"}
            /\ reminder' \subseteq resolver'
            BY <3>1, <4>1 DEF AsksAreDecided, DecidedOnce, TypeOK
      <4> QED BY <4>4, <4>5, <4>6 DEF AsksAreDecided, DecidedOnce
    <3>3. CASE ~ok
      <4>1. /\ results' = [results EXCEPT ![k] = "no"]
            /\ UNCHANGED <<row, winner, answer, resolver, reminder, up>>
            BY <3>3
      <4> QED BY <4>1 DEF AsksAreDecided, DecidedOnce, TypeOK
    <3> QED BY <3>2, <3>3
  <2> QED BY <2>1, <2>2, <2>3, <2>4 DEF HostInv
<1>22. ASSUME NEW q \in Asks, Expire(q) PROVE HostInv'
  <2> USE <1>22 DEF Expire, Expired, Writes, commandVars
  <2>1. TypeOK'
        BY DEF TypeOK, Stages, Commands
  <2>2. RowsAreShown'
        BY DEF RowsAreShown, RunsAsShown
  <2>3. LeasesAreHeld'
        BY DEF LeasesAreHeld, FollowUpsTakeTurns, Turning
  <2>4. AsksAreDecided'
        BY KeysAreTargeted DEF AsksAreDecided, DecidedOnce, TypeOK
  <2> QED BY <2>1, <2>2, <2>3, <2>4 DEF HostInv
<1>23. ASSUME NEW q \in Asks, Remind(q) PROVE HostInv'
  <2> USE <1>23 DEF Remind, commandVars
  <2>1. TypeOK'
        BY DEF TypeOK, Stages, Commands
  <2>2. RowsAreShown'
        BY DEF RowsAreShown, RunsAsShown
  <2>3. LeasesAreHeld'
        BY DEF LeasesAreHeld, FollowUpsTakeTurns, Turning
  <2>4. AsksAreDecided'
        BY KeysAreTargeted DEF AsksAreDecided, DecidedOnce, TypeOK
  <2> QED BY <2>1, <2>2, <2>3, <2>4 DEF HostInv
<1>24. ASSUME NEW s \in Sessions, Terminal(s) PROVE HostInv'
  <2> USE <1>24 DEF Terminal, commandVars, askVars
  <2>1. TypeOK'
    <3>1. session' \in [Sessions -> SessionRows]
          BY TerminalKeeps DEF TypeOK, SessionRows
    <3>2. restarts' \in 0..MaxRestarts
          BY DEF TypeOK
    <3>3. lease' \subseteq Sessions
          BY DEF TypeOK, Commands, Sessions, LeasesAreHeld, RowsAreShown, RunsAsShown
    <3> QED BY <3>1, <3>2, <3>3 DEF TypeOK, SessionRows, Stages, Commands
  <2>2. RowsAreShown'
        BY DEF RowsAreShown, RunsAsShown
  <2>3. LeasesAreHeld'
        BY DEF LeasesAreHeld, FollowUpsTakeTurns, Turning
  <2>4. AsksAreDecided'
        BY DEF AsksAreDecided, DecidedOnce
  <2> QED BY <2>1, <2>2, <2>3, <2>4 DEF HostInv
<1>25. ASSUME NEW s \in Sessions, HookReports(s) PROVE HostInv'
  <2> USE <1>25 DEF HookReports, commandVars, askVars
  <2>1. TypeOK'
    <3>1. session' \in [Sessions -> SessionRows]
          BY BusyKeeps DEF TypeOK, SessionRows
    <3>2. restarts' \in 0..MaxRestarts
          BY DEF TypeOK
    <3>3. lease' \subseteq Sessions
          BY DEF TypeOK, Commands, Sessions, LeasesAreHeld, RowsAreShown, RunsAsShown
    <3> QED BY <3>1, <3>2, <3>3 DEF TypeOK, SessionRows, Stages, Commands
  <2>2. RowsAreShown'
        BY DEF RowsAreShown, RunsAsShown
  <2>3. LeasesAreHeld'
        BY DEF LeasesAreHeld, FollowUpsTakeTurns, Turning
  <2>4. AsksAreDecided'
        BY DEF AsksAreDecided, DecidedOnce
  <2> QED BY <2>1, <2>2, <2>3, <2>4 DEF HostInv
<1>26. CASE UNCHANGED vars
      BY <1>26 DEF vars, HostInv, TypeOK, RowsAreShown, RunsAsShown, LeasesAreHeld,
         FollowUpsTakeTurns, Turning, AsksAreDecided, DecidedOnce
<1> QED
    BY <1>1, <1>2, <1>3, <1>4, <1>5, <1>6, <1>7, <1>8, <1>9, <1>10, <1>11, <1>12, <1>13,
       <1>14, <1>15, <1>16, <1>17, <1>18, <1>19, <1>20, <1>21, <1>22, <1>23, <1>24, <1>25, <1>26
    DEF Next, Dispatches

-----------------------------------------------------------------------------
(* The theorems.                                                           *)

\* In every behaviour the invariant holds.
THEOREM HostKeeps == Spec => []HostInv
<1> QED BY HostInitially, HostStep, PTL DEF Spec

\* Every variable has its type.
THEOREM HostTyped == Spec => []TypeOK
<1>1. HostInv => TypeOK
      BY DEF HostInv
<1> QED BY <1>1, HostKeeps, PTL

\* Two follow-ups never have a process at work in one session.
THEOREM FollowUpsWaitTheirTurn == Spec => []FollowUpsTakeTurns
<1>1. HostInv => FollowUpsTakeTurns
      BY DEF HostInv, LeasesAreHeld
<1> QED BY <1>1, HostKeeps, PTL

\* The rows say what the processes do, and what was decided.
THEOREM RowsAreTrue == Spec => []RowsTellTheTruth
<1>1. HostInv => RowsTellTheTruth
      BY DEF HostInv, RowsAreShown, AsksAreDecided, RowsTellTheTruth
<1> QED BY <1>1, HostKeeps, PTL

\* A withdrawn command stays withdrawn: no retry, restart or late end of a
\* dispatch brings it back.
THEOREM WithdrawnIsLast == Spec => CanceledIsLast
<1>1. HostInv /\ [Next]_vars
        => [\A c \in Commands : command[c] = "canceled" => command'[c] = "canceled"]_vars
  <2> SUFFICES ASSUME HostInv, Next, NEW c \in Commands, command[c] = "canceled"
               PROVE  command'[c] = "canceled"
      BY DEF vars
  <2>0. TypeOK /\ stage[c] = "off"
        BY DEF HostInv, RowsAreShown, RunsAsShown
  <2>1. CASE Tick
        BY <2>0, <2>1 DEF Tick, DispatchQueued, TypeOK
  <2>2. CASE Crash \/ Start
        BY <2>0, <2>2 DEF Crash, Down, Start, TypeOK
  <2>3. ASSUME NEW d \in Commands, Enqueue(d) \/ Retry(d) \/ Cancel(d)
        PROVE  command'[c] = "canceled"
        BY <2>0, <2>3 DEF Enqueue, Retry, Cancel, DispatchQueued, TypeOK
  <2>4. ASSUME NEW d \in Commands, Dispatches(d) PROVE command'[c] = "canceled"
    <3>1. CASE d = c
          BY <2>0, <2>4, <3>1
          DEF Dispatches, MaterialsMissing, StartsNew, Resumes, ThreadStarted, ThreadResumed,
              StartFails, CompletesEarly, TurnStarts, RequestFails, TurnEnds, ClaudeExits,
              AppServerExits, Closed
    <3>2. CASE d # c
          BY <2>0, <2>4, <3>2
          DEF Dispatches, MaterialsMissing, StartsNew, Resumes, ThreadStarted, ThreadResumed,
              StartFails, CompletesEarly, TurnStarts, RequestFails, TurnEnds, ClaudeExits,
              AppServerExits, Closed, Closes, Ends, TypeOK
    <3> QED BY <3>1, <3>2
  <2>5. CASE \/ \E q \in Asks : Expire(q) \/ Remind(q)
             \/ \E q \in Asks, d \in Commands : Ask(q, d)
             \/ \E k \in Keys, fits \in BOOLEAN : Decide(k, fits)
             \/ \E s \in Sessions : Terminal(s) \/ HookReports(s)
    <3>1. UNCHANGED command
          BY <2>5 DEF Expire, Remind, Ask, Decide, Terminal, HookReports, commandVars
    <3> QED BY <3>1
  <2> QED BY <2>1, <2>2, <2>3, <2>4, <2>5 DEF Next
<1> QED BY <1>1, HostKeeps, PTL DEF Spec, CanceledIsLast

=============================================================================
