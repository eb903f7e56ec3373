-------------------------- MODULE TelemetryProofs --------------------------
(* What TLAPS proves of Telemetry, for any sets of goroutines.               *)
EXTENDS Telemetry, TLAPS

\* Expands a step into the variables it changes.
USE DEF Scope, Phase

\* Every variable keeps its type: needed by every proof below.
THEOREM TypeCorrect == Spec => []TypeOK
<1>1. Init => TypeOK
  BY NilAssumption DEF Init, TypeOK, Idle, Call, Unbound, Binding
<1>2. TypeOK /\ [Next]_vars => TypeOK'
  <2> SUFFICES ASSUME TypeOK, [Next]_vars PROVE TypeOK'
    OBVIOUS
  <2> USE DEF TypeOK, setupVars, globals, gaugeVars, closeVars, callVars, Goto
  <2>1. ASSUME NEW s \in Setups, SetupEnter(s) PROVE TypeOK'
    BY <2>1 DEF SetupEnter
  <2>2. ASSUME NEW s \in Setups, SetupLock(s) PROVE TypeOK'
    BY <2>2 DEF SetupLock
  <2>3. ASSUME NEW s \in Setups, SetupBuild(s) PROVE TypeOK'
    BY <2>3 DEF SetupBuild
  <2>4. ASSUME NEW s \in Setups, SetupListen(s) PROVE TypeOK'
    BY <2>4 DEF SetupListen, FailBuilt
  <2>5. ASSUME NEW s \in Setups, SetupAbort(s) PROVE TypeOK'
    BY <2>5 DEF SetupAbort, FailBuilt, StopServer
  <2>6. ASSUME NEW s \in Setups, SetupProvide(s) PROVE TypeOK'
    BY <2>6 DEF SetupProvide
  <2>7. ASSUME NEW s \in Setups, SetupInstall(s) PROVE TypeOK'
    BY <2>7 DEF SetupInstall
  <2>8. ASSUME NEW s \in Setups, SetupBump(s) PROVE TypeOK'
    BY <2>8 DEF SetupBump
  <2>9. ASSUME NEW s \in Setups, SetupGauges(s) PROVE TypeOK'
    BY <2>9 DEF SetupGauges, Declared
  <2>10. ASSUME NEW s \in Setups, Serve(s) PROVE TypeOK'
    BY <2>10 DEF Serve
  <2>11. ASSUME NEW c \in Closers, NEW s \in Setups, CloseCall(c, s) PROVE TypeOK'
    BY <2>11 DEF CloseCall
  <2>c. ASSUME NEW c \in Closers, NEW pc \in {"bump", "stop", "flush", "returned"}, CloserGoto(c, pc)
        PROVE  closer' \in [Closers -> [pc : {"idle", "uninstall", "bump", "stop", "flush",
                                              "joining", "returned"}, of : Scope]]
    BY <2>c DEF CloserGoto
  <2>12. ASSUME NEW c \in Closers, CloseUninstall(c) PROVE TypeOK'
    BY <2>c, <2>12 DEF CloseUninstall
  <2>13. ASSUME NEW c \in Closers, CloseBump(c) PROVE TypeOK'
    BY <2>c, <2>13 DEF CloseBump
  <2>14. ASSUME NEW c \in Closers, CloseStop(c) PROVE TypeOK'
    BY <2>c, <2>14 DEF CloseStop, StopServer
  <2>15. ASSUME NEW c \in Closers, CloseFlush(c) PROVE TypeOK'
    BY <2>c, <2>15 DEF CloseFlush
  <2>16. ASSUME NEW c \in Closers, CloseJoin(c) PROVE TypeOK'
    BY <2>c, <2>16 DEF CloseJoin
  <2>17. ASSUME NEW r \in Recorders, NEW m \in Metrics, GetGeneration(r, m) PROVE TypeOK'
    BY <2>17 DEF GetGeneration, CallAt, Call
  <2>18. ASSUME NEW r \in Recorders, GetCached(r) PROVE TypeOK'
    <3>1. call[r] \in Call /\ call[r].metric \in Metrics
      BY <2>18 DEF GetCached, CallAt
    <3>2. /\ current[call[r].metric].on \in Scope
          /\ current[call[r].metric].scope \in Scope
      BY <3>1 DEF Binding, Unbound
    <3>3. CASE current[call[r].metric].gen = call[r].gen
      <4>1. call' = [call EXCEPT ![r] =
              [call[r] EXCEPT !.pc = "bound", !.on = current[call[r].metric].on,
                              !.scope = current[call[r].metric].scope]]
        BY <2>18, <3>1, <3>3 DEF GetCached
      <4>2. call'[r] \in Call /\ call'[r].metric = call[r].metric
        BY <3>1, <3>2, <4>1 DEF Call
      <4> QED
        BY <2>18, <3>1, <4>1, <4>2 DEF GetCached
    <3>4. CASE current[call[r].metric].gen # call[r].gen
      BY <2>18, <3>1, <3>4 DEF GetCached, Call
    <3> QED
      BY <3>3, <3>4
  <2>19. ASSUME NEW r \in Recorders, GetScope(r) PROVE TypeOK'
    <3>1. call[r] \in Call /\ call[r].metric \in Metrics
      BY <2>19 DEF GetScope, CallAt
    <3>2. [call[r] EXCEPT !.pc = "scoped", !.scope = installed] \in Call
      BY <3>1 DEF Call
    <3>3. call' = [call EXCEPT ![r] = [call[r] EXCEPT !.pc = "scoped", !.scope = installed]]
      BY <2>19, <3>1 DEF GetScope
    <3>4. [call[r] EXCEPT !.pc = "scoped", !.scope = installed].metric = call[r].metric
      BY <3>1 DEF Call
    <3> QED
      BY <2>19, <3>1, <3>2, <3>3, <3>4 DEF GetScope
  <2>20. ASSUME NEW r \in Recorders, GetCreate(r) PROVE TypeOK'
    <3>1. call[r] \in Call /\ call[r].metric \in Metrics
      BY <2>20 DEF GetCreate, CallAt
    <3>2. [call[r] EXCEPT !.pc = "created", !.on = provider] \in Call
      BY <3>1 DEF Call
    <3>3. call' = [call EXCEPT ![r] = [call[r] EXCEPT !.pc = "created", !.on = provider]]
      BY <2>20, <3>1 DEF GetCreate
    <3>4. [call[r] EXCEPT !.pc = "created", !.on = provider].metric = call[r].metric
      BY <3>1 DEF Call
    <3> QED
      BY <2>20, <3>1, <3>2, <3>3, <3>4 DEF GetCreate
  <2>21. ASSUME NEW r \in Recorders, GetStore(r) PROVE TypeOK'
    BY <2>21 DEF GetStore, CallAt, Call, Binding
  <2>22. ASSUME NEW r \in Recorders, Record(r) PROVE TypeOK'
    BY <2>22 DEF Record, CallAt, Call, Idle, Live, Target
  <2>23. ASSUME NEW g \in Gauges, GaugeAppend(g) PROVE TypeOK'
    BY <2>23 DEF GaugeAppend, GaugeAt
  <2>24. ASSUME NEW g \in Gauges, GaugeEnabled(g) PROVE TypeOK'
    BY <2>24 DEF GaugeEnabled, GaugeAt
  <2>25. ASSUME NEW g \in Gauges, GaugeScope(g) PROVE TypeOK'
    BY <2>25 DEF GaugeScope, GaugeAt
  <2>26. ASSUME NEW g \in Gauges, GaugeRegister(g) PROVE TypeOK'
    BY <2>26 DEF GaugeRegister, GaugeAt
  <2>27. CASE UNCHANGED vars
    BY <2>27 DEF vars
  <2> QED
    BY <2>1, <2>2, <2>3, <2>4, <2>5, <2>6, <2>7, <2>8, <2>9, <2>10, <2>11, <2>12, <2>13, <2>14, <2>15, <2>16, <2>17, <2>18, <2>19, <2>20, <2>21, <2>22, <2>23, <2>24, <2>25, <2>26, <2>27 DEF Next, Setup, Close, Get, NewGauge
<1> QED
  BY <1>1, <1>2, PTL DEF Spec

----------------------------------------------------------------------------
(* The inductive invariants *)

Holding == {"locked", "built", "listening", "provided", "installed", "bumped"}
Published == {"installed", "bumped", "ready"}

\* The Setup between its Lock and its Unlock holds setupMu, and until it
\* stores its own state there is none.
MutexInv ==
  \A s \in Setups :
    /\ setupMu = s <=> phase[s] \in Holding
    /\ phase[s] \in {"locked", "built", "listening", "provided"} => installed = Nil

\* What Setup has published so far.
ProviderInv ==
  \A s \in Setups :
    /\ phase[s] = "provided" => provider = s
    /\ installed = s => provider = s /\ phase[s] \in Published
    /\ provider = s => phase[s] \in Published \cup {"provided"}

\* A scope read for the current generation is already the installed one, and
\* no call and no binding is ahead of the generation.
BindingInv ==
  /\ \A m \in Metrics : current[m].gen = Nil \/ current[m].gen <= generation
  /\ \A r \in Recorders : call[r].gen <= generation
  /\ \A s \in Setups : Settled(s) =>
       \A r \in Recorders :
         call[r].pc = "scoped" /\ call[r].gen = generation => call[r].scope = s
  /\ CurrentBindingFollowsSetup

LEMMA MutexCorrect == Spec => []MutexInv
<1>1. Init => MutexInv
  <2>1. ASSUME Init, NEW s \in Setups
        PROVE  phase[s] = "new" /\ setupMu # s /\ installed = Nil
    BY <2>1, SetupsAssumption DEF Init
  <2> QED
    BY <2>1 DEF MutexInv, Holding
<1>2. TypeOK /\ MutexInv /\ [Next]_vars => MutexInv'
  <2> SUFFICES ASSUME TypeOK, MutexInv, [Next]_vars PROVE MutexInv'
    OBVIOUS
  <2> USE SetupsAssumption DEF TypeOK, MutexInv, Holding, setupVars, globals, Goto
  <2>1. ASSUME NEW s \in Setups, SetupEnter(s) PROVE MutexInv'
    BY <2>1 DEF SetupEnter
  <2>2. ASSUME NEW s \in Setups, SetupLock(s) PROVE MutexInv'
    BY <2>2 DEF SetupLock
  <2>3. ASSUME NEW s \in Setups, SetupBuild(s) PROVE MutexInv'
    BY <2>3 DEF SetupBuild
  <2>4. ASSUME NEW s \in Setups, SetupListen(s) PROVE MutexInv'
    BY <2>4 DEF SetupListen, FailBuilt
  <2>5. ASSUME NEW s \in Setups, SetupAbort(s) PROVE MutexInv'
    BY <2>5 DEF SetupAbort, FailBuilt, StopServer
  <2>6. ASSUME NEW s \in Setups, SetupProvide(s) PROVE MutexInv'
    BY <2>6 DEF SetupProvide
  <2>7. ASSUME NEW s \in Setups, SetupInstall(s) PROVE MutexInv'
    BY <2>7 DEF SetupInstall
  <2>8. ASSUME NEW s \in Setups, SetupBump(s) PROVE MutexInv'
    BY <2>8 DEF SetupBump
  <2>9. ASSUME NEW s \in Setups, SetupGauges(s) PROVE MutexInv'
    BY <2>9 DEF SetupGauges, Declared
  <2>10. ASSUME NEW s \in Setups, Serve(s) PROVE MutexInv'
    BY <2>10 DEF Serve
  <2>11. ASSUME NEW c \in Closers, CloseUninstall(c) PROVE MutexInv'
    BY <2>11 DEF CloseUninstall, CloserAt, CloserGoto
  <2>12. ASSUME NEW c \in Closers,
               CloseBump(c) \/ CloseStop(c) \/ CloseFlush(c) \/ CloseJoin(c)
       PROVE  MutexInv'
    BY <2>12 DEF CloseBump, CloseStop, CloseFlush, CloseJoin
  <2>13. ASSUME NEW c \in Closers, NEW s \in Setups, CloseCall(c, s) PROVE MutexInv'
    BY <2>13 DEF CloseCall
  <2>14. ASSUME NEW r \in Recorders, Get(r) PROVE MutexInv'
    BY <2>14 DEF Get, GetCached, GetScope, GetCreate, GetStore, Record
  <2>15. ASSUME NEW r \in Recorders, NEW m \in Metrics, GetGeneration(r, m) PROVE MutexInv'
    BY <2>15 DEF GetGeneration, CallAt
  <2>16. ASSUME NEW g \in Gauges, GaugeAppend(g) PROVE MutexInv'
    BY <2>16 DEF GaugeAppend, GaugeAt
  <2>17. ASSUME NEW g \in Gauges, NewGauge(g) PROVE MutexInv'
    BY <2>17 DEF NewGauge, GaugeEnabled, GaugeScope, GaugeRegister
  <2>18. CASE UNCHANGED vars
    BY <2>18 DEF vars
  <2> QED
    BY <2>1, <2>2, <2>3, <2>4, <2>5, <2>6, <2>7, <2>8, <2>9, <2>10, <2>11, <2>12, <2>13, <2>14,
       <2>15, <2>16, <2>17, <2>18
    DEF Next, Setup, Close
<1> QED
  BY TypeCorrect, <1>1, <1>2, PTL DEF Spec

LEMMA ProviderCorrect == Spec => []ProviderInv
<1>1. Init => ProviderInv
  <2>1. ASSUME Init, NEW s \in Setups
        PROVE  phase[s] = "new" /\ installed # s /\ provider # s
    BY <2>1, SetupsAssumption DEF Init
  <2> QED
    BY <2>1 DEF ProviderInv
<1>2. TypeOK /\ MutexInv /\ ProviderInv /\ [Next]_vars => ProviderInv'
  <2> SUFFICES ASSUME TypeOK, MutexInv, ProviderInv, [Next]_vars PROVE ProviderInv'
    OBVIOUS
  <2> USE SetupsAssumption
      DEF TypeOK, MutexInv, ProviderInv, Holding, Published, setupVars, globals, Goto
  <2>1. ASSUME NEW s \in Setups, SetupEnter(s) PROVE ProviderInv'
    BY <2>1 DEF SetupEnter
  <2>2. ASSUME NEW s \in Setups, SetupLock(s) PROVE ProviderInv'
    BY <2>2 DEF SetupLock
  <2>3. ASSUME NEW s \in Setups, SetupBuild(s) PROVE ProviderInv'
    BY <2>3 DEF SetupBuild
  <2>4. ASSUME NEW s \in Setups, SetupListen(s) PROVE ProviderInv'
    BY <2>4 DEF SetupListen, FailBuilt
  <2>5. ASSUME NEW s \in Setups, SetupAbort(s) PROVE ProviderInv'
    BY <2>5 DEF SetupAbort, FailBuilt, StopServer
  <2>6. ASSUME NEW s \in Setups, SetupProvide(s) PROVE ProviderInv'
    BY <2>6 DEF SetupProvide
  <2>7. ASSUME NEW s \in Setups, SetupInstall(s) PROVE ProviderInv'
    BY <2>7 DEF SetupInstall
  <2>8. ASSUME NEW s \in Setups, SetupBump(s) PROVE ProviderInv'
    BY <2>8 DEF SetupBump
  <2>9. ASSUME NEW s \in Setups, SetupGauges(s) PROVE ProviderInv'
    BY <2>9 DEF SetupGauges, Declared
  <2>10. ASSUME NEW s \in Setups, Serve(s) PROVE ProviderInv'
    BY <2>10 DEF Serve
  <2>11. ASSUME NEW c \in Closers, CloseUninstall(c) PROVE ProviderInv'
    BY <2>11 DEF CloseUninstall, CloserAt, CloserGoto
  <2>12. ASSUME NEW c \in Closers,
               CloseBump(c) \/ CloseStop(c) \/ CloseFlush(c) \/ CloseJoin(c)
       PROVE  ProviderInv'
    BY <2>12 DEF CloseBump, CloseStop, CloseFlush, CloseJoin
  <2>13. ASSUME NEW c \in Closers, NEW s \in Setups, CloseCall(c, s) PROVE ProviderInv'
    BY <2>13 DEF CloseCall
  <2>14. ASSUME NEW r \in Recorders, Get(r) PROVE ProviderInv'
    BY <2>14 DEF Get, GetCached, GetScope, GetCreate, GetStore, Record
  <2>15. ASSUME NEW r \in Recorders, NEW m \in Metrics, GetGeneration(r, m) PROVE ProviderInv'
    BY <2>15 DEF GetGeneration, CallAt
  <2>16. ASSUME NEW g \in Gauges, GaugeAppend(g) PROVE ProviderInv'
    BY <2>16 DEF GaugeAppend, GaugeAt
  <2>17. ASSUME NEW g \in Gauges, NewGauge(g) PROVE ProviderInv'
    BY <2>17 DEF NewGauge, GaugeEnabled, GaugeScope, GaugeRegister
  <2>18. CASE UNCHANGED vars
    BY <2>18 DEF vars
  <2> QED
    BY <2>1, <2>2, <2>3, <2>4, <2>5, <2>6, <2>7, <2>8, <2>9, <2>10, <2>11, <2>12, <2>13, <2>14,
       <2>15, <2>16, <2>17, <2>18
    DEF Next, Setup, Close
<1> QED
  BY TypeCorrect, MutexCorrect, <1>1, <1>2, PTL DEF Spec

LEMMA BindingCorrect == Spec => []BindingInv
<1>1. Init => BindingInv
  BY SetupsAssumption
  DEF Init, BindingInv, CurrentBindingFollowsSetup, Settled, Idle, Unbound
<1>2. TypeOK /\ ProviderInv /\ BindingInv /\ [Next]_vars => BindingInv'
  <2> SUFFICES ASSUME TypeOK, ProviderInv, BindingInv, [Next]_vars PROVE BindingInv'
    OBVIOUS
  <2> USE SetupsAssumption
      DEF TypeOK, BindingInv, CurrentBindingFollowsSetup, Settled, setupVars,
          globals, callVars, Goto
  <2>1. ASSUME NEW s \in Setups, SetupEnter(s) PROVE BindingInv'
    BY <2>1 DEF SetupEnter
  <2>2. ASSUME NEW s \in Setups, SetupLock(s) PROVE BindingInv'
    BY <2>2 DEF SetupLock
  <2>3. ASSUME NEW s \in Setups, SetupBuild(s) PROVE BindingInv'
    BY <2>3 DEF SetupBuild
  <2>4. ASSUME NEW s \in Setups, SetupListen(s) PROVE BindingInv'
    BY <2>4 DEF SetupListen, FailBuilt
  <2>5. ASSUME NEW s \in Setups, SetupAbort(s) PROVE BindingInv'
    BY <2>5 DEF SetupAbort, FailBuilt, StopServer
  <2>6. ASSUME NEW s \in Setups, SetupProvide(s) PROVE BindingInv'
    BY <2>6 DEF SetupProvide
  <2>7. ASSUME NEW s \in Setups, SetupInstall(s) PROVE BindingInv'
    BY <2>7 DEF SetupInstall
  <2>8. ASSUME NEW s \in Setups, SetupBump(s) PROVE BindingInv'
    <3>1. \A m \in Metrics : current[m].gen \in Nat \cup {Nil}
      BY DEF Binding, Unbound
    <3>2. \A r \in Recorders : call[r].gen \in Nat
      BY DEF Call
    <3>3. /\ \A m \in Metrics : \/ /\ current[m].gen = Nil
                                   /\ current[m].gen # generation + 1
                                \/ /\ current[m].gen <= generation + 1
                                   /\ current[m].gen # generation + 1
          /\ \A r \in Recorders : /\ call[r].gen <= generation + 1
                                  /\ call[r].gen # generation + 1
      BY <3>1, <3>2, NilAssumption
    <3> QED
      BY <2>8, <3>3 DEF SetupBump
  <2>9. ASSUME NEW s \in Setups, SetupGauges(s) PROVE BindingInv'
    BY <2>9 DEF SetupGauges, Declared
  <2>10. ASSUME NEW s \in Setups, Serve(s) PROVE BindingInv'
    BY <2>10 DEF Serve
  <2>11. ASSUME NEW c \in Closers, CloseUninstall(c) PROVE BindingInv'
    BY <2>11 DEF CloseUninstall, CloserAt, CloserGoto
  <2>12. ASSUME NEW c \in Closers, CloseBump(c) PROVE BindingInv'
    <3>1. \A m \in Metrics : current[m].gen \in Nat \cup {Nil}
      BY DEF Binding, Unbound
    <3>2. \A r \in Recorders : call[r].gen \in Nat
      BY DEF Call
    <3>3. /\ \A m \in Metrics : \/ /\ current[m].gen = Nil
                                   /\ current[m].gen # generation + 1
                                \/ /\ current[m].gen <= generation + 1
                                   /\ current[m].gen # generation + 1
          /\ \A r \in Recorders : /\ call[r].gen <= generation + 1
                                  /\ call[r].gen # generation + 1
      BY <3>1, <3>2, NilAssumption
    <3> QED
      BY <2>12, <3>3 DEF CloseBump
  <2>13. ASSUME NEW c \in Closers, CloseStop(c) PROVE BindingInv'
    BY <2>13 DEF CloseStop, StopServer, CloserAt, CloserGoto
  <2>14. ASSUME NEW c \in Closers, CloseFlush(c) PROVE BindingInv'
    BY <2>14 DEF CloseFlush, CloserAt, CloserGoto
  <2>15. ASSUME NEW c \in Closers, CloseJoin(c) PROVE BindingInv'
    BY <2>15 DEF CloseJoin, CloserAt, CloserGoto
  <2>16. ASSUME NEW c \in Closers, NEW s \in Setups, CloseCall(c, s) PROVE BindingInv'
    BY <2>16 DEF CloseCall
  <2>17. ASSUME NEW r \in Recorders, NEW m \in Metrics, GetGeneration(r, m) PROVE BindingInv'
    BY <2>17 DEF GetGeneration, CallAt
  <2>18. ASSUME NEW r \in Recorders, GetCached(r) PROVE BindingInv'
    BY <2>18 DEF GetCached, CallAt
  <2>19. ASSUME NEW r \in Recorders, GetScope(r) PROVE BindingInv'
    BY <2>19 DEF GetScope, CallAt
  <2>20. ASSUME NEW r \in Recorders, GetCreate(r) PROVE BindingInv'
    <3>1. \A s \in Setups : Settled(s) => provider = s
      BY DEF ProviderInv
    <3>2. /\ call'[r].gen = call[r].gen /\ call'[r].scope = call[r].scope
          /\ call'[r].on = provider /\ call'[r].pc = "created" /\ call[r].pc = "scoped"
      BY <2>20 DEF GetCreate, CallAt, Call
    <3>3. \A q \in Recorders : q # r => call'[q] = call[q]
      BY <2>20 DEF GetCreate
    <3>4. UNCHANGED <<phase, installed, generation, current>>
      BY <2>20 DEF GetCreate
    <3> QED
      BY <3>1, <3>2, <3>3, <3>4
  <2>21. ASSUME NEW r \in Recorders, GetStore(r) PROVE BindingInv'
    BY <2>21 DEF GetStore, CallAt
  <2>22. ASSUME NEW r \in Recorders, Record(r) PROVE BindingInv'
    BY <2>22 DEF Record, CallAt, Idle
  <2>23. ASSUME NEW g \in Gauges, GaugeAppend(g) PROVE BindingInv'
    BY <2>23 DEF GaugeAppend, GaugeAt
  <2>24. ASSUME NEW g \in Gauges, NewGauge(g) PROVE BindingInv'
    BY <2>24 DEF NewGauge, GaugeEnabled, GaugeScope, GaugeRegister
  <2>25. CASE UNCHANGED vars
    BY <2>25 DEF vars
  <2> QED
    BY <2>1, <2>2, <2>3, <2>4, <2>5, <2>6, <2>7, <2>8, <2>9, <2>10, <2>11, <2>12, <2>13, <2>14,
       <2>15, <2>16, <2>17, <2>18, <2>19, <2>20, <2>21, <2>22, <2>23, <2>24, <2>25
    DEF Next, Setup, Close, Get
<1> QED
  BY TypeCorrect, ProviderCorrect, <1>1, <1>2, PTL DEF Spec

\* The cached instruments are those of the installed Setup, for any number of
\* recordings, metrics, Setups and shutdowns in any interleaving.
THEOREM BindingFollowsSetup == Spec => []CurrentBindingFollowsSetup
<1>1. BindingInv => CurrentBindingFollowsSetup
  BY DEF BindingInv
<1> QED
  BY BindingCorrect, <1>1, PTL

\* A Setup that is up when a call begins is past its bump, and until it is
\* uninstalled every binding and every other call of that generation or a later
\* one is on its provider.
UnderInv ==
  \A r \in Recorders : call[r].under # Nil =>
    /\ phase[call[r].under] \in {"bumped", "ready"}
    /\ call[r].under = installed =>
         /\ \A m \in Metrics : current[m].gen # Nil /\ current[m].gen >= call[r].gen =>
              current[m].on = installed /\ current[m].scope = installed
         /\ \A q \in Recorders : call[q].gen >= call[r].gen =>
              /\ call[q].pc \in {"scoped", "created", "bound"} => call[q].scope = installed
              /\ call[q].pc \in {"created", "bound"} => call[q].on = installed

LEMMA Equal == ASSUME NEW m \in Nat, NEW n \in Nat, m <= n, m >= n PROVE m = n
  OBVIOUS

LEMMA UnderCorrect == Spec => []UnderInv
<1>1. Init => UnderInv
  BY DEF Init, UnderInv, Idle
<1>2. TypeOK /\ MutexInv /\ ProviderInv /\ BindingInv /\ UnderInv /\ [Next]_vars => UnderInv'
  <2> SUFFICES ASSUME TypeOK, MutexInv, ProviderInv, BindingInv, UnderInv, [Next]_vars
               PROVE  UnderInv'
    OBVIOUS
  <2>a. /\ \A r \in Recorders : call[r].gen \in Nat /\ call[r].under \in Setups \cup {Nil}
        /\ \A m \in Metrics : current[m].gen \in Nat \cup {Nil}
    BY DEF TypeOK, Call, Binding, Unbound
  <2>b. \A r \in Recorders : call[r].under \in Setups => phase[call[r].under] \in {"bumped", "ready"}
    BY SetupsAssumption DEF UnderInv
  <2> USE SetupsAssumption
      DEF TypeOK, UnderInv, setupVars, globals, callVars, Goto
  <2>1. ASSUME NEW s \in Setups, SetupEnter(s) PROVE UnderInv'
    BY <2>a, <2>b, <2>1 DEF SetupEnter
  <2>2. ASSUME NEW s \in Setups, SetupLock(s) PROVE UnderInv'
    BY <2>a, <2>b, <2>2 DEF SetupLock
  <2>3. ASSUME NEW s \in Setups, SetupBuild(s) PROVE UnderInv'
    BY <2>a, <2>b, <2>3 DEF SetupBuild
  <2>4. ASSUME NEW s \in Setups, SetupListen(s) PROVE UnderInv'
    BY <2>a, <2>b, <2>4 DEF SetupListen, FailBuilt
  <2>5. ASSUME NEW s \in Setups, SetupAbort(s) PROVE UnderInv'
    BY <2>a, <2>b, <2>5 DEF SetupAbort, FailBuilt, StopServer
  <2>6. ASSUME NEW s \in Setups, SetupProvide(s) PROVE UnderInv'
    BY <2>a, <2>b, <2>6 DEF SetupProvide
  <2>7. ASSUME NEW s \in Setups, SetupInstall(s) PROVE UnderInv'
    BY <2>a, <2>b, <2>7 DEF SetupInstall
  <2>8. ASSUME NEW s \in Setups, SetupBump(s) PROVE UnderInv'
    BY <2>a, <2>b, <2>8 DEF SetupBump
  <2>9. ASSUME NEW s \in Setups, SetupGauges(s) PROVE UnderInv'
    BY <2>a, <2>b, <2>9 DEF SetupGauges, Declared
  <2>10. ASSUME NEW s \in Setups, Serve(s) PROVE UnderInv'
    BY <2>10 DEF Serve
  <2>11. ASSUME NEW c \in Closers, CloseUninstall(c) PROVE UnderInv'
    BY <2>11 DEF CloseUninstall, CloserAt, CloserGoto
  <2>12. ASSUME NEW c \in Closers,
                CloseBump(c) \/ CloseStop(c) \/ CloseFlush(c) \/ CloseJoin(c)
         PROVE  UnderInv'
    BY <2>12 DEF CloseBump, CloseStop, CloseFlush, CloseJoin, StopServer
  <2>13. ASSUME NEW c \in Closers, NEW s \in Setups, CloseCall(c, s) PROVE UnderInv'
    BY <2>13 DEF CloseCall
  <2>14. ASSUME NEW r \in Recorders, NEW m \in Metrics, GetGeneration(r, m) PROVE UnderInv'
    <3>1. /\ call'[r].pc = "loaded" /\ call'[r].gen = generation
          /\ call'[r].under = IF \E s \in Setups : Settled(s) THEN installed ELSE Nil
      BY <2>14 DEF GetGeneration
    <3>2. \A q \in Recorders : q # r => call'[q] = call[q]
      BY <2>14 DEF GetGeneration
    <3>3. UNCHANGED <<phase, installed, current, generation>>
      BY <2>14 DEF GetGeneration
    <3>4. ASSUME call'[r].under # Nil
          PROVE  /\ phase[installed] \in {"bumped", "ready"} /\ installed \in Setups
                 /\ \A k \in Metrics : current[k].gen # Nil /\ current[k].gen >= generation =>
                      current[k].on = installed /\ current[k].scope = installed
                 /\ \A q \in Recorders : call[q].gen >= generation =>
                      /\ call[q].pc \in {"scoped", "created", "bound"} => call[q].scope = installed
                      /\ call[q].pc \in {"created", "bound"} => call[q].on = installed
      <4>1. installed \in Setups /\ Settled(installed)
        BY <3>1, <3>4 DEF Settled
      <4>2. /\ \A k \in Metrics : current[k].gen # Nil /\ current[k].gen >= generation =>
                 current[k].gen = generation
            /\ \A q \in Recorders : call[q].gen >= generation => call[q].gen = generation
        <5>1. generation \in Nat
          OBVIOUS
        <5>2. ASSUME NEW k \in Metrics, current[k].gen # Nil, current[k].gen >= generation
              PROVE  current[k].gen = generation
          <6>1. current[k].gen \in Nat /\ current[k].gen <= generation
            BY <2>a, <5>2 DEF BindingInv
          <6> QED
            BY <5>1, <5>2, <6>1, Equal
        <5>3. ASSUME NEW q \in Recorders, call[q].gen >= generation
              PROVE  call[q].gen = generation
          <6>1. call[q].gen \in Nat /\ call[q].gen <= generation
            BY <2>a DEF BindingInv
          <6> QED
            BY <5>1, <5>3, <6>1, Equal
        <5> QED
          BY <5>2, <5>3
      <4> QED
        BY <4>1, <4>2 DEF BindingInv, CurrentBindingFollowsSetup, Settled
    <3> QED
      BY <2>a, <3>1, <3>2, <3>3, <3>4
  <2>15. ASSUME NEW r \in Recorders, GetCached(r) PROVE UnderInv'
    <3>1. /\ UNCHANGED <<phase, installed, current>>
          /\ \A q \in Recorders : q # r => call'[q] = call[q]
      BY <2>15 DEF GetCached
    <3>2. /\ call[r].pc = "loaded" /\ call[r].metric \in Metrics /\ call[r] \in Call
          /\ call'[r].under = call[r].under /\ call'[r].gen = call[r].gen
          /\ \/ call'[r].pc = "missed"
             \/ /\ call'[r].pc = "bound" /\ current[call[r].metric].gen = call[r].gen
                /\ call'[r].on = current[call[r].metric].on
                /\ call'[r].scope = current[call[r].metric].scope
      <4>1. call[r].pc = "loaded" /\ call[r].metric \in Metrics /\ call[r] \in Call
        BY <2>15 DEF GetCached, CallAt
      <4> QED
        BY <2>15, <4>1 DEF GetCached, Call
    <3>3. call[r].gen # Nil
      BY <2>a, NilAssumption
    <3> QED
      BY <2>a, <3>1, <3>2, <3>3
  <2>16. ASSUME NEW r \in Recorders, GetScope(r) PROVE UnderInv'
    <3>1. /\ UNCHANGED <<phase, installed, current>>
          /\ \A q \in Recorders : q # r => call'[q] = call[q]
      BY <2>16 DEF GetScope
    <3>2. /\ call'[r].under = call[r].under /\ call'[r].gen = call[r].gen
          /\ call'[r].pc = "scoped" /\ call'[r].scope = installed
      BY <2>16 DEF GetScope, Call
    <3> QED
      BY <2>a, <3>1, <3>2
  <2>17. ASSUME NEW r \in Recorders, GetCreate(r) PROVE UnderInv'
    <3>1. /\ UNCHANGED <<phase, installed, current>>
          /\ \A q \in Recorders : q # r => call'[q] = call[q]
      BY <2>17 DEF GetCreate
    <3>2. /\ call'[r].under = call[r].under /\ call'[r].gen = call[r].gen
          /\ call'[r].scope = call[r].scope /\ call[r].pc = "scoped"
          /\ call'[r].pc = "created" /\ call'[r].on = provider
      BY <2>17 DEF GetCreate, CallAt, Call
    <3>3. \A q \in Recorders : call[q].under = installed /\ call[q].under # Nil => provider = installed
      BY <2>a DEF ProviderInv
    <3> QED
      BY <2>a, <3>1, <3>2, <3>3
  <2>18. ASSUME NEW r \in Recorders, GetStore(r) PROVE UnderInv'
    BY <2>18 DEF GetStore, CallAt
  <2>19. ASSUME NEW r \in Recorders, Record(r) PROVE UnderInv'
    BY <2>19 DEF Record, CallAt, Idle
  <2>20. ASSUME NEW g \in Gauges, GaugeAppend(g) PROVE UnderInv'
    BY <2>20 DEF GaugeAppend, GaugeAt
  <2>21. ASSUME NEW g \in Gauges, NewGauge(g) PROVE UnderInv'
    BY <2>21 DEF NewGauge, GaugeEnabled, GaugeScope, GaugeRegister
  <2>22. CASE UNCHANGED vars
    BY <2>22 DEF vars
  <2> QED
    BY <2>1, <2>2, <2>3, <2>4, <2>5, <2>6, <2>7, <2>8, <2>9, <2>10, <2>11, <2>12, <2>13, <2>14,
       <2>15, <2>16, <2>17, <2>18, <2>19, <2>20, <2>21, <2>22
    DEF Next, Setup, Close, Get
<1> QED
  BY TypeCorrect, MutexCorrect, ProviderCorrect, BindingCorrect, <1>1, <1>2, PTL DEF Spec

----------------------------------------------------------------------------
(* Gauges *)

\* NewGauge holds gaugesMu from the append to the registration, so a Setup
\* cannot settle in between: a scope read by then is the settled one.  After
\* the store and before Setup returns nothing can uninstall its state.
GaugeInv ==
  /\ \A g \in Gauges :
       gauge[g].pc \in {"appended", "enabled", "scoped"} => gaugesMu = g
  /\ \A s \in Setups : installed = s /\ phase[s] = "ready" =>
       \A g \in Gauges : gauge[g].pc = "scoped" => gauge[g].scope = s
  /\ \A s \in Setups : phase[s] \in {"installed", "bumped"} => installed = s
  /\ \A c \in Closers :
       closer[c].pc = "uninstall" =>
         closer[c].of \in Setups /\ phase[closer[c].of] = "ready"
  /\ GaugesFollowSetup

LEMMA GaugeCorrect == Spec => []GaugeInv
<1>1. Init => GaugeInv
  BY SetupsAssumption DEF Init, GaugeInv, GaugesFollowSetup
<1>2. TypeOK /\ MutexInv /\ ProviderInv /\ GaugeInv /\ [Next]_vars => GaugeInv'
  <2> SUFFICES ASSUME TypeOK, MutexInv, ProviderInv, GaugeInv, [Next]_vars
               PROVE  GaugeInv'
    OBVIOUS
  <2> USE SetupsAssumption
      DEF TypeOK, GaugeInv, GaugesFollowSetup, setupVars, globals, gaugeVars,
          closeVars, Goto
  <2>1. ASSUME NEW s \in Setups, SetupEnter(s) PROVE GaugeInv'
    BY <2>1 DEF SetupEnter
  <2>2. ASSUME NEW s \in Setups, SetupLock(s) PROVE GaugeInv'
    BY <2>2 DEF SetupLock
  <2>3. ASSUME NEW s \in Setups, SetupBuild(s) PROVE GaugeInv'
    BY <2>3 DEF SetupBuild
  <2>4. ASSUME NEW s \in Setups, SetupListen(s) PROVE GaugeInv'
    BY <2>4 DEF SetupListen, FailBuilt
  <2>5. ASSUME NEW s \in Setups, SetupAbort(s) PROVE GaugeInv'
    BY <2>5 DEF SetupAbort, FailBuilt, StopServer
  <2>6. ASSUME NEW s \in Setups, SetupProvide(s) PROVE GaugeInv'
    BY <2>6 DEF SetupProvide
  <2>7. ASSUME NEW s \in Setups, SetupInstall(s) PROVE GaugeInv'
    <3>1. \A q \in Setups : phase[q] \in Holding => q = s
      BY <2>7 DEF SetupInstall, MutexInv, Holding
    <3> QED
      BY <2>7, <3>1 DEF SetupInstall, Holding
  <2>8. ASSUME NEW s \in Setups, SetupBump(s) PROVE GaugeInv'
    BY <2>8 DEF SetupBump
  <2>9. ASSUME NEW s \in Setups, SetupGauges(s) PROVE GaugeInv'
    <3>1. installed = s /\ provider = s /\ gaugesMu = Nil /\ phase[s] = "bumped"
      BY <2>9 DEF SetupGauges, ProviderInv
    <3>2. \A g \in Gauges : gauge[g].pc \notin {"appended", "enabled", "scoped"}
      BY <3>1, GaugesAssumption
    <3>3. \A g \in Gauges : gauge[g].pc = "declared" =>
            [gauge |-> g, on |-> s, scope |-> s] \in registered'
      BY <2>9, <3>1 DEF SetupGauges, Declared
    <3>4. UNCHANGED <<installed, gauge, closer, gaugesMu>>
      BY <2>9 DEF SetupGauges
    <3>5. \A q \in Setups : q # s => phase'[q] = phase[q]
      BY <2>9 DEF SetupGauges
    <3>6. phase'[s] = "ready"
      BY <2>9 DEF SetupGauges
    <3> QED
      BY <3>1, <3>2, <3>3, <3>4, <3>5, <3>6
  <2>10. ASSUME NEW s \in Setups, Serve(s) PROVE GaugeInv'
    BY <2>10 DEF Serve
  <2>11. ASSUME NEW c \in Closers, NEW s \in Setups, CloseCall(c, s) PROVE GaugeInv'
    BY <2>11 DEF CloseCall
  <2>12. ASSUME NEW c \in Closers, CloseUninstall(c) PROVE GaugeInv'
    BY <2>12 DEF CloseUninstall, CloserAt, CloserGoto
  <2>13. ASSUME NEW c \in Closers, CloseBump(c) PROVE GaugeInv'
    BY <2>13 DEF CloseBump, CloserAt, CloserGoto
  <2>14. ASSUME NEW c \in Closers, CloseStop(c) PROVE GaugeInv'
    BY <2>14 DEF CloseStop, StopServer, CloserAt, CloserGoto
  <2>15. ASSUME NEW c \in Closers, CloseFlush(c) PROVE GaugeInv'
    BY <2>15 DEF CloseFlush, CloserAt, CloserGoto
  <2>16. ASSUME NEW c \in Closers, CloseJoin(c) PROVE GaugeInv'
    BY <2>16 DEF CloseJoin, CloserAt, CloserGoto
  <2>17. ASSUME NEW r \in Recorders, Get(r) PROVE GaugeInv'
    BY <2>17 DEF Get, GetCached, GetScope, GetCreate, GetStore, Record
  <2>18. ASSUME NEW r \in Recorders, NEW m \in Metrics, GetGeneration(r, m) PROVE GaugeInv'
    BY <2>18 DEF GetGeneration, CallAt
  <2>19. ASSUME NEW g \in Gauges, GaugeAppend(g) PROVE GaugeInv'
    <3>1. \A h \in Gauges : gauge[h].pc \notin {"appended", "enabled", "scoped"}
      BY <2>19, GaugesAssumption DEF GaugeAppend
    <3>2. \A h \in Gauges : h # g => gauge'[h] = gauge[h]
      BY <2>19 DEF GaugeAppend
    <3>3. gauge'[g].pc = "appended"
      BY <2>19 DEF GaugeAppend
    <3> QED
      BY <2>19, <3>1, <3>2, <3>3 DEF GaugeAppend
  <2>20. ASSUME NEW g \in Gauges, GaugeEnabled(g) PROVE GaugeInv'
    <3>1. gaugesMu = g /\ gauge[g].pc = "appended"
      BY <2>20 DEF GaugeEnabled, GaugeAt
    <3>2. \A h \in Gauges : h # g =>
            gauge'[h] = gauge[h] /\ gauge[h].pc \notin {"appended", "enabled", "scoped"}
      BY <2>20, <3>1 DEF GaugeEnabled
    <3>3. gauge'[g].pc = IF installed # Nil THEN "enabled" ELSE "declared"
      BY <2>20 DEF GaugeEnabled
    <3>4. gaugesMu' = IF installed # Nil THEN g ELSE Nil
      BY <2>20, <3>1 DEF GaugeEnabled
    <3>5. UNCHANGED <<phase, installed, registered, closer>>
      BY <2>20 DEF GaugeEnabled
    <3>6. \A s \in Setups : installed = s => installed # Nil
      BY SetupsAssumption
    <3>7. gauge'[g].pc = "declared" => \A s \in Setups : installed # s
      BY <3>3, <3>6
    <3>8. GaugesFollowSetup'
      BY <3>2, <3>3, <3>5, <3>7
    <3>9. \A h \in Gauges :
            gauge'[h].pc \in {"appended", "enabled", "scoped"} => gaugesMu' = h
      BY <3>2, <3>3, <3>4
    <3> QED
      BY <3>2, <3>3, <3>5, <3>8, <3>9
  <2>21. ASSUME NEW g \in Gauges, GaugeScope(g) PROVE GaugeInv'
    BY <2>21 DEF GaugeScope, GaugeAt
  <2>22. ASSUME NEW g \in Gauges, GaugeRegister(g) PROVE GaugeInv'
    <3>1. gauge[g].pc = "scoped" /\ gaugesMu = g
      BY <2>22 DEF GaugeRegister, GaugeAt
    <3>2. \A s \in Setups : installed = s =>
            [gauge |-> g, on |-> provider, scope |-> gauge[g].scope]
              = [gauge |-> g, on |-> s, scope |-> gauge[g].scope]
      BY DEF ProviderInv
    <3>3. \A h \in Gauges : h # g => gauge'[h] = gauge[h]
      BY <2>22 DEF GaugeRegister
    <3>4. gauge'[g].pc = "declared" /\ gauge'[g].scope = gauge[g].scope
      BY <2>22 DEF GaugeRegister
    <3>5. registered' = registered \cup
            {[gauge |-> g, on |-> provider, scope |-> gauge[g].scope]}
      BY <2>22 DEF GaugeRegister
    <3>6. UNCHANGED <<phase, installed, closer>>
      BY <2>22 DEF GaugeRegister
    <3>7. \A s \in Setups : installed = s /\ phase[s] = "ready" =>
            [gauge |-> g, on |-> s, scope |-> s] \in registered'
      BY <3>1, <3>2, <3>5
    <3>8. GaugesFollowSetup'
      BY <3>3, <3>5, <3>6, <3>7
    <3>9. \A h \in Gauges : gauge'[h].pc \notin {"appended", "enabled", "scoped"}
      BY <3>1, <3>3, <3>4
    <3> QED
      BY <3>3, <3>4, <3>6, <3>8, <3>9
  <2>23. CASE UNCHANGED vars
    BY <2>23 DEF vars
  <2> QED
    BY <2>1, <2>2, <2>3, <2>4, <2>5, <2>6, <2>7, <2>8, <2>9, <2>10, <2>11, <2>12, <2>13, <2>14,
       <2>15, <2>16, <2>17, <2>18, <2>19, <2>20, <2>21, <2>22, <2>23
    DEF Next, Setup, Close, NewGauge
<1> QED
  BY TypeCorrect, MutexCorrect, ProviderCorrect, <1>1, <1>2, PTL DEF Spec

\* A declared gauge is on the provider of the installed Setup, on whichever
\* side of installed.Store and registerGauges NewGauge ran.
THEOREM GaugeFollowsSetup == Spec => []GaugesFollowSetup
<1>1. GaugeInv => GaugesFollowSetup
  BY DEF GaugeInv
<1> QED
  BY GaugeCorrect, <1>1, PTL

----------------------------------------------------------------------------
(* The shutdown that Setup returns, and the Setups that fail *)

\* The goroutine in the body of once.Do.
Working == {"uninstall", "bump", "stop", "flush"}

\* Only the shutdown of a Setup that returned runs, in one goroutine at a time.
OnceInv ==
  /\ \A s \in Setups : once[s] # "idle" => phase[s] = "ready"
  /\ \A c \in Closers : closer[c].pc # "idle" => closer[c].of \in Setups
  /\ \A c \in Closers : closer[c].pc \in Working => once[closer[c].of] = "running"
  /\ \A c, d \in Closers :
       closer[c].pc \in Working /\ closer[d].pc \in Working
         /\ closer[c].of = closer[d].of => c = d
  /\ \A c \in Closers : closer[c].pc = "returned" => once[closer[c].of] = "done"

\* Setup acquires its provider and its listener one at a time, and gives both
\* back when it fails.
Serving(s) == s \in Dedicated => listener[s] \in {"bound", "serving"}
AcquiredInv ==
  \A s \in Setups :
    /\ s \notin Dedicated => listener[s] = "none"
    /\ phase[s] \in {"new", "waiting", "locked"} => mp[s] = "none" /\ listener[s] = "none"
    /\ phase[s] = "built" => mp[s] = "live" /\ listener[s] = "none"
    /\ phase[s] \in {"listening", "provided"} => mp[s] = "live" /\ Serving(s)
    /\ phase[s] = "failed" => mp[s] # "live" /\ listener[s] \in {"none", "closing"}

\* Shutdown gives back in order, so what is still installed is still up.
ReleasedInv ==
  /\ \A c \in Closers : closer[c].pc \in {"bump", "stop", "flush"} => installed # closer[c].of
  /\ \A c \in Closers : closer[c].pc = "flush" => listener[closer[c].of] \in {"none", "closing"}
  /\ \A s \in Setups : once[s] = "done" =>
       installed # s /\ mp[s] = "down" /\ listener[s] \in {"none", "closing"}
  /\ \A s \in Setups : installed = s => mp[s] = "live" /\ Serving(s)

LEMMA OnceCorrect == Spec => []OnceInv
<1>1. Init => OnceInv
  BY DEF Init, OnceInv, Working
<1>2. TypeOK /\ OnceInv /\ [Next]_vars => OnceInv'
  <2> SUFFICES ASSUME TypeOK, OnceInv, [Next]_vars PROVE OnceInv'
    OBVIOUS
  <2> USE DEF TypeOK, OnceInv, Working, setupVars, globals, closeVars, Goto
  <2>1. ASSUME NEW s \in Setups, SetupEnter(s) PROVE OnceInv'
    BY <2>1 DEF SetupEnter
  <2>2. ASSUME NEW s \in Setups, SetupLock(s) PROVE OnceInv'
    BY <2>2 DEF SetupLock
  <2>3. ASSUME NEW s \in Setups, SetupBuild(s) PROVE OnceInv'
    BY <2>3 DEF SetupBuild
  <2>4. ASSUME NEW s \in Setups, SetupListen(s) PROVE OnceInv'
    BY <2>4 DEF SetupListen, FailBuilt
  <2>5. ASSUME NEW s \in Setups, SetupAbort(s) PROVE OnceInv'
    BY <2>5 DEF SetupAbort, FailBuilt, StopServer
  <2>6. ASSUME NEW s \in Setups, SetupProvide(s) PROVE OnceInv'
    BY <2>6 DEF SetupProvide
  <2>7. ASSUME NEW s \in Setups, SetupInstall(s) PROVE OnceInv'
    BY <2>7 DEF SetupInstall
  <2>8. ASSUME NEW s \in Setups, SetupBump(s) PROVE OnceInv'
    BY <2>8 DEF SetupBump
  <2>9. ASSUME NEW s \in Setups, SetupGauges(s) PROVE OnceInv'
    BY <2>9 DEF SetupGauges, Declared
  <2>10. ASSUME NEW s \in Setups, Serve(s) PROVE OnceInv'
    BY <2>10 DEF Serve
  <2>11. ASSUME NEW c \in Closers, NEW s \in Setups, CloseCall(c, s) PROVE OnceInv'
    BY <2>11 DEF CloseCall
  <2>12. ASSUME NEW c \in Closers, CloseUninstall(c) PROVE OnceInv'
    BY <2>12 DEF CloseUninstall, CloserAt, CloserGoto
  <2>13. ASSUME NEW c \in Closers, CloseBump(c) PROVE OnceInv'
    BY <2>13 DEF CloseBump, CloserAt, CloserGoto
  <2>14. ASSUME NEW c \in Closers, CloseStop(c) PROVE OnceInv'
    BY <2>14 DEF CloseStop, StopServer, CloserAt, CloserGoto
  <2>15. ASSUME NEW c \in Closers, CloseFlush(c) PROVE OnceInv'
    BY <2>15 DEF CloseFlush, CloserAt, CloserGoto
  <2>16. ASSUME NEW c \in Closers, CloseJoin(c) PROVE OnceInv'
    BY <2>16 DEF CloseJoin, CloserAt, CloserGoto
  <2>17. ASSUME NEW r \in Recorders, Get(r) PROVE OnceInv'
    BY <2>17 DEF Get, GetCached, GetScope, GetCreate, GetStore, Record
  <2>18. ASSUME NEW r \in Recorders, NEW m \in Metrics, GetGeneration(r, m) PROVE OnceInv'
    BY <2>18 DEF GetGeneration, CallAt
  <2>19. ASSUME NEW g \in Gauges, GaugeAppend(g) PROVE OnceInv'
    BY <2>19 DEF GaugeAppend, GaugeAt
  <2>20. ASSUME NEW g \in Gauges, NewGauge(g) PROVE OnceInv'
    BY <2>20 DEF NewGauge, GaugeEnabled, GaugeScope, GaugeRegister
  <2>21. CASE UNCHANGED vars
    BY <2>21 DEF vars
  <2> QED
    BY <2>1, <2>2, <2>3, <2>4, <2>5, <2>6, <2>7, <2>8, <2>9, <2>10, <2>11, <2>12, <2>13, <2>14,
       <2>15, <2>16, <2>17, <2>18, <2>19, <2>20, <2>21
    DEF Next, Setup, Close
<1> QED
  BY TypeCorrect, <1>1, <1>2, PTL DEF Spec

LEMMA AcquiredCorrect == Spec => []AcquiredInv
<1>1. Init => AcquiredInv
  BY DEF Init, AcquiredInv
<1>2. TypeOK /\ OnceInv /\ AcquiredInv /\ [Next]_vars => AcquiredInv'
  <2> SUFFICES ASSUME TypeOK, OnceInv, AcquiredInv, [Next]_vars PROVE AcquiredInv'
    OBVIOUS
  <2> USE DEF TypeOK, AcquiredInv, Serving, setupVars, globals, Goto
  <2>1. ASSUME NEW s \in Setups, SetupEnter(s) PROVE AcquiredInv'
    BY <2>1 DEF SetupEnter
  <2>2. ASSUME NEW s \in Setups, SetupLock(s) PROVE AcquiredInv'
    BY <2>2 DEF SetupLock
  <2>3. ASSUME NEW s \in Setups, SetupBuild(s) PROVE AcquiredInv'
    BY <2>3 DEF SetupBuild
  <2>4. ASSUME NEW s \in Setups, SetupListen(s) PROVE AcquiredInv'
    BY <2>4 DEF SetupListen, FailBuilt
  <2>5. ASSUME NEW s \in Setups, SetupAbort(s) PROVE AcquiredInv'
    BY <2>5 DEF SetupAbort, FailBuilt, StopServer
  <2>6. ASSUME NEW s \in Setups, SetupProvide(s) PROVE AcquiredInv'
    BY <2>6 DEF SetupProvide
  <2>7. ASSUME NEW s \in Setups, SetupInstall(s) PROVE AcquiredInv'
    BY <2>7 DEF SetupInstall
  <2>8. ASSUME NEW s \in Setups, SetupBump(s) PROVE AcquiredInv'
    BY <2>8 DEF SetupBump
  <2>9. ASSUME NEW s \in Setups, SetupGauges(s) PROVE AcquiredInv'
    BY <2>9 DEF SetupGauges, Declared
  <2>10. ASSUME NEW s \in Setups, Serve(s) PROVE AcquiredInv'
    BY <2>10 DEF Serve
  <2>11. ASSUME NEW c \in Closers, NEW s \in Setups, CloseCall(c, s) PROVE AcquiredInv'
    BY <2>11 DEF CloseCall
  <2>12. ASSUME NEW c \in Closers, CloseUninstall(c) PROVE AcquiredInv'
    BY <2>12 DEF CloseUninstall, CloserAt, CloserGoto
  <2>13. ASSUME NEW c \in Closers, CloseBump(c) PROVE AcquiredInv'
    BY <2>13 DEF CloseBump, CloserAt, CloserGoto
  <2>14. ASSUME NEW c \in Closers, CloseStop(c) PROVE AcquiredInv'
    <3>1. closer[c].of \in Setups /\ phase[closer[c].of] = "ready"
      BY <2>14 DEF CloseStop, CloserAt, OnceInv, Working
    <3> QED
      BY <2>14, <3>1 DEF CloseStop, StopServer
  <2>15. ASSUME NEW c \in Closers, CloseFlush(c) PROVE AcquiredInv'
    <3>1. closer[c].of \in Setups /\ phase[closer[c].of] = "ready"
      BY <2>15 DEF CloseFlush, CloserAt, OnceInv, Working
    <3> QED
      BY <2>15, <3>1 DEF CloseFlush
  <2>16. ASSUME NEW c \in Closers, CloseJoin(c) PROVE AcquiredInv'
    BY <2>16 DEF CloseJoin, CloserAt, CloserGoto
  <2>17. ASSUME NEW r \in Recorders, Get(r) PROVE AcquiredInv'
    BY <2>17 DEF Get, GetCached, GetScope, GetCreate, GetStore, Record
  <2>18. ASSUME NEW r \in Recorders, NEW m \in Metrics, GetGeneration(r, m) PROVE AcquiredInv'
    BY <2>18 DEF GetGeneration, CallAt
  <2>19. ASSUME NEW g \in Gauges, GaugeAppend(g) PROVE AcquiredInv'
    BY <2>19 DEF GaugeAppend, GaugeAt
  <2>20. ASSUME NEW g \in Gauges, NewGauge(g) PROVE AcquiredInv'
    BY <2>20 DEF NewGauge, GaugeEnabled, GaugeScope, GaugeRegister
  <2>21. CASE UNCHANGED vars
    BY <2>21 DEF vars
  <2> QED
    BY <2>1, <2>2, <2>3, <2>4, <2>5, <2>6, <2>7, <2>8, <2>9, <2>10, <2>11, <2>12, <2>13, <2>14,
       <2>15, <2>16, <2>17, <2>18, <2>19, <2>20, <2>21
    DEF Next, Setup, Close
<1> QED
  BY TypeCorrect, OnceCorrect, <1>1, <1>2, PTL DEF Spec

LEMMA ReleasedCorrect == Spec => []ReleasedInv
<1>1. Init => ReleasedInv
  BY SetupsAssumption DEF Init, ReleasedInv
<1>2. TypeOK /\ MutexInv /\ ProviderInv /\ OnceInv /\ AcquiredInv /\ ReleasedInv
        /\ [Next]_vars => ReleasedInv'
  <2> SUFFICES ASSUME TypeOK, MutexInv, ProviderInv, OnceInv, AcquiredInv, ReleasedInv,
                      [Next]_vars
               PROVE  ReleasedInv'
    OBVIOUS
  <2> USE SetupsAssumption
      DEF TypeOK, OnceInv, Working, ReleasedInv, Serving, setupVars, globals,
          closeVars, Goto
  <2>1. ASSUME NEW s \in Setups, SetupEnter(s) PROVE ReleasedInv'
    BY <2>1 DEF SetupEnter
  <2>2. ASSUME NEW s \in Setups, SetupLock(s) PROVE ReleasedInv'
    BY <2>2 DEF SetupLock
  <2>3. ASSUME NEW s \in Setups, SetupBuild(s) PROVE ReleasedInv'
    BY <2>3 DEF SetupBuild
  <2>4. ASSUME NEW s \in Setups, SetupListen(s) PROVE ReleasedInv'
    <3>1. installed # s /\ once[s] = "idle"
      BY <2>4 DEF SetupListen, FailBuilt, ProviderInv, Published
    <3>2. \A c \in Closers : closer[c].pc \in Working => closer[c].of # s
      BY <3>1
    <3> QED
      BY <2>4, <3>1, <3>2 DEF SetupListen, FailBuilt
  <2>5. ASSUME NEW s \in Setups, SetupAbort(s) PROVE ReleasedInv'
    <3>1. installed # s /\ once[s] = "idle"
      BY <2>5 DEF SetupAbort, FailBuilt, ProviderInv, Published
    <3>2. \A c \in Closers : closer[c].pc \in Working => closer[c].of # s
      BY <3>1
    <3> QED
      BY <2>5, <3>1, <3>2 DEF SetupAbort, FailBuilt, StopServer
  <2>6. ASSUME NEW s \in Setups, SetupProvide(s) PROVE ReleasedInv'
    BY <2>6 DEF SetupProvide
  <2>7. ASSUME NEW s \in Setups, SetupInstall(s) PROVE ReleasedInv'
    <3>1. mp[s] = "live" /\ Serving(s) /\ once[s] # "done"
      BY <2>7 DEF SetupInstall, AcquiredInv
    <3>2. \A c \in Closers : closer[c].pc \in Working => closer[c].of # s
      BY <2>7 DEF SetupInstall
    <3> QED
      BY <2>7, <3>1, <3>2 DEF SetupInstall
  <2>8. ASSUME NEW s \in Setups, SetupBump(s) PROVE ReleasedInv'
    BY <2>8 DEF SetupBump
  <2>9. ASSUME NEW s \in Setups, SetupGauges(s) PROVE ReleasedInv'
    BY <2>9 DEF SetupGauges, Declared
  <2>10. ASSUME NEW s \in Setups, Serve(s) PROVE ReleasedInv'
    BY <2>10 DEF Serve
  <2>11. ASSUME NEW c \in Closers, NEW s \in Setups, CloseCall(c, s) PROVE ReleasedInv'
    BY <2>11 DEF CloseCall
  <2>12. ASSUME NEW c \in Closers, CloseUninstall(c) PROVE ReleasedInv'
    BY <2>12 DEF CloseUninstall, CloserAt, CloserGoto
  <2>13. ASSUME NEW c \in Closers, CloseBump(c) PROVE ReleasedInv'
    BY <2>13 DEF CloseBump, CloserAt, CloserGoto
  <2>14. ASSUME NEW c \in Closers, CloseStop(c) PROVE ReleasedInv'
    BY <2>14 DEF CloseStop, StopServer, CloserAt, CloserGoto
  <2>15. ASSUME NEW c \in Closers, CloseFlush(c) PROVE ReleasedInv'
    BY <2>15 DEF CloseFlush, CloserAt, CloserGoto
  <2>16. ASSUME NEW c \in Closers, CloseJoin(c) PROVE ReleasedInv'
    BY <2>16 DEF CloseJoin, CloserAt, CloserGoto
  <2>17. ASSUME NEW r \in Recorders, Get(r) PROVE ReleasedInv'
    BY <2>17 DEF Get, GetCached, GetScope, GetCreate, GetStore, Record
  <2>18. ASSUME NEW r \in Recorders, NEW m \in Metrics, GetGeneration(r, m) PROVE ReleasedInv'
    BY <2>18 DEF GetGeneration, CallAt
  <2>19. ASSUME NEW g \in Gauges, GaugeAppend(g) PROVE ReleasedInv'
    BY <2>19 DEF GaugeAppend, GaugeAt
  <2>20. ASSUME NEW g \in Gauges, NewGauge(g) PROVE ReleasedInv'
    BY <2>20 DEF NewGauge, GaugeEnabled, GaugeScope, GaugeRegister
  <2>21. CASE UNCHANGED vars
    BY <2>21 DEF vars
  <2> QED
    BY <2>1, <2>2, <2>3, <2>4, <2>5, <2>6, <2>7, <2>8, <2>9, <2>10, <2>11, <2>12, <2>13, <2>14,
       <2>15, <2>16, <2>17, <2>18, <2>19, <2>20, <2>21
    DEF Next, Setup, Close
<1> QED
  BY TypeCorrect, MutexCorrect, ProviderCorrect, OnceCorrect, AcquiredCorrect,
     <1>1, <1>2, PTL DEF Spec

----------------------------------------------------------------------------

\* While Enabled reports true, the provider and the listener are up.
THEOREM EnabledIsUp == Spec => []EnabledMeansUp
<1>1. ProviderInv /\ ReleasedInv => EnabledMeansUp
  BY DEF ProviderInv, ReleasedInv, EnabledMeansUp, Serving
<1> QED
  BY ProviderCorrect, ReleasedCorrect, <1>1, PTL

\* What is measured while a Setup is up reaches it, under its name.
THEOREM MeasurementsReachSetup == Spec => []MeasurementReachesSetup
<1>1. TypeOK /\ UnderInv /\ EnabledMeansUp => MeasurementReachesSetup
  <2> SUFFICES ASSUME TypeOK, UnderInv, EnabledMeansUp, NEW r \in Recorders,
                      CallAt(r, "bound"), call[r].under = installed, installed # Nil
               PROVE  /\ call[r].on = installed /\ call[r].scope = installed
                      /\ Live(call[r].on)
    BY DEF MeasurementReachesSetup
  <2>1. call[r].gen \in Nat /\ installed \in Setups
    BY DEF TypeOK, Call
  <2>2. call[r].on = installed /\ call[r].scope = installed
    BY <2>1 DEF UnderInv, CallAt
  <2> QED
    BY <2>1, <2>2 DEF EnabledMeansUp, Live, Target
<1> QED
  BY TypeCorrect, UnderCorrect, EnabledIsUp, <1>1, PTL

\* No caller of a shutdown returns before the shutdown is complete.
THEOREM ShutdownIsComplete == Spec => []ShutdownComplete
<1>1. OnceInv /\ ReleasedInv => ShutdownComplete
  BY DEF OnceInv, ReleasedInv, ShutdownComplete
<1> QED
  BY OnceCorrect, ReleasedCorrect, <1>1, PTL

\* A Setup that returns an error leaves nothing behind.
THEOREM FailedSetupIsClean == Spec => []FailedSetupLeavesNothing
<1>1. MutexInv /\ ProviderInv /\ AcquiredInv => FailedSetupLeavesNothing
  BY DEF MutexInv, Holding, ProviderInv, Published, AcquiredInv, FailedSetupLeavesNothing
<1> QED
  BY MutexCorrect, ProviderCorrect, AcquiredCorrect, <1>1, PTL

\* An installed state goes away only through its own shutdown.
THEOREM OnlyOwnShutdown == Spec => OnlyOwnShutdownUninstalls
<1> DEFINE Step == installed # Nil /\ installed' # installed =>
       installed' = Nil /\ \E c \in Closers : closer[c] = [pc |-> "uninstall",
                                                         of |-> installed]
<1>1. TypeOK /\ MutexInv /\ [Next]_vars => [Step]_vars
  <2> SUFFICES ASSUME TypeOK, MutexInv, [Next]_vars PROVE Step
    OBVIOUS
  <2> USE DEF TypeOK, MutexInv, setupVars, globals, Goto
  <2>1. ASSUME NEW s \in Setups, SetupEnter(s) PROVE Step
    BY <2>1 DEF SetupEnter
  <2>2. ASSUME NEW s \in Setups, SetupLock(s) PROVE Step
    BY <2>2 DEF SetupLock
  <2>3. ASSUME NEW s \in Setups, SetupBuild(s) PROVE Step
    BY <2>3 DEF SetupBuild
  <2>4. ASSUME NEW s \in Setups, SetupListen(s) PROVE Step
    BY <2>4 DEF SetupListen, FailBuilt
  <2>5. ASSUME NEW s \in Setups, SetupAbort(s) PROVE Step
    BY <2>5 DEF SetupAbort, FailBuilt, StopServer
  <2>6. ASSUME NEW s \in Setups, SetupProvide(s) PROVE Step
    BY <2>6 DEF SetupProvide
  <2>7. ASSUME NEW s \in Setups, SetupInstall(s) PROVE Step
    BY <2>7 DEF SetupInstall
  <2>8. ASSUME NEW s \in Setups, SetupBump(s) PROVE Step
    BY <2>8 DEF SetupBump
  <2>9. ASSUME NEW s \in Setups, SetupGauges(s) PROVE Step
    BY <2>9 DEF SetupGauges, Declared
  <2>10. ASSUME NEW s \in Setups, Serve(s) PROVE Step
    BY <2>10 DEF Serve
  <2>11. ASSUME NEW c \in Closers, CloseUninstall(c) PROVE Step
    BY <2>11 DEF CloseUninstall, CloserAt, CloserGoto
  <2>12. ASSUME NEW c \in Closers,
               CloseBump(c) \/ CloseStop(c) \/ CloseFlush(c) \/ CloseJoin(c)
       PROVE  Step
    BY <2>12 DEF CloseBump, CloseStop, CloseFlush, CloseJoin
  <2>13. ASSUME NEW c \in Closers, NEW s \in Setups, CloseCall(c, s) PROVE Step
    BY <2>13 DEF CloseCall
  <2>14. ASSUME NEW r \in Recorders, Get(r) PROVE Step
    BY <2>14 DEF Get, GetCached, GetScope, GetCreate, GetStore, Record
  <2>15. ASSUME NEW r \in Recorders, NEW m \in Metrics, GetGeneration(r, m) PROVE Step
    BY <2>15 DEF GetGeneration, CallAt
  <2>16. ASSUME NEW g \in Gauges, GaugeAppend(g) PROVE Step
    BY <2>16 DEF GaugeAppend, GaugeAt
  <2>17. ASSUME NEW g \in Gauges, NewGauge(g) PROVE Step
    BY <2>17 DEF NewGauge, GaugeEnabled, GaugeScope, GaugeRegister
  <2>18. CASE UNCHANGED vars
    BY <2>18 DEF vars
  <2> QED
    BY <2>1, <2>2, <2>3, <2>4, <2>5, <2>6, <2>7, <2>8, <2>9, <2>10, <2>11, <2>12, <2>13, <2>14,
       <2>15, <2>16, <2>17, <2>18
    DEF Next, Setup, Close
<1> QED
  BY TypeCorrect, MutexCorrect, <1>1, PTL DEF Spec, OnlyOwnShutdownUninstalls
=============================================================================
