--------------------------- MODULE ServicesProofs ---------------------------
(***************************************************************************)
(* Proofs about the services of MCServices that keep promises, callbacks   *)
(* or turns (Node's loop, proxy lookups, net logs, the debugger and        *)
(* permissions) and about those that pass something on, piece by piece     *)
(* (streams, net requests and HID devices), for any number of requests,    *)
(* environments, permissions, pieces and so on; and about the office       *)
(* instance.                                                               *)
(***************************************************************************)
EXTENDS MCServices, Integers, FiniteSetTheorems, TLAPS

-----------------------------------------------------------------------------
(* Sequences, as the queues of the services use them.                      *)

LEMMA EmptyFacts == ASSUME NEW S PROVE <<>> \in Seq(S) /\ Len(<<>>) = 0
  OBVIOUS

LEMMA AppendFacts ==
  ASSUME NEW S, NEW s \in Seq(S), NEW e \in S
  PROVE  /\ Append(s, e) \in Seq(S) /\ Append(s, e) # <<>>
         /\ Len(Append(s, e)) = Len(s) + 1
         /\ \A i \in 1..Len(s) : Append(s, e)[i] = s[i]
         /\ Append(s, e)[Len(s) + 1] = e
  OBVIOUS

LEMMA ExceptFacts ==
  ASSUME NEW S, NEW s \in Seq(S), s # <<>>, NEW i \in 1..Len(s), NEW e \in S
  PROVE  /\ [s EXCEPT ![i] = e] \in Seq(S) /\ [s EXCEPT ![i] = e] # <<>>
         /\ Len([s EXCEPT ![i] = e]) = Len(s)
  OBVIOUS

LEMMA TailFacts ==
  ASSUME NEW S, NEW s \in Seq(S), s # <<>>
  PROVE  /\ Tail(s) \in Seq(S) /\ Len(Tail(s)) = Len(s) - 1 /\ Len(s) > 0
         /\ Head(s) \in S /\ Head(s) = s[1]
         /\ \A i \in 1..Len(Tail(s)) : Tail(s)[i] = s[i + 1]
  OBVIOUS

LEMMA SingleFacts ==
  ASSUME NEW e
  PROVE  /\ Tail(<<e>>) = <<>> /\ Head(<<e>>) = e /\ Append(<<>>, e) = <<e>>
         /\ <<e>> # <<>>
  OBVIOUS

-----------------------------------------------------------------------------
(* Node's loop.  There is one permission to touch the loop, and it is in   *)
(* one place: with the main thread in UvRunOnce, in the semaphore, with    *)
(* the thread that polls, or in a task that was posted.                    *)

NodeTokens ==
    (IF main_thread = "uv_run" THEN 1 ELSE 0) + embed_sem
        + (IF embed_thread \in {"polling", "waking"} THEN 1 ELSE 0) + uv_tasks

NodeInvariant ==
    /\ Looping!TypeOK
    /\ embed_closed \in BOOLEAN /\ initialized \in BOOLEAN
    /\ embed_closed \/ NodeTokens <= 1
    /\ initialized \/ embed_closed \/ NodeTokens = 0
    /\ main_thread = "uv_run" => initialized /\ ~embed_closed
    /\ embed_closed => main_thread \in {"closing", "joining", "gone"}
    /\ embed_thread = "gone" => embed_closed
    /\ embed_thread = "none" => ~initialized /\ environments = {}

LEMMA NodeInit == Looping!Init => NodeInvariant
  <1> SUFFICES ASSUME Looping!Init PROVE NodeInvariant
    OBVIOUS
  <1> USE DEF Looping!Init
  <1>1. Looping!TypeOK
    BY DEF Looping!TypeOK, Looping!NoEnv
  <1>2. NodeTokens = 0 /\ NodeTokens <= 1
    BY DEF NodeTokens
  <1> QED BY <1>1, <1>2 DEF NodeInvariant

LEMMA NodeStep == NodeInvariant /\ Looping!Next => NodeInvariant'
  <1> SUFFICES ASSUME NodeInvariant, Looping!Next PROVE NodeInvariant'
    OBVIOUS
  <1> USE DEF NodeInvariant, NodeTokens, Looping!TypeOK, Looping!NoEnv
  <1>1. CASE Looping!DidCreateScriptContext
    <2> USE DEF Looping!DidCreateScriptContext, Looping!StartPolling
    <2>1. /\ environments' \subseteq Environments /\ created' \in Environments
          /\ uv_env' \in environments' \cup {0}
      BY <1>1
    <2>2. /\ embed_thread' \in {"waiting", "polling", "waking", "gone"}
          /\ embed_thread' \in {"polling", "waking"} <=> embed_thread \in {"polling", "waking"}
          /\ embed_thread' = "gone" => embed_thread = "gone"
          /\ UNCHANGED <<embed_sem, uv_tasks, embed_closed>>
      BY <1>1
    <2>3. /\ initialized' \in BOOLEAN /\ (initialized => initialized')
          /\ main_thread' \in {"idle", "uv_run"}
          /\ main_thread' = "uv_run" => ~initialized /\ initialized'
          /\ main_thread = "idle"
      BY <1>1
    <2>4. ~embed_closed
      BY <1>1
    <2>5. Looping!TypeOK'
      BY <2>1, <2>2, <2>3
    <2>6. NodeTokens' = NodeTokens + IF main_thread' = "uv_run" THEN 1 ELSE 0
      BY <2>2, <2>3
    <2> QED BY <2>2, <2>3, <2>4, <2>5, <2>6
  <1>2. ASSUME NEW e \in Environments, Looping!WillReleaseScriptContext(e)
        PROVE  NodeInvariant'
    BY <1>2 DEF Looping!WillReleaseScriptContext
  <1>3. CASE Looping!Close
    BY <1>3 DEF Looping!Close
  <1>4. CASE Looping!UvRunOnce
    BY <1>4 DEF Looping!UvRunOnce
  <1>5. CASE Looping!UvRunEnd
    BY <1>5 DEF Looping!UvRunEnd
  <1>6. CASE Looping!FreeEnvironment
    BY <1>6 DEF Looping!FreeEnvironment
  <1>7. CASE Looping!WakeupEmbedThread
    BY <1>7 DEF Looping!WakeupEmbedThread
  <1>8. CASE Looping!Joined
    BY <1>8 DEF Looping!Joined
  <1>9. CASE Looping!SemWait
    BY <1>9 DEF Looping!SemWait
  <1>10. CASE Looping!PollEvents
    BY <1>10 DEF Looping!PollEvents
  <1>11. CASE Looping!WakeupMainThread
    BY <1>11 DEF Looping!WakeupMainThread
  <1>12. CASE Looping!EventIsReady
    BY <1>12 DEF Looping!EventIsReady
  <1> QED
    BY <1>1, <1>2, <1>3, <1>4, <1>5, <1>6, <1>7, <1>8, <1>9, <1>10, <1>11, <1>12
    DEF Looping!Next, Looping!MainThread, Looping!EmbedThread

LEMMA NodeStutter == NodeInvariant /\ Looping!NoStep => NodeInvariant'
  BY DEF NodeInvariant, NodeTokens, Looping!TypeOK, Looping!NoStep, Looping!nodeVars, Looping!NoEnv

\* The loop is run or polled by one thread: with a token on the main thread there
\* is none anywhere else.
LEMMA NodeSafe == NodeInvariant => Looping!OneThreadAtATime
  BY DEF NodeInvariant, NodeTokens, Looping!TypeOK, Looping!OneThreadAtATime

-----------------------------------------------------------------------------
(* Proxy lookups.  Requests are answered in the order they were made, so   *)
(* the queue holds the last of them, and the lookup in progress is for its *)
(* first.                                                                  *)

LookupOrder ==
    /\ Lookup!TypeOK /\ asked \in Nat
    /\ Len(proxies) + Len(pending_lookups) = asked
    /\ \A i \in 1..Len(proxies) : proxies[i] = i
    /\ \A i \in 1..Len(pending_lookups) : pending_lookups[i] = Len(proxies) + i
LookupInvariant == LookupOrder /\ Lookup!LookupIsForTheFront

LEMMA LookupInit == Lookup!Init => LookupInvariant
  <1> SUFFICES ASSUME Lookup!Init PROVE LookupInvariant
    OBVIOUS
  <1>1. LookupOrder
    BY EmptyFacts DEF Lookup!Init, LookupOrder, Lookup!TypeOK, Lookup!NoLookup
  <1>2. Lookup!LookupIsForTheFront
    BY DEF Lookup!Init, Lookup!LookupIsForTheFront
  <1> QED BY <1>1, <1>2 DEF LookupInvariant

LEMMA LookupStep == LookupInvariant /\ Lookup!Next => LookupInvariant'
  <1> SUFFICES ASSUME LookupOrder, Lookup!LookupIsForTheFront, Lookup!Next PROVE LookupInvariant'
    BY DEF LookupInvariant
  <1> USE DEF LookupOrder, Lookup!TypeOK, Lookup!NoLookup
  <1>1. CASE Lookup!ResolveProxy
    <2>1. asked' \in Lookups /\ asked' \in Nat /\ asked' = asked + 1 /\ UNCHANGED proxies
      BY <1>1 DEF Lookup!ResolveProxy
    <2>2. /\ pending_lookups' \in Seq(Lookups) /\ pending_lookups' # <<>>
          /\ Len(pending_lookups') = Len(pending_lookups) + 1
          /\ \A i \in 1..Len(pending_lookups) : pending_lookups'[i] = pending_lookups[i]
          /\ pending_lookups'[Len(pending_lookups) + 1] = asked'
      BY <1>1, <2>1, AppendFacts DEF Lookup!ResolveProxy
    <2>3. \A i \in 1..Len(pending_lookups') : pending_lookups'[i] = Len(proxies) + i
      <3>1. SUFFICES ASSUME NEW i \in 1..Len(pending_lookups')
                     PROVE  pending_lookups'[i] = Len(proxies) + i
        OBVIOUS
      <3>2. CASE i \in 1..Len(pending_lookups)
        BY <2>2, <3>2
      <3>3. CASE i = Len(pending_lookups) + 1
        BY <2>1, <2>2, <3>3
      <3> QED BY <2>2, <3>1, <3>2, <3>3
    <2>4. Head(pending_lookups') = Len(proxies) + 1 /\ Head(pending_lookups') \in Lookups
      BY <2>2, <2>3
    <2>5. pending_lookups # <<>> => Head(pending_lookups) = Len(proxies) + 1
      OBVIOUS
    <2>6. receiver' = IF receiver = 0 THEN Head(pending_lookups') ELSE receiver
      BY <1>1 DEF Lookup!ResolveProxy
    <2>7. LookupOrder'
      BY <2>1, <2>2, <2>3, <2>4, <2>6
    <2>8. Lookup!LookupIsForTheFront'
      <3>1. Len(proxies) + 1 # 0
        OBVIOUS
      <3> QED BY <2>2, <2>4, <2>5, <2>6, <3>1 DEF Lookup!LookupIsForTheFront
    <2> QED BY <2>7, <2>8 DEF LookupInvariant
  <1>2. CASE Lookup!OnProxyLookupComplete
    <2>0. pending_lookups # <<>>
      BY <1>2 DEF Lookup!OnProxyLookupComplete, Lookup!LookupIsForTheFront
    <2>1. Head(pending_lookups) = Len(proxies) + 1 /\ Head(pending_lookups) \in Lookups
      BY <2>0, TailFacts
    <2>2. /\ pending_lookups' \in Seq(Lookups)
          /\ Len(pending_lookups') = Len(pending_lookups) - 1
          /\ \A i \in 1..Len(pending_lookups') : pending_lookups'[i] = pending_lookups[i + 1]
      BY <1>2, <2>0, TailFacts DEF Lookup!OnProxyLookupComplete
    <2>3. /\ proxies' \in Seq(Lookups) /\ Len(proxies') = Len(proxies) + 1
          /\ \A i \in 1..Len(proxies) : proxies'[i] = proxies[i]
          /\ proxies'[Len(proxies) + 1] = Len(proxies) + 1
      <3>1. PICK e \in Lookups : e = Head(pending_lookups)
        BY <2>1
      <3>2. proxies' = Append(proxies, e)
        BY <1>2, <3>1 DEF Lookup!OnProxyLookupComplete
      <3>3. /\ proxies' \in Seq(Lookups) /\ Len(proxies') = Len(proxies) + 1
            /\ \A i \in 1..Len(proxies) : proxies'[i] = proxies[i]
            /\ proxies'[Len(proxies) + 1] = e
        BY <3>2, AppendFacts
      <3>4. e = Len(proxies) + 1
        BY <2>1, <3>1
      <3> HIDE DEF LookupOrder
      <3> QED BY <3>3, <3>4
    <2>4. \A i \in 1..Len(proxies') : proxies'[i] = i
      BY <2>3
    <2>5. \A i \in 1..Len(pending_lookups') : pending_lookups'[i] = Len(proxies') + i
      BY <2>2, <2>3
    <2>6. receiver' = 0 /\ UNCHANGED asked
      BY <1>2 DEF Lookup!OnProxyLookupComplete
    <2>7. LookupOrder'
      <3>1. Lookup!TypeOK' /\ asked' \in Nat
        BY <2>2, <2>3, <2>6
      <3>2. Len(proxies') + Len(pending_lookups') = asked'
        <4>1. /\ Len(proxies) \in Nat /\ Len(pending_lookups) \in Nat
              /\ Len(proxies) + Len(pending_lookups) = asked
          OBVIOUS
        <4> HIDE DEF LookupOrder
        <4>2. /\ Len(proxies') = Len(proxies) + 1
              /\ Len(pending_lookups') = Len(pending_lookups) - 1
          BY <2>2, <2>3
        <4> QED BY <2>6, <4>1, <4>2
      <3> QED BY <2>4, <2>5, <3>1, <3>2
    <2>8. Lookup!LookupIsForTheFront'
      BY <1>2, <2>6 DEF Lookup!OnProxyLookupComplete, Lookup!LookupIsForTheFront
    <2> QED BY <2>7, <2>8 DEF LookupInvariant
  <1>3. CASE Lookup!StartNext
    <2>1. pending_lookups # <<>> => Head(pending_lookups) \in Lookups
      OBVIOUS
    <2>2. /\ receiver' = IF pending_lookups = <<>> THEN receiver ELSE Head(pending_lookups)
          /\ UNCHANGED <<asked, pending_lookups, proxies>>
      BY <1>3 DEF Lookup!StartNext
    <2> QED BY <2>1, <2>2 DEF LookupInvariant, Lookup!LookupIsForTheFront
  <1> QED BY <1>1, <1>2, <1>3 DEF Lookup!Next, Lookup!Complete

LEMMA LookupStutter == LookupInvariant /\ Lookup!NoStep => LookupInvariant'
  BY DEF LookupInvariant, LookupOrder, Lookup!TypeOK, Lookup!LookupIsForTheFront, Lookup!NoLookup,
         Lookup!NoStep, Lookup!lookupVars

-----------------------------------------------------------------------------
(* Net logs.  As long as no log has lost its exporter before its start was *)
(* answered, at most one thing is outstanding for the current log: its     *)
(* file, or the one call of Start, and the promise is still there.         *)

NetLogTypes ==
    /\ Logging!TypeOK
    /\ logs \in Nat /\ opening \in Seq(Logs)
    /\ {overtaken, moved_from, promise_moved, service_lost} \subseteq BOOLEAN
    /\ net_log_exporter \in {0, logs} /\ pending_start_promise = logs
    /\ \A s \in Logs : s > logs => start_result[s] = "none"
NetLogFile ==
    ~overtaken => \/ opening = <<>>
                  \/ /\ net_log_exporter # 0 /\ opening = <<net_log_exporter>>
                     /\ ~promise_moved /\ starting[net_log_exporter] = 0
NetLogStart ==
    ~overtaken => \A s \in Logs : starting[s] > 0 =>
        s = net_log_exporter /\ starting[s] = 1 /\ opening = <<>> /\ ~promise_moved
NetLogInvariant == NetLogTypes /\ NetLogFile /\ NetLogStart /\ Logging!LogsAreTheirOwn

LEMMA NetLogInit == Logging!Init => NetLogInvariant
  <1> SUFFICES ASSUME Logging!Init PROVE NetLogInvariant
    OBVIOUS
  <1> USE DEF Logging!Init, Logging!NoLog
  <1>1. NetLogTypes
    BY EmptyFacts DEF NetLogTypes, Logging!TypeOK
  <1> QED BY <1>1 DEF NetLogInvariant, NetLogFile, NetLogStart, Logging!LogsAreTheirOwn

\* Settling the promise of the last log keeps the types of the results.
LEMMA SettleStartTypes ==
  ASSUME NetLogTypes, NEW result \in {"resolved", "rejected"}, Logging!SettleStart(result)
  PROVE  /\ start_result' \in [Logs -> {"none", "pending", "resolved", "rejected"}]
         /\ moved_from' \in BOOLEAN
         /\ \A s \in Logs : s > logs => start_result'[s] = "none"
         /\ ~promise_moved => UNCHANGED moved_from
  <1> USE DEF NetLogTypes, Logging!TypeOK, Logging!SettleStart
  <1>1. CASE promise_moved
    BY <1>1
  <1>2. CASE ~promise_moved
    BY <1>2
  <1> QED BY <1>1, <1>2

LEMMA NetLogStep == NetLogInvariant /\ Logging!Next => NetLogInvariant'
  <1> SUFFICES ASSUME NetLogInvariant, Logging!Next PROVE NetLogInvariant'
    OBVIOUS
  <1>0. NetLogTypes /\ NetLogFile /\ NetLogStart /\ Logging!LogsAreTheirOwn
    BY DEF NetLogInvariant
  <1>z. 0 \notin Logs /\ Logs \subseteq Nat
    BY ServicesAssumption
  <1> USE DEF Logging!NoLog
  <1>1. CASE Logging!StartLogging
    <2> USE <1>1 DEF Logging!StartLogging
    <2>1. /\ logs' \in Logs /\ logs' \in Nat /\ logs' = logs + 1 /\ net_log_exporter' = logs'
          /\ pending_start_promise' = logs' /\ net_log_exporter = 0
      BY <1>0, <1>z DEF NetLogTypes, Logging!TypeOK
    <2>2. NetLogTypes'
      <3>1. opening' \in Seq(Logs)
        BY <1>0, <2>1, AppendFacts DEF NetLogTypes, Logging!TypeOK
      <3>2. /\ start_result' \in [Logs -> {"none", "pending", "resolved", "rejected"}]
            /\ \A s \in Logs : s > logs' => start_result'[s] = "none"
        BY <1>0, <1>z, <2>1 DEF NetLogTypes, Logging!TypeOK
      <3>3. Logging!TypeOK'
        BY <1>0, <2>1, <3>2 DEF NetLogTypes, Logging!TypeOK
      <3>4. {overtaken', moved_from', promise_moved', service_lost'} \subseteq BOOLEAN
        BY <1>0 DEF NetLogTypes
      <3> QED BY <2>1, <3>1, <3>2, <3>3, <3>4 DEF NetLogTypes
    <2>3. ~overtaken => opening = <<>> /\ \A s \in Logs : starting[s] = 0
      BY <1>0, <1>z, <2>1 DEF NetLogFile, NetLogStart, NetLogTypes, Logging!TypeOK
    <2>4. opening = <<>> => opening' = <<net_log_exporter'>>
      BY SingleFacts
    <2>5. NetLogFile' /\ NetLogStart'
      <3>1. CASE overtaken
        BY <3>1 DEF NetLogFile, NetLogStart
      <3>2. CASE ~overtaken
        <4>1. net_log_exporter' # 0 /\ starting[net_log_exporter'] = 0 /\ ~promise_moved'
          BY <1>z, <2>1, <2>3, <3>2
        <4>2. NetLogStart'
          BY <2>3, <3>2 DEF NetLogStart
        <4> QED BY <2>3, <2>4, <3>2, <4>1, <4>2 DEF NetLogFile
      <3> QED BY <3>1, <3>2
    <2>6. Logging!LogsAreTheirOwn'
      BY <1>0 DEF Logging!LogsAreTheirOwn
    <2> QED BY <2>2, <2>5, <2>6 DEF NetLogInvariant
  <1>2. CASE Logging!StopLogging
    <2> USE <1>2 DEF Logging!StopLogging
    <2>1. net_log_exporter \in Logs /\ net_log_exporter' = 0
      BY <1>0 DEF NetLogTypes, Logging!TypeOK
    <2>2. NetLogTypes'
      BY <1>0, <2>1 DEF NetLogTypes, Logging!TypeOK, Logging!IsBeingStarted
    <2>3. ~overtaken' => ~overtaken /\ ~Logging!IsBeingStarted(net_log_exporter)
      BY <1>0 DEF NetLogTypes, Logging!IsBeingStarted
    <2>4. ~overtaken' => opening = <<>>
      BY <1>0, <2>1, <2>3 DEF NetLogFile, Logging!IsBeingStarted
    <2>5. ~overtaken' => \A s \in Logs : ~(starting[s] > 0)
      BY <1>0, <2>1, <2>3, <1>z DEF NetLogStart, Logging!IsBeingStarted
    <2>6. Logging!LogsAreTheirOwn'
      BY <1>0, <2>3 DEF Logging!LogsAreTheirOwn
    <2> QED BY <2>2, <2>4, <2>5, <2>6 DEF NetLogInvariant, NetLogFile, NetLogStart
  <1>3. CASE Logging!FileIsTooLate
    <2> USE <1>3 DEF Logging!FileIsTooLate
    <2>1. overtaken
      BY <1>0 DEF NetLogFile
    <2>2. NetLogTypes'
      BY <1>0, TailFacts DEF NetLogTypes, Logging!TypeOK
    <2>3. Logging!LogsAreTheirOwn'
      BY <1>0 DEF Logging!LogsAreTheirOwn
    <2> QED BY <2>1, <2>2, <2>3 DEF NetLogInvariant, NetLogFile, NetLogStart
  <1>4. CASE Logging!FileIsInvalid
    <2> USE <1>4 DEF Logging!FileIsInvalid
    <2>1. net_log_exporter \in Logs /\ net_log_exporter' = 0 /\ opening' \in Seq(Logs)
      BY <1>0, TailFacts DEF NetLogTypes, Logging!TypeOK
    <2>2. NetLogTypes'
      BY <1>0, <2>1, SettleStartTypes DEF NetLogTypes, Logging!TypeOK
    <2>3. ~overtaken => opening = <<net_log_exporter>> /\ ~promise_moved
      BY <1>0 DEF NetLogFile
    <2>4. ~overtaken => opening' = <<>>
      BY <2>3, SingleFacts
    <2>5. ~overtaken => \A s \in Logs : ~(starting'[s] > 0)
      BY <1>0, <2>1, <2>3, <1>z DEF NetLogStart, NetLogTypes, Logging!TypeOK
    <2>6. Logging!LogsAreTheirOwn'
      BY <1>0, <2>3, SettleStartTypes DEF Logging!LogsAreTheirOwn
    <2> QED BY <2>2, <2>4, <2>5, <2>6 DEF NetLogInvariant, NetLogFile, NetLogStart
  <1>5. CASE Logging!StartNetLogAfterCreateFile
    <2> USE <1>5 DEF Logging!StartNetLogAfterCreateFile
    <2>1. /\ net_log_exporter \in Logs /\ opening' \in Seq(Logs) /\ Head(opening) \in Logs
      BY <1>0, TailFacts DEF NetLogTypes, Logging!TypeOK
    <2>2. NetLogTypes'
      BY <1>0, <2>1 DEF NetLogTypes, Logging!TypeOK
    <2>3. ~overtaken => /\ opening = <<net_log_exporter>> /\ ~promise_moved
                        /\ starting[net_log_exporter] = 0
      BY <1>0 DEF NetLogFile
    <2>4. ~overtaken => opening' = <<>> /\ Head(opening) = net_log_exporter
      BY <2>3, SingleFacts
    <2>5. ~overtaken => \A s \in Logs : starting'[s] > 0 =>
                            s = net_log_exporter /\ starting'[s] = 1
      BY <1>0, <2>1, <2>3, <1>z DEF NetLogStart, NetLogTypes, Logging!TypeOK
    <2>6. ~overtaken => \A s \in Logs : log_files'[s] \subseteq {s}
      BY <1>0, <2>1, <2>4 DEF Logging!LogsAreTheirOwn, NetLogTypes, Logging!TypeOK
    <2>7. Logging!LogsAreTheirOwn'
      BY <1>0, <2>6 DEF Logging!LogsAreTheirOwn
    <2> QED BY <2>2, <2>3, <2>4, <2>5, <2>7 DEF NetLogInvariant, NetLogFile, NetLogStart
  <1>6. ASSUME NEW s \in Logs, NEW result \in {"resolved", "rejected"},
               Logging!NetLogStarted(s, result)
        PROVE  NetLogInvariant'
    <2> USE <1>6 DEF Logging!NetLogStarted
    <2>2. NetLogTypes'
      BY <1>0, SettleStartTypes DEF NetLogTypes, Logging!TypeOK
    <2>3. ~overtaken => /\ s = net_log_exporter /\ starting[s] = 1 /\ opening = <<>>
                        /\ ~promise_moved
      BY <1>0 DEF NetLogStart
    <2>4. ~overtaken => \A t \in Logs : ~(starting'[t] > 0)
      BY <1>0, <2>3 DEF NetLogStart, NetLogTypes, Logging!TypeOK
    <2>5. Logging!LogsAreTheirOwn'
      BY <1>0, <2>3, SettleStartTypes DEF Logging!LogsAreTheirOwn
    <2> QED BY <2>2, <2>3, <2>4, <2>5 DEF NetLogInvariant, NetLogFile, NetLogStart
  <1>7. ASSUME NEW s \in Logs, NEW result \in {"resolved", "rejected"},
               Logging!Stopped(s, result)
        PROVE  NetLogInvariant'
    <2> USE <1>7 DEF Logging!Stopped
    <2>1. NetLogTypes'
      BY <1>0 DEF NetLogTypes, Logging!TypeOK
    <2>2. NetLogFile'
      BY <1>0 DEF NetLogFile, NetLogTypes, Logging!TypeOK
    <2>3. NetLogStart'
      BY <1>0 DEF NetLogStart, NetLogTypes, Logging!TypeOK
    <2>4. Logging!LogsAreTheirOwn'
      BY <1>0 DEF Logging!LogsAreTheirOwn
    <2> QED BY <2>1, <2>2, <2>3, <2>4 DEF NetLogInvariant
  <1>8. ASSUME NEW s \in Logs, Logging!OnConnectionError(s)
        PROVE  NetLogInvariant'
    <2> USE <1>8 DEF Logging!OnConnectionError
    <2>1. NetLogTypes'
      <3>1. /\ start_result' \in [Logs -> {"none", "pending", "resolved", "rejected"}]
            /\ moved_from' \in BOOLEAN /\ overtaken' \in BOOLEAN /\ service_lost' \in BOOLEAN
            /\ \A t \in Logs : t > logs => start_result'[t] = "none"
        BY <1>0, SettleStartTypes DEF NetLogTypes, Logging!TypeOK, Logging!IsBeingStarted
      <3>2. /\ starting' \in [Logs -> Nat] /\ stopping' \subseteq Logs
            /\ stop_result' \in [Logs -> {"none", "pending", "resolved", "rejected", "dropped"}]
        BY <1>0 DEF NetLogTypes, Logging!TypeOK
      <3> QED BY <1>0, <3>1, <3>2 DEF NetLogTypes, Logging!TypeOK
    <2>2. ~overtaken' => ~overtaken /\ ~Logging!IsBeingStarted(net_log_exporter)
      BY <1>0 DEF NetLogTypes, Logging!IsBeingStarted
    <2>3. ~overtaken' => opening = <<>>
      BY <1>0, <2>2 DEF NetLogFile, Logging!IsBeingStarted
    <2>4. ~overtaken' => \A t \in Logs : ~(starting'[t] > 0)
      BY <1>0, <2>2 DEF NetLogStart, NetLogTypes, Logging!TypeOK
    <2>5. Logging!LogsAreTheirOwn'
      BY <1>0, <2>2 DEF Logging!LogsAreTheirOwn
    <2> QED BY <2>1, <2>3, <2>4, <2>5 DEF NetLogInvariant, NetLogFile, NetLogStart
  <1> QED
    BY <1>1, <1>2, <1>3, <1>4, <1>5, <1>6, <1>7, <1>8
    DEF Logging!Next, Logging!FileOpened, Logging!ServiceReplies

LEMMA NetLogStutter == NetLogInvariant /\ Logging!NoStep => NetLogInvariant'
  BY DEF NetLogInvariant, NetLogTypes, NetLogFile, NetLogStart, Logging!LogsAreTheirOwn,
         Logging!TypeOK, Logging!NoLog, Logging!NoStep, Logging!netLogVars

-----------------------------------------------------------------------------
(* The debugger.  Commands are numbered as they are sent.  Every loop that *)
(* is on the stack has settled all commands behind it, whatever the loops  *)
(* above it have done; so the loop that ends, and empties the map, leaves  *)
(* no command unsettled.                                                   *)

DebuggerFrames == [at : Commands \cup {0}, called : BOOLEAN]
Unsettled(c) == c <= previous_request_id /\ command_result[c] = "none"
\* The loop of frame f has still to reject the command.
WillReject(f, c) == c > f.at \/ (c = f.at /\ f.called)

DebuggerTypes ==
    /\ agent_host \in 0..MaxSessions /\ sessions \in 0..MaxSessions /\ agent_host <= sessions
    /\ previous_request_id \in Commands \cup {0}
    /\ pending_commands \subseteq Commands
    /\ command_session \in [Commands -> 0..MaxSessions]
    /\ command_result \in [Commands -> {"none", "reply", "closed", "no_target"}]
    /\ \A c \in Commands : c > previous_request_id => /\ command_result[c] = "none"
                                                      /\ c \notin pending_commands
CommandSessions ==
    \A c \in Commands :
        /\ command_session[c] <= sessions
        /\ c \in pending_commands \/ command_result[c] = "closed" => command_session[c] # 0
        /\ clearing # <<>> /\ c \in pending_commands /\ command_session[c] = agent_host
              => c \in sent_in_clearing
UnsettledAreKept ==
    \A c \in Commands : Unsettled(c) => /\ c \in pending_commands
                                        /\ command_session[c] = agent_host \/ clearing # <<>>
LoopsSettleAll ==
    \A i \in 1..Len(clearing) :
        /\ clearing[i].at <= previous_request_id
        /\ \A c \in Commands : Unsettled(c) => WillReject(clearing[i], c)
DebuggerInvariant ==
    /\ undefined \in BOOLEAN
    /\ DebuggerTypes /\ clearing \in Seq(DebuggerFrames)
    /\ CommandSessions /\ Debugging!ClosedMeansClosed
    /\ ~undefined => UnsettledAreKept /\ LoopsSettleAll

LEMMA DebuggerInit == Debugging!Init => DebuggerInvariant
  <1> SUFFICES ASSUME Debugging!Init PROVE DebuggerInvariant
    OBVIOUS
  <1> USE ServicesAssumption, EmptyFacts DEF Debugging!Init, Debugging!NoSession
  <1>1. DebuggerTypes /\ clearing \in Seq(DebuggerFrames)
    BY DEF DebuggerTypes
  <1>2. CommandSessions /\ Debugging!ClosedMeansClosed
    BY DEF CommandSessions, Debugging!ClosedMeansClosed
  <1>3. UnsettledAreKept /\ LoopsSettleAll
    BY DEF UnsettledAreKept, LoopsSettleAll, Unsettled
  <1> QED BY <1>1, <1>2, <1>3 DEF DebuggerInvariant

LEMMA FrameFacts ==
  ASSUME NEW f \in DebuggerFrames
  PROVE  f.at \in Nat /\ f.at \in Commands \cup {0} /\ f.called \in BOOLEAN
  BY ServicesAssumption DEF DebuggerFrames

LEMMA NewFrameFacts ==
  ASSUME NEW c \in Commands \cup {0}, NEW b \in BOOLEAN
  PROVE  /\ Debugging!Frame(c, b) \in DebuggerFrames
         /\ Debugging!Frame(c, b).at = c /\ Debugging!Frame(c, b).called = b
  BY DEF DebuggerFrames, Debugging!Frame

\* What becomes of the innermost loop of a stack, and of the others.
LEMMA TopFacts ==
  ASSUME NEW S, NEW s \in Seq(S), s # <<>>, NEW f \in S
  PROVE  /\ [s EXCEPT ![1] = f] \in Seq(S) /\ Len([s EXCEPT ![1] = f]) = Len(s)
         /\ 1 \in 1..Len(s) /\ [s EXCEPT ![1] = f][1] = f /\ s[1] \in S
         /\ \A i \in 1..Len(s) : i # 1 => [s EXCEPT ![1] = f][i] = s[i]
         /\ [s EXCEPT ![1] = f] # <<>>
  OBVIOUS

LEMMA PushFacts ==
  ASSUME NEW S, NEW s \in Seq(S), NEW f \in S
  PROVE  /\ <<f>> \o s \in Seq(S) /\ <<f>> \o s # <<>>
         /\ Len(<<f>> \o s) = Len(s) + 1 /\ (<<f>> \o s)[1] = f
         /\ \A i \in 1..Len(<<f>> \o s) :
               i # 1 => i - 1 \in 1..Len(s) /\ (<<f>> \o s)[i] = s[i - 1]
  OBVIOUS

LEMMA DebuggerStep == DebuggerInvariant /\ Debugging!Next => DebuggerInvariant'
  <1> SUFFICES ASSUME DebuggerInvariant, Debugging!Next PROVE DebuggerInvariant'
    OBVIOUS
  <1>n. Commands \subseteq Nat /\ 0 \notin Commands /\ MaxSessions \in Nat
    BY ServicesAssumption
  <1>u. ~undefined
    BY DEF Debugging!Next, Debugging!Attach, Debugging!SendCommand, Debugging!AgentHostClosed,
           Debugging!Clear, Debugging!ClearCall, Debugging!ClearReject, Debugging!ClearEnd,
           Debugging!Reply, Debugging!DispatchProtocolMessage, Debugging!Running
  <1>0. /\ DebuggerTypes /\ clearing \in Seq(DebuggerFrames) /\ CommandSessions /\ Debugging!ClosedMeansClosed
        /\ UnsettledAreKept /\ LoopsSettleAll
    BY <1>u DEF DebuggerInvariant
  <1>t. /\ agent_host \in Nat /\ sessions \in Nat /\ agent_host <= sessions
        /\ previous_request_id \in Nat
        /\ \A c \in Commands : command_session[c] \in Nat
    BY <1>0, <1>n DEF DebuggerTypes
  <1> USE DEF Debugging!NoSession
  <1>1. CASE Debugging!Attach
    <2> USE <1>1 DEF Debugging!Attach
    <2>1. DebuggerTypes'
      BY <1>0, <1>n DEF DebuggerTypes
    <2>2. CommandSessions' /\ Debugging!ClosedMeansClosed'
      BY <1>0, <1>t DEF CommandSessions, Debugging!ClosedMeansClosed
    <2>3. UnsettledAreKept'
      BY <1>0, <1>t DEF CommandSessions, UnsettledAreKept, Unsettled
    <2>4. LoopsSettleAll'
      BY <1>0 DEF LoopsSettleAll, Unsettled
    <2> QED BY <1>0, <2>1, <2>2, <2>3, <2>4, <1>u DEF DebuggerInvariant
  <1>2. CASE Debugging!SendCommand
    <2> DEFINE n == previous_request_id + 1
    <2> USE <1>2 DEF Debugging!SendCommand, Debugging!Settle
    <2>0. /\ n \in Commands /\ n \in Nat /\ previous_request_id' = n
          /\ previous_request_id \in Nat
          /\ command_session' = [command_session EXCEPT ![n] = agent_host]
          /\ UNCHANGED <<agent_host, sessions, clearing, undefined>>
      BY <1>t
    <2>1. /\ command_result[n] = "none" /\ n \notin pending_commands
          /\ command_result' \in [Commands -> {"none", "reply", "closed", "no_target"}]
          /\ \A c \in Commands \ {n} : command_result'[c] = command_result[c]
          /\ command_result'[n] = IF agent_host = 0 THEN "no_target" ELSE "none"
          /\ pending_commands' = IF agent_host = 0 THEN pending_commands
                                 ELSE pending_commands \cup {n}
      BY <1>0, <2>0 DEF DebuggerTypes
    <2>2. /\ command_session'[n] = agent_host
          /\ \A c \in Commands \ {n} : command_session'[c] = command_session[c]
          /\ command_session' \in [Commands -> 0..MaxSessions]
      BY <1>0, <2>0 DEF DebuggerTypes
    <2>3. clearing # <<>> => n \in sent_in_clearing'
      BY <2>0
    <2>4. sent_in_clearing \subseteq sent_in_clearing'
      OBVIOUS
    <2>5. \A c \in Commands : Unsettled(c)' => Unsettled(c) \/ (c = n /\ agent_host # 0)
      BY <1>n, <2>0, <2>1 DEF Unsettled
    <2> HIDE DEF Debugging!SendCommand, n
    <2>6. DebuggerTypes'
      <3>1. \A c \in Commands : c > n => c > previous_request_id /\ c # n
        BY <1>n, <2>0 DEF n
      <3> QED BY <1>0, <1>n, <2>0, <2>1, <2>2, <3>1 DEF DebuggerTypes
    <2>7. CommandSessions' /\ Debugging!ClosedMeansClosed'
      BY <1>0, <1>t, <2>0, <2>1, <2>2, <2>3, <2>4
      DEF CommandSessions, Debugging!ClosedMeansClosed
    <2>8. UnsettledAreKept'
      BY <1>0, <2>0, <2>1, <2>2, <2>5 DEF UnsettledAreKept
    <2>9. LoopsSettleAll'
      <3> SUFFICES ASSUME NEW i \in 1..Len(clearing)
                   PROVE  /\ clearing[i].at <= n
                          /\ \A c \in Commands : Unsettled(c)' => WillReject(clearing[i], c)
        BY <2>0 DEF LoopsSettleAll
      <3>1. clearing[i].at <= previous_request_id /\ clearing[i].at \in Nat
        BY <1>0, FrameFacts DEF LoopsSettleAll
      <3>2. n > clearing[i].at
        BY <2>0, <3>1 DEF n
      <3>3. WillReject(clearing[i], n)
        BY <3>2 DEF WillReject
      <3>4. clearing[i].at <= n
        BY <2>0, <3>1, <3>2
      <3> QED BY <1>0, <2>5, <3>3, <3>4 DEF LoopsSettleAll
    <2> QED BY <1>0, <2>0, <2>6, <2>7, <2>8, <2>9, <1>u DEF DebuggerInvariant
  <1>3. CASE Debugging!AgentHostClosed
    <2> DEFINE f == Debugging!Frame(0, FALSE)
    <2> USE <1>3 DEF Debugging!AgentHostClosed
    <2>1. f \in DebuggerFrames /\ f.at = 0
      BY NewFrameFacts
    <2> HIDE DEF f
    <2>2. /\ clearing' \in Seq(DebuggerFrames) /\ clearing' # <<>>
          /\ clearing'[1] = f
          /\ \A i \in 1..Len(clearing') :
                i # 1 => i - 1 \in 1..Len(clearing) /\ clearing'[i] = clearing[i - 1]
      <3>1. clearing' = <<f>> \o clearing
        BY DEF f
      <3>2. /\ <<f>> \o clearing \in Seq(DebuggerFrames) /\ <<f>> \o clearing # <<>>
            /\ (<<f>> \o clearing)[1] = f
            /\ \A i \in 1..Len(<<f>> \o clearing) :
                  i # 1 => i - 1 \in 1..Len(clearing) /\ (<<f>> \o clearing)[i] = clearing[i - 1]
        BY <1>0, <2>1, PushFacts
      <3> QED BY <3>1, <3>2, Zenon
    <2>3. DebuggerTypes'
      BY <1>0, <1>n DEF DebuggerTypes
    <2>4. CommandSessions' /\ Debugging!ClosedMeansClosed'
      BY <1>0, <1>t DEF CommandSessions, Debugging!ClosedMeansClosed
    <2>5. UnsettledAreKept'
      BY <1>0, <2>2 DEF UnsettledAreKept, Unsettled
    <2>6. LoopsSettleAll'
      <3> SUFFICES ASSUME NEW i \in 1..Len(clearing')
                   PROVE  /\ clearing'[i].at <= previous_request_id
                          /\ \A c \in Commands : Unsettled(c) => WillReject(clearing'[i], c)
        BY DEF LoopsSettleAll, Unsettled, WillReject
      <3>1. CASE i = 1
        <4>1. f.at <= previous_request_id
          BY <1>t, <2>1
        <4>2. \A c \in Commands : WillReject(f, c)
          BY <1>n, <2>1 DEF WillReject
        <4> QED BY <2>2, <3>1, <4>1, <4>2
      <3>2. CASE i # 1
        <4>1. i - 1 \in 1..Len(clearing) /\ clearing'[i] = clearing[i - 1]
          BY <2>2, <3>2
        <4> QED BY <1>0, <4>1 DEF LoopsSettleAll
      <3> QED BY <3>1, <3>2
    <2> QED BY <2>2, <2>3, <2>4, <2>5, <2>6, <1>u DEF DebuggerInvariant
  <1>4. CASE Debugging!ClearCall
    <2> USE DEF Debugging!ClearCall
    <2>0. PICK d \in Debugging!Ahead :
             /\ \A c \in Debugging!Ahead : d <= c
             /\ clearing' = [clearing EXCEPT ![1] = Debugging!Frame(d, TRUE)]
      BY <1>4
    <2>1. /\ clearing # <<>> /\ ~clearing[1].called
          /\ UNCHANGED <<agent_host, sessions, previous_request_id, pending_commands,
                         command_session, command_result, sent_in_clearing, undefined>>
      BY <1>4
    <2> HIDE DEF Debugging!ClearCall
    <2>2. d \in Commands /\ d \in pending_commands /\ d <= previous_request_id
      BY <1>0, <1>n, <1>t DEF DebuggerTypes, Debugging!Ahead
    <2> DEFINE f == Debugging!Frame(d, TRUE)
    <2>f. f \in DebuggerFrames /\ f.at = d /\ f.called = TRUE
      BY <2>2, NewFrameFacts
    <2>g. clearing' = [clearing EXCEPT ![1] = f]
      BY <2>0
    <2> HIDE DEF f
    <2>3. /\ clearing' \in Seq(DebuggerFrames) /\ Len(clearing') = Len(clearing)
          /\ 1 \in 1..Len(clearing) /\ clearing'[1] = f /\ clearing' # <<>>
          /\ \A i \in 1..Len(clearing) : i # 1 => clearing'[i] = clearing[i]
      BY <1>0, <2>1, <2>f, <2>g, TopFacts
    <2>4. DebuggerTypes'
      BY <1>0, <2>1 DEF DebuggerTypes
    <2>5. CommandSessions' /\ Debugging!ClosedMeansClosed'
      BY <1>0, <1>t, <2>1 DEF CommandSessions, Debugging!ClosedMeansClosed
    <2>6. UnsettledAreKept'
      BY <1>0, <2>1, <2>3 DEF UnsettledAreKept, Unsettled
    <2>7. LoopsSettleAll'
      <3> SUFFICES ASSUME NEW i \in 1..Len(clearing)
                   PROVE  /\ clearing'[i].at <= previous_request_id
                          /\ \A c \in Commands : Unsettled(c) => WillReject(clearing'[i], c)
        BY <2>1, <2>3 DEF LoopsSettleAll, Unsettled, WillReject
      <3>1. CASE i = 1
        <4>1. \A c \in Commands : Unsettled(c) => c \in Debugging!Ahead
          BY <1>0, <2>1, <2>3 DEF LoopsSettleAll, UnsettledAreKept, WillReject, Debugging!Ahead
        <4>2. \A c \in Commands : Unsettled(c) => c > d \/ c = d
          BY <1>n, <2>0, <2>2, <4>1
        <4>3. \A c \in Commands : Unsettled(c) => WillReject(f, c)
          BY <2>f, <4>2 DEF WillReject
        <4> QED BY <2>2, <2>3, <2>f, <3>1, <4>3
      <3>2. CASE i # 1
        <4>1. clearing'[i] = clearing[i]
          BY <2>3, <3>2
        <4> QED BY <1>0, <4>1 DEF LoopsSettleAll
      <3> QED BY <3>1, <3>2
    <2> QED BY <2>1, <2>3, <2>4, <2>5, <2>6, <2>7, <1>u DEF DebuggerInvariant
  <1>5. CASE Debugging!ClearReject
    <2> DEFINE d == clearing[1].at
    <2> USE <1>5 DEF Debugging!ClearReject
    <2>0. /\ clearing # <<>> /\ clearing[1].called
          /\ UNCHANGED <<agent_host, sessions, previous_request_id, pending_commands,
                         command_session, sent_in_clearing>>
      OBVIOUS
    <2>1. CASE d \notin pending_commands
      <3>1. undefined' = TRUE /\ UNCHANGED <<command_result, clearing>>
        BY <2>1
      <3>2. DebuggerTypes' /\ CommandSessions' /\ Debugging!ClosedMeansClosed'
        BY <1>0, <2>0, <3>1
        DEF DebuggerTypes, CommandSessions, Debugging!ClosedMeansClosed
      <3> QED BY <1>0, <3>1, <3>2 DEF DebuggerInvariant
    <2>2. CASE d \in pending_commands
      <3>1. /\ clearing' = [clearing EXCEPT ![1] = Debugging!Frame(d, FALSE)]
            /\ UNCHANGED undefined
        BY <2>2
      <3>2. /\ d \in Commands
            /\ command_result' \in [Commands -> {"none", "reply", "closed", "no_target"}]
            /\ command_result'[d] # "none"
            /\ \A c \in Commands : command_result'[c] # command_result[c] =>
                  c = d /\ command_result[c] = "none" /\ command_result'[c] = "closed"
        BY <1>0, <2>2 DEF Debugging!Settle, DebuggerTypes
      <3> HIDE DEF Debugging!ClearReject, d
      <3> DEFINE f == Debugging!Frame(d, FALSE)
      <3>f. f \in DebuggerFrames /\ f.at = d
        BY <3>2, NewFrameFacts
      <3>g. clearing' = [clearing EXCEPT ![1] = f]
        BY <3>1
      <3> HIDE DEF f
      <3>3. /\ clearing' \in Seq(DebuggerFrames) /\ Len(clearing') = Len(clearing)
            /\ 1 \in 1..Len(clearing) /\ clearing'[1] = f /\ clearing' # <<>>
            /\ \A i \in 1..Len(clearing) : i # 1 => clearing'[i] = clearing[i]
        BY <1>0, <2>0, <3>f, <3>g, TopFacts
      <3>4. \A c \in Commands : Unsettled(c)' => Unsettled(c) /\ c # d
        BY <2>0, <3>2 DEF Unsettled
      <3>5. DebuggerTypes'
        <4>1. d <= previous_request_id
          BY <1>0, <1>n, <1>t, <2>2, <3>2 DEF DebuggerTypes
        <4>2. \A c \in Commands : c > previous_request_id => command_result'[c] = "none"
          BY <1>0, <1>n, <1>t, <3>2, <4>1 DEF DebuggerTypes
        <4> QED BY <1>0, <2>0, <3>2, <4>2 DEF DebuggerTypes
      <3>6. CommandSessions'
        BY <1>0, <2>0, <2>2, <3>2 DEF CommandSessions
      <3>7. Debugging!ClosedMeansClosed'
        BY <1>0, <2>0, <2>2, <3>2 DEF CommandSessions, Debugging!ClosedMeansClosed
      <3>8. UnsettledAreKept'
        BY <1>0, <2>0, <3>3, <3>4 DEF UnsettledAreKept
      <3>9. LoopsSettleAll'
        <4> SUFFICES ASSUME NEW i \in 1..Len(clearing)
                     PROVE  /\ clearing'[i].at <= previous_request_id
                            /\ \A c \in Commands : Unsettled(c)' => WillReject(clearing'[i], c)
          BY <2>0, <3>3 DEF LoopsSettleAll, WillReject
        <4>1. CASE i = 1
          <5>1. d <= previous_request_id /\ \A c \in Commands : Unsettled(c) /\ c # d => c > d
            BY <1>0, <3>3 DEF LoopsSettleAll, WillReject, d
          <5>2. \A c \in Commands : Unsettled(c)' => WillReject(f, c)
            BY <3>4, <3>f, <5>1 DEF WillReject
          <5> QED BY <3>3, <3>f, <4>1, <5>1, <5>2
        <4>2. CASE i # 1
          <5>1. clearing'[i] = clearing[i]
            BY <3>3, <4>2
          <5> QED BY <1>0, <3>4, <5>1 DEF LoopsSettleAll
        <4> QED BY <4>1, <4>2
      <3> QED BY <3>1, <3>3, <3>5, <3>6, <3>7, <3>8, <3>9, <1>u DEF DebuggerInvariant
    <2> QED BY <2>1, <2>2
  <1>6. CASE Debugging!ClearEnd
    <2> USE <1>6 DEF Debugging!ClearEnd
    <2>1. \A c \in Commands : ~Unsettled(c)
      <3>1. 1 \in 1..Len(clearing)
        BY <1>0
      <3> QED BY <1>0, <3>1 DEF LoopsSettleAll, UnsettledAreKept, WillReject, Debugging!Ahead
    <2>2. \A c \in Commands : ~Unsettled(c)'
      BY <2>1 DEF Unsettled
    <2>3. /\ clearing' \in Seq(DebuggerFrames) /\ Len(clearing') = Len(clearing) - 1
          /\ \A i \in 1..Len(clearing') : clearing'[i] = clearing[i + 1]
      BY <1>0, TailFacts
    <2>4. DebuggerTypes'
      BY <1>0 DEF DebuggerTypes
    <2>5. CommandSessions' /\ Debugging!ClosedMeansClosed'
      BY <1>0, <1>t DEF CommandSessions, Debugging!ClosedMeansClosed
    <2>6. UnsettledAreKept'
      BY <2>2 DEF UnsettledAreKept
    <2>7. LoopsSettleAll'
      <3> SUFFICES ASSUME NEW i \in 1..Len(clearing')
                   PROVE  clearing'[i].at <= previous_request_id
        BY <2>2 DEF LoopsSettleAll
      <3>1. i + 1 \in 1..Len(clearing) /\ clearing'[i] = clearing[i + 1]
        BY <1>0, <2>3
      <3> QED BY <1>0, <3>1 DEF LoopsSettleAll
    <2> QED BY <2>3, <2>4, <2>5, <2>6, <2>7, <1>u DEF DebuggerInvariant
  <1>7. ASSUME NEW d \in Commands, Debugging!DispatchProtocolMessage(d)
        PROVE  DebuggerInvariant'
    <2> USE <1>7 DEF Debugging!DispatchProtocolMessage
    <2>1. /\ command_result' \in [Commands -> {"none", "reply", "closed", "no_target"}]
          /\ command_result'[d] # "none"
          /\ \A c \in Commands : command_result'[c] # command_result[c] =>
                c = d /\ command_result[c] = "none" /\ command_result'[c] = "reply"
      BY <1>0 DEF Debugging!Settle, DebuggerTypes
    <2>2. \A c \in Commands : Unsettled(c)' => Unsettled(c) /\ c # d
      BY <2>1 DEF Unsettled
    <2>3. DebuggerTypes'
      <3>2. \A c \in Commands : c > previous_request_id => command_result'[c] = "none"
        BY <1>0, <1>n, <2>1 DEF DebuggerTypes
      <3> QED BY <1>0, <2>1, <3>2 DEF DebuggerTypes
    <2>4. CommandSessions' /\ Debugging!ClosedMeansClosed'
      BY <1>0, <2>1 DEF CommandSessions, Debugging!ClosedMeansClosed
    <2>5. UnsettledAreKept'
      BY <1>0, <2>2 DEF UnsettledAreKept
    <2>6. LoopsSettleAll'
      BY <1>0, <2>2 DEF LoopsSettleAll
    <2> QED BY <1>0, <2>3, <2>4, <2>5, <2>6, <1>u DEF DebuggerInvariant
  <1> QED
    BY <1>1, <1>2, <1>3, <1>4, <1>5, <1>6, <1>7
    DEF Debugging!Next, Debugging!Clear, Debugging!Reply

LEMMA DebuggerStutter == DebuggerInvariant /\ Debugging!NoStep => DebuggerInvariant'
  BY DEF DebuggerInvariant, DebuggerTypes, CommandSessions, UnsettledAreKept, LoopsSettleAll,
         Unsettled, Debugging!ClosedMeansClosed, Debugging!NoStep,
         Debugging!debuggerVars

\* A loop that is on the stack is on its way to every unsettled command.
LEMMA DebuggerSafe == DebuggerInvariant => Debugging!CommandsAreKept
  <1> SUFFICES ASSUME DebuggerInvariant, ~undefined,
                      NEW c \in Commands, Debugging!Status[c] = "pending"
               PROVE  /\ c \in pending_commands
                      /\ \/ command_session[c] = agent_host
                         \/ \E i \in DOMAIN clearing :
                               c > clearing[i].at \/ (c = clearing[i].at /\ clearing[i].called)
    BY DEF Debugging!CommandsAreKept
  <1>1. Unsettled(c)
    BY DEF Debugging!Status, Unsettled
  <1>2. UnsettledAreKept /\ LoopsSettleAll /\ clearing \in Seq(DebuggerFrames)
    BY DEF DebuggerInvariant, DebuggerTypes
  <1>3. CASE clearing # <<>>
    <2>1. 1 \in DOMAIN clearing /\ 1 \in 1..Len(clearing)
      BY <1>2, <1>3
    <2> QED BY <1>1, <1>2, <2>1 DEF UnsettledAreKept, LoopsSettleAll, WillReject
  <1> QED BY <1>1, <1>2, <1>3 DEF UnsettledAreKept

-----------------------------------------------------------------------------
(* Permissions.  While a request is pending its results are what was       *)
(* decided so far, and remaining_results_ counts what was not; a callback  *)
(* that JavaScript may still run is for a permission not yet decided.      *)

PermissionStates == {"granted", "denied"}
Undecided(r) == { i \in 1..permissions[r] : decided[r][i] = "nothing" }

PermissionTypes ==
    /\ made \subseteq Requests /\ pending_requests \subseteq made
    /\ permissions \in [Requests -> 0..MaxPermissions]
    /\ remaining_results \in [Requests -> 0..MaxPermissions]
    /\ results \in [Requests -> Seq(PermissionStates)]
    /\ answers \in [Requests -> Seq(Seq(PermissionStates))]
    /\ decided \in [Requests -> [1..MaxPermissions -> {"nothing"} \cup PermissionStates]]
    /\ callbacks \subseteq made \X (1..MaxPermissions)
    /\ frames_gone \subseteq made /\ cut_short \subseteq made
AskedSized(r) ==
    /\ results[r] # <<>> => Len(results[r]) = permissions[r]
    /\ Len(answers[r]) <= 1
    /\ r \notin made => /\ answers[r] = <<>> /\ results[r] = <<>>
                        /\ \A i \in 1..MaxPermissions : decided[r][i] = "nothing"
AskedMatched(r) ==
    r \in pending_requests =>
        /\ answers[r] = <<>> /\ results[r] # <<>> /\ r \notin cut_short
        /\ \A i \in 1..permissions[r] :
              results[r][i] = IF decided[r][i] = "nothing" THEN "denied" ELSE decided[r][i]
AskedCounted(r) ==
    r \in pending_requests => remaining_results[r] = Cardinality(Undecided(r))
AskedAnswered(r) ==
    answers[r] # <<>> /\ results[r] # <<>> =>
        \A i \in 1..permissions[r] :
            IF r \in cut_short THEN answers[r][1][i] = "granted" => decided[r][i] = "granted"
            ELSE answers[r][1][i] = decided[r][i] /\ decided[r][i] # "nothing"
PermissionCallbacks ==
    \A r \in Requests, i \in 1..MaxPermissions : <<r, i>> \in callbacks =>
        i <= permissions[r] /\ decided[r][i] = "nothing" /\ results[r] # <<>>
AskingAt(r, k) ==
    /\ asking = <<r, k>> /\ results[r] # <<>>
    /\ \A i \in k..permissions[r] : decided[r][i] = "nothing" /\ <<r, i>> \notin callbacks
PermissionAsking ==
    asking # <<>> => \E r \in made : \E k \in 1..permissions[r] : AskingAt(r, k)
AskedInvariant(r) ==
    AskedSized(r) /\ AskedMatched(r) /\ AskedCounted(r) /\ AskedAnswered(r)
PermissionInvariant ==
    /\ PermissionTypes /\ PermissionCallbacks /\ PermissionAsking
    /\ \A r \in Requests : AskedInvariant(r)

LEMMA PermissionInit == Permissions!Init => PermissionInvariant
  <1> SUFFICES ASSUME Permissions!Init PROVE PermissionInvariant
    OBVIOUS
  <1> USE DEF Permissions!Init, Permissions!NotAsking
  <1>1. PermissionTypes
    BY ServicesAssumption, EmptyFacts DEF PermissionTypes, PermissionStates
  <1>2. PermissionCallbacks /\ PermissionAsking
    BY DEF PermissionCallbacks, PermissionAsking
  <1>3. ASSUME NEW r \in Requests PROVE AskedInvariant(r)
    BY EmptyFacts DEF AskedInvariant, AskedSized, AskedMatched, AskedCounted, AskedAnswered
  <1> QED BY <1>1, <1>2, <1>3 DEF PermissionInvariant

\* What a request relies on.
LEMMA AskedKept ==
  ASSUME NEW r \in Requests, AskedInvariant(r), PermissionTypes,
         permissions'[r] = permissions[r], results'[r] = results[r],
         answers'[r] = answers[r], decided'[r] = decided[r],
         remaining_results'[r] = remaining_results[r],
         r \in made' <=> r \in made, r \in pending_requests' <=> r \in pending_requests,
         r \in cut_short' <=> r \in cut_short
  PROVE  AskedInvariant(r)'
  <1>1. Undecided(r)' = Undecided(r)
    BY DEF Undecided
  <1>2. AskedSized(r)' /\ AskedMatched(r)' /\ AskedAnswered(r)'
    BY DEF AskedInvariant, AskedSized, AskedMatched, AskedAnswered
  <1>3. AskedCounted(r)'
    BY <1>1 DEF AskedInvariant, AskedCounted
  <1> QED BY <1>2, <1>3 DEF AskedInvariant

LEMMA UndecidedFacts ==
  ASSUME NEW r \in Requests, PermissionTypes
  PROVE  /\ IsFiniteSet(Undecided(r)) /\ Cardinality(Undecided(r)) \in Nat
         /\ permissions[r] \in Nat /\ permissions[r] <= MaxPermissions
         /\ \A i \in 1..permissions[r] : i \in 1..MaxPermissions
         /\ Undecided(r) \subseteq 1..permissions[r]
  <1>1. permissions[r] \in Nat /\ permissions[r] <= MaxPermissions
    BY ServicesAssumption DEF PermissionTypes
  <1>2. \A i \in 1..permissions[r] : i \in 1..MaxPermissions
    BY <1>1, ServicesAssumption
  <1>3. IsFiniteSet(1..permissions[r])
    BY <1>1, FS_Interval
  <1>4. Undecided(r) \subseteq 1..permissions[r]
    BY DEF Undecided
  <1> QED BY <1>1, <1>2, <1>3, <1>4, FS_Subset, FS_CardinalityType

\* A request without a handler, or for nothing, is answered at once.
LEMMA RequestUnhandledKeeps ==
  ASSUME PermissionInvariant, NEW q \in Requests, NEW n \in 0..MaxPermissions,
         Permissions!RequestUnhandled(q, n)
  PROVE  PermissionInvariant'
  <1> USE DEF Permissions!RequestUnhandled
  <1> DEFINE a == [i \in 1..n |-> "granted"]
  <1>0. /\ PermissionTypes /\ PermissionCallbacks /\ \A r \in Requests : AskedInvariant(r)
        /\ q \notin made /\ asking = <<>> /\ answers[q] = <<>> /\ results[q] = <<>>
    BY DEF PermissionInvariant, AskedInvariant, AskedSized, Permissions!NotAsking
  <1>1. a \in Seq(PermissionStates)
    BY ServicesAssumption DEF PermissionStates
  <1> HIDE DEF a
  <1>2. answers' = [answers EXCEPT ![q] = <<a>>]
    BY <1>0, SingleFacts DEF a
  <1>3. <<a>> \in Seq(Seq(PermissionStates)) /\ Len(<<a>>) = 1 /\ <<a>> # <<>>
    BY <1>1
  <1>4. PermissionTypes'
    BY <1>0, <1>2, <1>3 DEF PermissionTypes
  <1>5. PermissionCallbacks'
    BY <1>0 DEF PermissionCallbacks, PermissionTypes
  <1>6. PermissionAsking'
    BY <1>0 DEF PermissionAsking
  <1>7. ASSUME NEW r \in Requests PROVE AskedInvariant(r)'
    <2>1. CASE r = q
      <3>1. /\ answers'[r] = <<a>> /\ results'[r] = <<>>
            /\ r \notin pending_requests' /\ r \in made'
        BY <1>0, <1>2, <2>1 DEF PermissionTypes
      <3>2. AskedSized(r)'
        <4>1. Len(answers'[r]) = 1
          BY <1>3, <3>1, Zenon
        <4> HIDE DEF Permissions!RequestUnhandled
        <4>2. Len(answers'[r]) <= 1
          BY <4>1
        <4> QED BY <3>1, <4>2 DEF AskedSized
      <3> QED
        BY <3>1, <3>2 DEF AskedInvariant, AskedMatched, AskedCounted, AskedAnswered
    <2>2. CASE r # q
      BY <1>0, <1>2, <2>2, AskedKept DEF PermissionTypes
    <2> QED BY <2>1, <2>2
  <1> QED BY <1>4, <1>5, <1>6, <1>7 DEF PermissionInvariant

\* With a handler all of its permissions are still to be decided.
LEMMA RequestPermissionsKeeps ==
  ASSUME PermissionInvariant, NEW q \in Requests, NEW n \in 0..MaxPermissions,
         Permissions!RequestPermissionsWithDetails(q, n)
  PROVE  PermissionInvariant'
  <1> USE DEF Permissions!RequestPermissionsWithDetails
  <1> DEFINE d == [i \in 1..n |-> "denied"]
  <1>m. MaxPermissions \in Nat
    BY ServicesAssumption
  <1>0. /\ PermissionTypes /\ PermissionCallbacks /\ \A r \in Requests : AskedInvariant(r)
        /\ q \notin made /\ answers[q] = <<>> /\ n > 0 /\ n \in Nat
        /\ \A i \in 1..MaxPermissions : decided[q][i] = "nothing" /\ <<q, i>> \notin callbacks
    BY <1>m DEF PermissionInvariant, AskedInvariant, AskedSized, PermissionTypes
  <1>n. \A i \in 1..n : i \in 1..MaxPermissions
    BY ServicesAssumption
  <1>1. /\ d \in Seq(PermissionStates) /\ Len(d) = n /\ d # <<>>
        /\ \A i \in 1..n : d[i] = "denied"
    BY <1>0 DEF PermissionStates
  <1>2. results' = [results EXCEPT ![q] = d]
    OBVIOUS
  <1> HIDE DEF d
  <1>4. PermissionTypes'
    BY <1>0, <1>1, <1>2 DEF PermissionTypes
  <1>5. PermissionCallbacks'
    BY <1>0, <1>2 DEF PermissionCallbacks, PermissionTypes
  <1>6. PermissionAsking'
    <2>1. q \in made' /\ permissions'[q] = n /\ results'[q] = d /\ asking' = <<q, 1>>
      BY <1>0, <1>2 DEF PermissionTypes
    <2>2. AskingAt(q, 1)'
      BY <1>0, <1>n, <1>1, <2>1 DEF AskingAt
    <2> QED BY <1>0, <2>1, <2>2 DEF PermissionAsking
  <1>7. ASSUME NEW r \in Requests PROVE AskedInvariant(r)'
    <2>1. CASE r = q
      <3>1. /\ results'[r] = d /\ permissions'[r] = n /\ remaining_results'[r] = n
            /\ answers'[r] = <<>> /\ r \in made' /\ r \notin cut_short'
            /\ \A i \in 1..n : decided'[r][i] = "nothing"
        BY <1>0, <1>n, <1>2, <2>1 DEF PermissionTypes
      <3>2. Undecided(r)' = 1..n
        BY <3>1 DEF Undecided
      <3>3. Cardinality(1..n) = n
        BY <1>0, FS_Interval
      <3>4. AskedCounted(r)'
        BY <3>1, <3>2, <3>3 DEF AskedCounted
      <3> QED
        BY <1>1, <3>1, <3>4, EmptyFacts
        DEF AskedInvariant, AskedSized, AskedMatched, AskedAnswered
    <2>2. CASE r # q
      BY <1>0, <1>2, <2>2, AskedKept DEF PermissionTypes
    <2> QED BY <2>1, <2>2
  <1> QED BY <1>4, <1>5, <1>6, <1>7 DEF PermissionInvariant

LEMMA RunHandlerKeeps ==
  ASSUME PermissionInvariant, Permissions!RunHandler
  PROVE  PermissionInvariant'
  <1> USE DEF Permissions!RunHandler, Permissions!requestVars
  <1>0. /\ PermissionTypes /\ PermissionCallbacks /\ \A r \in Requests : AskedInvariant(r)
        /\ PermissionAsking
    BY DEF PermissionInvariant
  <1>1. PICK q \in made : \E k \in 1..permissions[q] : AskingAt(q, k)
    BY <1>0 DEF PermissionAsking, Permissions!NotAsking
  <1>2. PICK k \in 1..permissions[q] : AskingAt(q, k)
    BY <1>1
  <1>3. q \in Requests /\ permissions[q] \in Nat /\ k \in Nat /\ k \in 1..MaxPermissions
    <2>1. q \in Requests
      BY <1>0 DEF PermissionTypes
    <2>2. permissions[q] \in Nat /\ \A i \in 1..permissions[q] : i \in 1..MaxPermissions
      BY <1>0, <2>1, UndecidedFacts
    <2> QED BY <2>1, <2>2
  <1>4. /\ asking = <<q, k>> /\ asking[1] = q /\ asking[2] = k
        /\ callbacks' = callbacks \cup {<<q, k>>}
    BY <1>2 DEF AskingAt
  <1>5. PermissionTypes'
    BY <1>0, <1>3, <1>4 DEF PermissionTypes
  <1>6. PermissionCallbacks'
    <2> SUFFICES ASSUME NEW r \in Requests, NEW i \in 1..MaxPermissions, <<r, i>> \in callbacks'
                 PROVE  i <= permissions[r] /\ decided[r][i] = "nothing" /\ results[r] # <<>>
      BY DEF PermissionCallbacks
    <2>1. CASE <<r, i>> \in callbacks
      BY <1>0, <2>1 DEF PermissionCallbacks
    <2>2. CASE <<r, i>> = <<q, k>>
      <3>1. r = q /\ i = k
        BY <2>2
      <3> QED BY <1>2, <1>3, <3>1 DEF AskingAt
    <2> QED BY <1>4, <2>1, <2>2
  <1>7. PermissionAsking'
    <2>1. CASE k = permissions[q]
      BY <1>4, <2>1 DEF PermissionAsking, Permissions!NotAsking
    <2>2. CASE k # permissions[q]
      <3>1. asking' = <<q, k + 1>> /\ k + 1 \in 1..permissions[q]
        BY <1>3, <1>4, <2>2
      <3>2. \A i \in (k + 1)..permissions[q] : i \in k..permissions[q] /\ <<q, i>> # <<q, k>>
        BY <1>3
      <3>3. AskingAt(q, k + 1)'
        BY <1>2, <1>4, <3>1, <3>2 DEF AskingAt
      <3> QED BY <3>1, <3>3 DEF PermissionAsking
    <2> QED BY <2>1, <2>2
  <1>8. ASSUME NEW r \in Requests PROVE AskedInvariant(r)'
    BY <1>0, AskedKept
  <1> QED BY <1>5, <1>6, <1>7, <1>8 DEF PermissionInvariant

\* An answer of JavaScript decides one permission that was undecided.
LEMMA OnPermissionResponseKeeps ==
  ASSUME PermissionInvariant, NEW q \in Requests, NEW j \in 1..MaxPermissions,
         NEW status \in PermissionStates, Permissions!OnPermissionResponse(q, j, status)
  PROVE  PermissionInvariant'
  <1> USE DEF Permissions!OnPermissionResponse, Permissions!requestVars
  <1>0. /\ PermissionTypes /\ PermissionCallbacks /\ \A r \in Requests : AskedInvariant(r)
        /\ PermissionAsking
    BY DEF PermissionInvariant
  <1>1. /\ <<q, j>> \in callbacks /\ callbacks' = callbacks \ {<<q, j>>} /\ j \in 1..permissions[q]
        /\ decided[q][j] = "nothing" /\ results[q] # <<>> /\ q \in made
        /\ UNCHANGED <<made, permissions, asking, frames_gone, cut_short>>
    <2>1. permissions[q] \in Nat
      BY <1>0, UndecidedFacts
    <2> QED BY <1>0, <2>1 DEF PermissionCallbacks, PermissionTypes
  <1>2. /\ decided' \in [Requests -> [1..MaxPermissions -> {"nothing"} \cup PermissionStates]]
        /\ decided'[q][j] = status /\ status # "nothing"
        /\ \A i \in 1..MaxPermissions : i # j => decided'[q][i] = decided[q][i]
        /\ \A r \in Requests : r # q => decided'[r] = decided[r]
    BY <1>0 DEF PermissionTypes, PermissionStates
  <1>p. \A r \in Requests : /\ permissions[r] \in Nat
                            /\ \A i \in 1..permissions[r] : i \in 1..MaxPermissions
    BY <1>0, UndecidedFacts
  <1>3. ASSUME NEW r \in Requests, r # q
        PROVE  /\ results'[r] = results[r] /\ answers'[r] = answers[r]
               /\ remaining_results'[r] = remaining_results[r]
               /\ r \in pending_requests' <=> r \in pending_requests
    BY <1>0, <1>3 DEF PermissionTypes
  <1>4. results'[q] # <<>> /\ results' \in [Requests -> Seq(PermissionStates)]
        /\ Len(results'[q]) = Len(results[q])
    <2>1. CASE q \notin pending_requests
      BY <1>0, <1>1, <2>1 DEF PermissionTypes
    <2>2. CASE q \in pending_requests
      <3>1. results' = [results EXCEPT ![q] = [results[q] EXCEPT ![j] = status]]
        BY <2>2
      <3>2. /\ [results[q] EXCEPT ![j] = status] \in Seq(PermissionStates)
            /\ Len([results[q] EXCEPT ![j] = status]) = Len(results[q])
            /\ [results[q] EXCEPT ![j] = status] # <<>>
        <4>1. results[q] \in Seq(PermissionStates) /\ results[q] # <<>>
          BY <1>0, <1>1 DEF PermissionTypes
        <4>2. j \in 1..Len(results[q])
          BY <1>0, <1>1 DEF AskedInvariant, AskedSized
        <4> QED BY <4>1, <4>2, ExceptFacts
      <3> QED BY <1>0, <3>1, <3>2 DEF PermissionTypes
    <2> QED BY <2>1, <2>2
  <1>5. PermissionCallbacks'
    <2> SUFFICES ASSUME NEW r \in Requests, NEW i \in 1..MaxPermissions, <<r, i>> \in callbacks'
                 PROVE  i <= permissions[r] /\ decided'[r][i] = "nothing" /\ results'[r] # <<>>
      BY <1>1 DEF PermissionCallbacks
    <2>1. <<r, i>> \in callbacks /\ <<r, i>> # <<q, j>>
      BY <1>1
    <2>2. i <= permissions[r] /\ decided[r][i] = "nothing" /\ results[r] # <<>>
      BY <1>0, <2>1 DEF PermissionCallbacks
    <2>3. CASE r = q
      BY <1>2, <1>4, <2>1, <2>2, <2>3
    <2>4. CASE r # q
      BY <1>2, <1>3, <2>2, <2>4
    <2> QED BY <2>3, <2>4
  <1>6. PermissionAsking'
    <2> SUFFICES ASSUME asking # <<>>
                 PROVE  \E r \in made : \E k \in 1..permissions[r] : AskingAt(r, k)'
      BY <1>1 DEF PermissionAsking
    <2>1. PICK r \in made : \E k \in 1..permissions[r] : AskingAt(r, k)
      BY <1>0 DEF PermissionAsking
    <2>2. PICK k \in 1..permissions[r] : AskingAt(r, k)
      BY <2>1
    <2>3. r \in Requests
      BY <1>0 DEF PermissionTypes
    <2>4. CASE r # q
      <3>1. AskingAt(r, k)'
        BY <1>1, <1>2, <1>3, <2>2, <2>3, <2>4 DEF AskingAt
      <3> QED BY <3>1
    <2>5. CASE r = q
      <3>1. \A i \in k..permissions[r] : i # j /\ i \in 1..MaxPermissions
        BY <1>1, <1>p, <2>2, <2>3, <2>5 DEF AskingAt
      <3>2. AskingAt(r, k)'
        BY <1>1, <1>2, <1>4, <2>2, <2>5, <3>1 DEF AskingAt
      <3> QED BY <3>2
    <2> QED BY <2>4, <2>5
  <1>7. ASSUME NEW r \in Requests, r # q PROVE AskedInvariant(r)'
    BY <1>0, <1>1, <1>2, <1>3, <1>7, AskedKept
  <1>8. AskedSized(q) /\ AskedMatched(q) /\ AskedCounted(q) /\ AskedAnswered(q)
    BY <1>0 DEF AskedInvariant
  <1>9. CASE q \notin pending_requests
    <2>0. UNCHANGED <<pending_requests, results, remaining_results, answers>>
      BY <1>9
    <2>1. PermissionTypes'
      BY <1>0, <1>1, <1>2, <2>0 DEF PermissionTypes
    <2>2. AskedSized(q)' /\ AskedMatched(q)' /\ AskedCounted(q)'
      BY <1>1, <1>8, <1>9, <2>0 DEF AskedSized, AskedMatched, AskedCounted
    <2>3. AskedAnswered(q)'
      <3> SUFFICES ASSUME answers[q] # <<>>, NEW i \in 1..permissions[q]
                   PROVE  IF q \in cut_short
                          THEN answers[q][1][i] = "granted" => decided'[q][i] = "granted"
                          ELSE answers[q][1][i] = decided'[q][i] /\ decided'[q][i] # "nothing"
        BY <1>1, <2>0 DEF AskedAnswered
      <3>1. IF q \in cut_short THEN answers[q][1][i] = "granted" => decided[q][i] = "granted"
            ELSE answers[q][1][i] = decided[q][i] /\ decided[q][i] # "nothing"
        BY <1>1, <1>8 DEF AskedAnswered
      <3>2. CASE i = j
        BY <1>1, <3>1, <3>2
      <3>3. CASE i # j
        BY <1>2, <1>p, <3>1, <3>3
      <3> QED BY <3>2, <3>3
    <2>4. \A r \in Requests : AskedInvariant(r)'
      BY <1>7, <2>2, <2>3 DEF AskedInvariant
    <2> QED BY <1>5, <1>6, <2>1, <2>4 DEF PermissionInvariant
  <1>10. CASE q \in pending_requests
    <2> DEFINE n == permissions[q]
    <2>0. /\ answers[q] = <<>> /\ q \notin cut_short
          /\ \A i \in 1..n : results[q][i] = IF decided[q][i] = "nothing" THEN "denied"
                                             ELSE decided[q][i]
      BY <1>8, <1>10 DEF AskedMatched
    <2>1. Len(results[q]) = n /\ results[q] \in Seq(PermissionStates)
      BY <1>0, <1>1, <1>8 DEF AskedSized, PermissionTypes
    <2>2. results'[q] = [results[q] EXCEPT ![j] = status]
      BY <1>0, <1>10 DEF PermissionTypes
    <2>3. \A i \in 1..n : results'[q][i] = IF decided'[q][i] = "nothing" THEN "denied"
                                           ELSE decided'[q][i]
      <3> SUFFICES ASSUME NEW i \in 1..n
                   PROVE  results'[q][i] = IF decided'[q][i] = "nothing" THEN "denied"
                                           ELSE decided'[q][i]
        OBVIOUS
      <3>1. CASE i = j
        BY <1>1, <1>2, <2>1, <2>2, <3>1
      <3>2. CASE i # j
        BY <1>2, <1>p, <2>0, <2>1, <2>2, <3>2
      <3> QED BY <3>1, <3>2
    <2>4. /\ Undecided(q)' = Undecided(q) \ {j} /\ j \in Undecided(q)
          /\ Cardinality(Undecided(q)) \in Nat /\ IsFiniteSet(Undecided(q))
      <3>1. Undecided(q)' = Undecided(q) \ {j} /\ j \in Undecided(q)
        BY <1>1, <1>2, <1>p DEF Undecided
      <3> QED BY <1>0, <3>1, UndecidedFacts
    <2>5. Cardinality(Undecided(q)') = Cardinality(Undecided(q)) - 1
      BY <2>4, FS_RemoveElement
    <2>6. /\ remaining_results[q] = Cardinality(Undecided(q))
          /\ remaining_results'[q] = remaining_results[q] - 1
          /\ remaining_results' = [remaining_results EXCEPT ![q] = @ - 1]
      BY <1>0, <1>8, <1>10 DEF AskedCounted, PermissionTypes
    <2>7. Cardinality(Undecided(q)) > 0
      BY <2>4, FS_EmptySet
    <2>8. remaining_results' \in [Requests -> 0..MaxPermissions]
      <3>1. remaining_results[q] - 1 \in 0..MaxPermissions
        BY <1>0, <2>6, <2>7, ServicesAssumption DEF PermissionTypes
      <3> QED BY <1>0, <2>6, <3>1 DEF PermissionTypes
    <2>9. CASE remaining_results[q] # 1
      <3>1. UNCHANGED <<answers, pending_requests>>
        BY <1>10, <2>9
      <3>2. PermissionTypes'
        BY <1>0, <1>1, <1>2, <1>4, <2>8, <3>1 DEF PermissionTypes
      <3>3. AskedSized(q)' /\ AskedMatched(q)' /\ AskedAnswered(q)'
        BY <1>1, <1>4, <1>8, <2>0, <2>1, <2>3, <3>1
        DEF AskedSized, AskedMatched, AskedAnswered
      <3>4. AskedCounted(q)'
        BY <2>5, <2>6 DEF AskedCounted
      <3>5. \A r \in Requests : AskedInvariant(r)'
        BY <1>7, <3>3, <3>4 DEF AskedInvariant
      <3> QED BY <1>5, <1>6, <3>2, <3>5 DEF PermissionInvariant
    <2>10. CASE remaining_results[q] = 1
      <3>1. /\ answers' = [answers EXCEPT ![q] = <<results'[q]>>]
            /\ pending_requests' = pending_requests \ {q}
        BY <1>10, <2>0, <2>10, SingleFacts
      <3>2. results'[q] \in Seq(PermissionStates)
        BY <1>4
      <3>3. /\ <<results'[q]>> \in Seq(Seq(PermissionStates)) /\ Len(<<results'[q]>>) = 1
            /\ <<results'[q]>>[1] = results'[q]
        BY <3>2
      <3>4. PermissionTypes'
        BY <1>0, <1>1, <1>2, <1>4, <2>8, <3>1, <3>3 DEF PermissionTypes
      <3>5. Undecided(q)' = {}
        <4>1. Cardinality(Undecided(q)') = 0 /\ IsFiniteSet(Undecided(q)')
          BY <2>4, <2>5, <2>6, <2>10, FS_RemoveElement
        <4> QED BY <4>1, FS_EmptySet
      <3>6. answers'[q] = <<results'[q]>> /\ q \notin pending_requests'
        BY <1>0, <3>1 DEF PermissionTypes
      <3>7. AskedAnswered(q)'
        <4>1. \A i \in 1..n : decided'[q][i] # "nothing"
          BY <1>1, <3>5 DEF Undecided
        <4> QED BY <1>1, <2>0, <2>3, <3>3, <3>6, <4>1 DEF AskedAnswered
      <3>8. AskedSized(q)' /\ AskedMatched(q)' /\ AskedCounted(q)'
        BY <1>1, <1>4, <2>1, <3>3, <3>6 DEF AskedSized, AskedMatched, AskedCounted
      <3>9. \A r \in Requests : AskedInvariant(r)'
        BY <1>7, <3>7, <3>8 DEF AskedInvariant
      <3> QED BY <1>5, <1>6, <3>4, <3>9 DEF PermissionInvariant
    <2> QED BY <2>9, <2>10
  <1> QED BY <1>9, <1>10

\* Removing the handler answers with what was decided until then.
LEMMA RemoveHandlerKeeps ==
  ASSUME PermissionInvariant, Permissions!RemoveHandler
  PROVE  PermissionInvariant'
  <1> USE DEF Permissions!RemoveHandler
  <1>0. /\ PermissionTypes /\ PermissionCallbacks /\ \A r \in Requests : AskedInvariant(r)
        /\ PermissionAsking
    BY DEF PermissionInvariant
  <1>1. ASSUME NEW r \in Requests
        PROVE  answers'[r] = IF r \in pending_requests \ frames_gone THEN <<results[r]>>
                             ELSE answers[r]
    BY <1>0, SingleFacts DEF AskedInvariant, AskedMatched
  <1>2. ASSUME NEW r \in Requests
        PROVE  /\ <<results[r]>> \in Seq(Seq(PermissionStates)) /\ Len(<<results[r]>>) = 1
               /\ <<results[r]>>[1] = results[r]
    BY <1>0 DEF PermissionTypes
  <1>3. PermissionTypes'
    <2>1. answers' \in [Requests -> Seq(Seq(PermissionStates))]
      <3>1. ASSUME NEW r \in Requests
            PROVE  (IF r \in pending_requests \ frames_gone THEN Append(answers[r], results[r])
                    ELSE answers[r]) \in Seq(Seq(PermissionStates))
        BY <1>0 DEF PermissionTypes
      <3> QED BY <3>1
    <2> QED BY <1>0, <2>1 DEF PermissionTypes
  <1>4. PermissionCallbacks'
    BY <1>0 DEF PermissionCallbacks
  <1>5. PermissionAsking'
    BY <1>0 DEF PermissionAsking, AskingAt
  <1>6. ASSUME NEW r \in Requests PROVE AskedInvariant(r)'
    <2>0. AskedInvariant(r)
      BY <1>0
    <2>1. CASE r \notin pending_requests
      <3>1. answers'[r] = answers[r] /\ (r \in cut_short' <=> r \in cut_short)
        BY <1>1, <2>1
      <3> QED BY <1>0, <2>0, <2>1, <3>1, AskedKept
    <2>2. CASE r \in pending_requests
      <3>1. r \in made /\ r \in cut_short' /\ r \notin pending_requests'
        BY <1>0, <2>2 DEF PermissionTypes
      <3>2. answers[r] = <<>> /\ \A i \in 1..permissions[r] :
                results[r][i] = IF decided[r][i] = "nothing" THEN "denied" ELSE decided[r][i]
        BY <2>0, <2>2 DEF AskedInvariant, AskedMatched
      <3>3. AskedSized(r)'
        BY <1>1, <1>2, <2>0, <3>1, <3>2, EmptyFacts DEF AskedInvariant, AskedSized
      <3>4. AskedMatched(r)' /\ AskedCounted(r)'
        BY <3>1 DEF AskedMatched, AskedCounted
      <3>5. AskedAnswered(r)'
        BY <1>1, <1>2, <3>1, <3>2 DEF AskedAnswered
      <3> QED BY <3>3, <3>4, <3>5 DEF AskedInvariant
    <2> QED BY <2>1, <2>2
  <1> QED BY <1>3, <1>4, <1>5, <1>6 DEF PermissionInvariant

\* What does not touch a request.
LEMMA PermissionsKept ==
  ASSUME PermissionInvariant, UNCHANGED <<Permissions!requestVars, asking, callbacks, decided, cut_short>>,
         frames_gone' \subseteq made
  PROVE  PermissionInvariant'
  <1> USE DEF Permissions!requestVars
  <1>0. /\ PermissionTypes /\ PermissionCallbacks /\ \A r \in Requests : AskedInvariant(r)
        /\ PermissionAsking
    BY DEF PermissionInvariant
  <1>1. PermissionTypes'
    BY <1>0 DEF PermissionTypes
  <1>2. PermissionCallbacks' /\ PermissionAsking'
    BY <1>0 DEF PermissionCallbacks, PermissionAsking, AskingAt
  <1>3. ASSUME NEW r \in Requests PROVE AskedInvariant(r)'
    BY <1>0, AskedKept
  <1> QED BY <1>1, <1>2, <1>3 DEF PermissionInvariant

LEMMA PermissionStep == PermissionInvariant /\ Permissions!Next => PermissionInvariant'
  <1> SUFFICES ASSUME PermissionInvariant, Permissions!Next PROVE PermissionInvariant'
    OBVIOUS
  <1>0. frames_gone \subseteq made /\ pending_requests \subseteq made
    BY DEF PermissionInvariant, PermissionTypes
  <1>1. CASE Permissions!RunNullHandler \/ Permissions!SetHandler
    BY <1>0, <1>1, PermissionsKept DEF Permissions!RunNullHandler, Permissions!SetHandler
  <1>2. ASSUME NEW r \in Requests, Permissions!DestroyFrame(r) PROVE PermissionInvariant'
    BY <1>0, <1>2, PermissionsKept DEF Permissions!DestroyFrame
  <1>3. ASSUME NEW r \in Requests, NEW i \in 1..MaxPermissions, NEW status \in {"granted", "denied"},
               Permissions!OnPermissionResponse(r, i, status)
        PROVE  PermissionInvariant'
    BY <1>3, OnPermissionResponseKeeps DEF PermissionStates
  <1> QED
    BY <1>1, <1>2, <1>3, RequestUnhandledKeeps, RequestPermissionsKeeps, RunHandlerKeeps,
       RemoveHandlerKeeps
    DEF Permissions!Next, Permissions!Ask, Permissions!Respond

LEMMA PermissionStutter == PermissionInvariant /\ Permissions!NoStep => PermissionInvariant'
  <1>1. PermissionInvariant => frames_gone \subseteq made
    BY DEF PermissionInvariant, PermissionTypes
  <1> QED BY <1>1, PermissionsKept DEF Permissions!NoStep, Permissions!permissionVars

LEMMA PermissionSafe == PermissionInvariant => Permissions!AnswersAreDecided
  BY DEF PermissionInvariant, PermissionTypes, AskedInvariant, AskedAnswered,
         Permissions!AnswersAreDecided

-----------------------------------------------------------------------------
(* The office instance, which MCServices extends.                          *)

\* What ToldOnce needs to be inductive.  A client is told on one of two ways: by
\* AddLoadObserver, and then it never joins the list; or by a notification, which
\* is made once, when Initialize is done, of those in the list.
Registered ==
    /\ initializer \in {"none", "check", "load", "features", "notify", "done"}
    /\ instance \in BOOLEAN
    /\ client \in [Clients -> {"none", "adding", "ready", "gone"}]
    /\ told \in [Clients -> 0..2]
    /\ loaded_observers \subseteq Clients /\ notifications \subseteq Clients

ListedOrTold ==
    \A c \in Clients :
        /\ c \in loaded_observers => client[c] = "ready"
        /\ client[c] \in {"none", "adding"} => told[c] = 0
        /\ c \in loaded_observers /\ told[c] > 0 => initializer = "done"

OfficeInvariant ==
    /\ Registered
    /\ once \/ initializer = "none"
    /\ instance => initializer \in {"features", "notify", "done"}
    /\ ListedOrTold
    /\ ToldOnce

LEMMA OfficeInit == Init => OfficeInvariant
  <1> SUFFICES ASSUME Init PROVE OfficeInvariant
    OBVIOUS
  <1>1. Registered
    <2>1. told \in [Clients -> 0..2]
      BY DEF Init
    <2> QED BY <2>1 DEF Init, Registered
  <1>2. ListedOrTold /\ ToldOnce
    BY DEF Init, ListedOrTold, ToldOnce
  <1> QED BY <1>1, <1>2 DEF Init, OfficeInvariant

LEMMA OfficeStep == OfficeInvariant /\ [Next]_vars => OfficeInvariant'
  <1> SUFFICES ASSUME OfficeInvariant, [Next]_vars PROVE OfficeInvariant'
    OBVIOUS
  <1> USE DEF OfficeInvariant, Registered, ListedOrTold, ToldOnce
  <1>1. CASE Create
    BY <1>1 DEF Create
  <1>2. CASE InitializeCheck
    BY <1>2 DEF InitializeCheck
  <1>3. CASE InitializeLoad
    BY <1>3 DEF InitializeLoad
  <1>4. CASE InitializeFeatures
    BY <1>4 DEF InitializeFeatures
  <1>5. CASE InitializeNotify
    BY <1>5 DEF InitializeNotify
  <1>6. CASE UnsetFlag
    BY <1>6 DEF UnsetFlag
  <1>7. CASE UnsetReset
    BY <1>7 DEF UnsetReset
  <1>8. ASSUME NEW c \in Clients, AddLoadObserverLoaded(c) PROVE OfficeInvariant'
    BY <1>8 DEF AddLoadObserverLoaded, OnLoaded
  <1>9. ASSUME NEW c \in Clients, AddLoadObserverEarly(c) PROVE OfficeInvariant'
    BY <1>9 DEF AddLoadObserverEarly
  <1>10. ASSUME NEW c \in Clients, AddObserver(c) PROVE OfficeInvariant'
    BY <1>10 DEF AddObserver
  <1>11. ASSUME NEW c \in Clients, Deliver(c) PROVE OfficeInvariant'
    BY <1>11 DEF Deliver, OnLoaded
  <1>12. ASSUME NEW c \in Clients, LoadDocument(c) PROVE OfficeInvariant'
    BY <1>12 DEF LoadDocument
  <1>13. ASSUME NEW c \in Clients, ResolveLoad(c) PROVE OfficeInvariant'
    BY <1>13 DEF ResolveLoad
  <1>14. ASSUME NEW c \in Clients, DestroyClient(c) PROVE OfficeInvariant'
    BY <1>14 DEF DestroyClient
  <1>15. CASE UNCHANGED vars
    BY <1>15 DEF vars
  <1> QED
    BY <1>1, <1>2, <1>3, <1>4, <1>5, <1>6, <1>7, <1>8, <1>9, <1>10, <1>11, <1>12, <1>13,
       <1>14, <1>15
    DEF Next, Initialize

-----------------------------------------------------------------------------
(* The parts together: each takes its steps or stands still, so that its   *)
(* invariant holds whichever part is explored.                             *)

\* Node's loop is run or polled by one thread at a time (NodeBindings).
THEOREM OneThreadCorrect == ServicesSpec => []OneThreadAtATime
  <1>1. ServicesInit => NodeInvariant
    BY NodeInit DEF ServicesInit
  <1>2. NodeInvariant /\ [ServicesNext]_serviceVars => NodeInvariant'
    BY NodeStep, NodeStutter DEF ServicesNext, serviceVars, Looping!NoStep
  <1>3. NodeInvariant => OneThreadAtATime
    BY NodeSafe DEF OneThreadAtATime
  <1> QED BY <1>1, <1>2, <1>3, PTL DEF ServicesSpec

\* The page is answered with what was decided, and a lookup goes to the request
\* it was made for (ElectronPermissionManager, ResolveProxyHelper).
THEOREM AnswersCorrect == ServicesSpec => []AnswersAreDecided
  <1>1. ServicesInit => PermissionInvariant /\ LookupInvariant
    BY PermissionInit, LookupInit DEF ServicesInit
  <1>2. PermissionInvariant /\ [ServicesNext]_serviceVars => PermissionInvariant'
    BY PermissionStep, PermissionStutter DEF ServicesNext, serviceVars, Permissions!NoStep
  <1>3. LookupInvariant /\ [ServicesNext]_serviceVars => LookupInvariant'
    BY LookupStep, LookupStutter DEF ServicesNext, serviceVars, Lookup!NoStep
  <1>4. PermissionInvariant /\ LookupInvariant => AnswersAreDecided
    BY PermissionSafe DEF AnswersAreDecided, LookupInvariant
  <1> QED BY <1>1, <1>2, <1>3, <1>4, PTL DEF ServicesSpec

\* Unsettled commands are kept, and closed means closed (api::Debugger).
THEOREM CommandsCorrect == ServicesSpec => []CommandsAreKept
  <1>1. ServicesInit => DebuggerInvariant
    BY DebuggerInit DEF ServicesInit
  <1>2. DebuggerInvariant /\ [ServicesNext]_serviceVars => DebuggerInvariant'
    BY DebuggerStep, DebuggerStutter DEF ServicesNext, serviceVars, Debugging!NoStep
  <1>3. DebuggerInvariant => CommandsAreKept
    BY DebuggerSafe DEF CommandsAreKept, DebuggerInvariant
  <1> QED BY <1>1, <1>2, <1>3, PTL DEF ServicesSpec

\* Replies find the promise they are for (api::NetLog).
THEOREM LogsCorrect == ServicesSpec => []LogsAreTheirOwn
  <1>1. ServicesInit => NetLogInvariant
    BY NetLogInit DEF ServicesInit
  <1>2. NetLogInvariant /\ [ServicesNext]_serviceVars => NetLogInvariant'
    BY NetLogStep, NetLogStutter DEF ServicesNext, serviceVars, Logging!NoStep
  <1>3. NetLogInvariant => LogsAreTheirOwn
    BY DEF LogsAreTheirOwn, NetLogInvariant
  <1> QED BY <1>1, <1>2, <1>3, PTL DEF ServicesSpec

\* Every client is told at most once, neither before there was an office nor after
\* its destruction, however Initialize, Unset and the clients interleave.
THEOREM ToldOnceCorrect == Spec => []ToldOnce
  <1>1. OfficeInvariant => ToldOnce
    BY DEF OfficeInvariant
  <1> QED BY <1>1, OfficeInit, OfficeStep, PTL DEF Spec
-----------------------------------------------------------------------------
(* Runs: sequences of consecutive numbers.                                 *)

Run(s, n) == s \in Seq(Nat) /\ \A i \in 1..Len(s) : s[i] = n + i

LEMMA RunEmpty == ASSUME NEW n \in Nat PROVE Run(<<>>, n) /\ Len(<<>>) = 0
  BY DEF Run

LEMMA RunFacts ==
  ASSUME NEW s, NEW n \in Nat, Run(s, n)
  PROVE  /\ s \in Seq(Nat) /\ Len(s) \in Nat /\ (Len(s) = 0 <=> s = <<>>)
         /\ s # <<0>> /\ \A i \in DOMAIN s : s[i] = n + i
  <1>1. s \in Seq(Nat) /\ Len(s) \in Nat /\ (Len(s) = 0 <=> s = <<>>) /\ DOMAIN s = 1..Len(s)
    BY DEF Run
  <1>2. s # <<0>>
    <2> SUFFICES ASSUME s = << 0 >> PROVE FALSE
      OBVIOUS
    <2>1. Len(s) = 1 /\ s[1] = 0
      OBVIOUS
    <2> QED BY <2>1 DEF Run
  <1> QED BY <1>1, <1>2 DEF Run

LEMMA RunAppend ==
  ASSUME NEW s, NEW n \in Nat, Run(s, n), NEW e, e = n + Len(s) + 1
  PROVE  Run(Append(s, e), n) /\ Len(Append(s, e)) = Len(s) + 1
  <1>1. s \in Seq(Nat) /\ Len(s) \in Nat /\ e \in Nat
    BY DEF Run
  <1> DEFINE t == Append(s, e)
  <1>2. /\ t \in Seq(Nat) /\ Len(t) = Len(s) + 1 /\ t[Len(s) + 1] = e
        /\ \A i \in 1..Len(s) : t[i] = s[i]
    BY <1>1
  <1> HIDE DEF t
  <1>3. ASSUME NEW i \in 1..Len(t) PROVE t[i] = n + i
    <2>1. CASE i \in 1..Len(s)
      BY <1>2, <2>1 DEF Run
    <2>2. CASE i = Len(s) + 1
      BY <1>1, <1>2, <2>2
    <2> QED BY <1>1, <1>2, <2>1, <2>2
  <1>4. Run(t, n)
    BY <1>2, <1>3 DEF Run
  <1> QED BY <1>2, <1>4 DEF t

LEMMA RunConcat ==
  ASSUME NEW a, NEW b, NEW n \in Nat, NEW m \in Nat, Run(a, n), Run(b, m), m = n + Len(a)
  PROVE  Run(a \o b, n) /\ Len(a \o b) = Len(a) + Len(b)
  <1>1. a \in Seq(Nat) /\ b \in Seq(Nat) /\ Len(a) \in Nat /\ Len(b) \in Nat
    BY DEF Run
  <1> DEFINE t == a \o b
  <1>2. /\ t \in Seq(Nat) /\ Len(t) = Len(a) + Len(b)
        /\ \A i \in 1..Len(a) : t[i] = a[i]
        /\ \A i \in 1..Len(b) : t[Len(a) + i] = b[i]
    BY <1>1
  <1> HIDE DEF t
  <1>3. ASSUME NEW i \in 1..Len(t) PROVE t[i] = n + i
    <2>1. CASE i \in 1..Len(a)
      BY <1>2, <2>1 DEF Run
    <2>2. CASE i \notin 1..Len(a)
      <3>1. i - Len(a) \in 1..Len(b) /\ Len(a) + (i - Len(a)) = i
        BY <1>1, <1>2, <2>2
      <3>2. t[i] = b[i - Len(a)]
        BY <1>2, <3>1
      <3>3. b[i - Len(a)] = m + (i - Len(a))
        BY <3>1 DEF Run
      <3> QED BY <1>1, <3>2, <3>3
    <2> QED BY <2>1, <2>2
  <1>4. Run(t, n)
    BY <1>2, <1>3 DEF Run
  <1> QED BY <1>2, <1>4 DEF t

-----------------------------------------------------------------------------
(* The Node stream loader.  Every chunk is in one place: given to the      *)
(* client, being written, being read, or in the stream, in this order.     *)
(* What the flags say of the loader is so; a write that is done finds      *)
(* readable_ set; and the result that waits is the one of the stream.      *)

ReadLength == IF reading = Streaming!NoRead THEN 0 ELSE Len(reading)
StreamTypes ==
    /\ stream \in {"open", "ending", "ended", "failed"}
    /\ ticks \subseteq {"readable", "end", "error"} /\ flags \subseteq Streaming!Flags
    /\ produced \in Nat /\ produced <= MaxChunks
    /\ end_result \in {"OK", "FAILED"}
    /\ completed \in {"new", "no", "OK", "FAILED", "NO_PIPE"}
    /\ client_gone \in BOOLEAN /\ from_loop \in BOOLEAN
    /\ Run(body, 0)
StreamOrder ==
    /\ Run(writing, Len(body))
    /\ reading # Streaming!NoRead => Run(reading, Len(body) + Len(writing))
    /\ Run(buffered, Len(body) + Len(writing) + ReadLength)
    /\ Len(body) + Len(writing) + ReadLength + Len(buffered) = produced
StreamFlags ==
    /\ "is_reading" \in flags <=> reading # Streaming!NoRead
    /\ "is_writing" \in flags <=> writing # <<>>
    /\ reading = Streaming!NoRead \/ writing = <<>>
    /\ "is_writing" \in flags => "readable" \in flags
    /\ reading # Streaming!NoRead /\ from_loop = TRUE => "readable" \in flags
StreamEnds ==
    /\ stream = "ended" => buffered = <<>>
    /\ "end" \in ticks => stream = "ended"
    /\ "error" \in ticks => stream = "failed"
    /\ "ended" \in flags /\ client_gone = FALSE =>
          \/ end_result = "OK" /\ stream = "ended"
          \/ end_result = "FAILED" /\ stream = "failed"
StreamDone ==
    /\ completed = "OK" => client_gone = TRUE \/ (Len(body) = produced /\ stream = "ended")
    /\ completed = "FAILED" => client_gone = TRUE \/ stream = "failed"
StreamInvariant ==
    /\ StreamTypes /\ StreamDone
    /\ completed \in {"new", "no"} => StreamOrder /\ StreamFlags /\ StreamEnds

LEMMA StreamInit == Streaming!Init => StreamInvariant
  <1> SUFFICES ASSUME Streaming!Init PROVE StreamInvariant
    OBVIOUS
  <1>9. /\ stream = "open" /\ buffered = <<>> /\ produced = 0 /\ ticks = {} /\ flags = {}
        /\ end_result = "OK" /\ reading = Streaming!NoRead /\ from_loop = FALSE /\ writing = <<>>
        /\ body = <<>> /\ completed = "new" /\ client_gone = FALSE
    BY DEF Streaming!Init
  <1>1. Run(<<>>, 0) /\ Len(<<>>) = 0
    BY RunEmpty
  <1>2. ReadLength = 0
    BY <1>9 DEF ReadLength
  <1>0. MaxChunks \in Nat
    BY ServicesAssumption
  <1>3. StreamTypes
    <2>1. Run(body, 0)
      BY <1>1, <1>9
    <2>2. produced \in Nat /\ produced <= MaxChunks
      BY <1>0, <1>9
    <2>3. ticks \subseteq {"readable", "end", "error"} /\ flags \subseteq Streaming!Flags
      BY <1>9
    <2>4. client_gone \in BOOLEAN /\ from_loop \in BOOLEAN
      BY <1>9
    <2>5. /\ stream \in {"open", "ending", "ended", "failed"} /\ end_result \in {"OK", "FAILED"}
          /\ completed \in {"new", "no", "OK", "FAILED", "NO_PIPE"}
      BY <1>9
    <2> QED BY <2>1, <2>2, <2>3, <2>4, <2>5 DEF StreamTypes
  <1>4. StreamOrder
    BY <1>1, <1>2, <1>9 DEF StreamOrder
  <1> QED BY <1>3, <1>4, <1>9 DEF StreamInvariant, StreamDone, StreamFlags, StreamEnds

LEMMA StreamOrderKept ==
  ASSUME StreamOrder, UNCHANGED <<writing, body, reading, buffered, produced>>
  PROVE  StreamOrder'
  BY DEF StreamOrder, ReadLength

\* The lengths of what is in order.
LEMMA StreamLengths ==
  ASSUME StreamTypes, StreamOrder
  PROVE  /\ Len(body) \in Nat /\ Len(writing) \in Nat /\ ReadLength \in Nat /\ Len(buffered) \in Nat
         /\ (writing = <<>> <=> Len(writing) = 0) /\ (buffered = <<>> <=> Len(buffered) = 0)
         /\ buffered # Streaming!NoRead
         /\ reading # Streaming!NoRead => (reading = <<>> <=> Len(reading) = 0)
  <1>1. Len(body) \in Nat
    BY RunFacts DEF StreamTypes
  <1>2. Len(writing) \in Nat /\ (writing = <<>> <=> Len(writing) = 0)
    BY <1>1, RunFacts DEF StreamOrder
  <1>3. reading # Streaming!NoRead => Len(reading) \in Nat /\ (reading = <<>> <=> Len(reading) = 0)
    BY <1>1, <1>2, RunFacts DEF StreamOrder
  <1>4. ReadLength \in Nat
    BY <1>3 DEF ReadLength
  <1>5. Len(body) + Len(writing) + ReadLength \in Nat
    BY <1>1, <1>2, <1>4
  <1>6. Len(buffered) \in Nat /\ (buffered = <<>> <=> Len(buffered) = 0) /\ buffered # <<0>>
    BY <1>5, RunFacts DEF StreamOrder
  <1> QED BY <1>1, <1>2, <1>3, <1>4, <1>6 DEF Streaming!NoRead

\* read() moves what the stream has to the reader, if that has nothing.
LEMMA ReadKeeps ==
  ASSUME StreamTypes, StreamOrder, NEW left, Streaming!Read(left), ReadLength = 0,
         UNCHANGED <<writing, body>>
  PROVE  StreamOrder' /\ reading' # Streaming!NoRead /\ buffered' = <<>>
  <1>1. reading' = buffered /\ buffered' = <<>> /\ produced' = produced
    BY DEF Streaming!Read
  <1>2. buffered # Streaming!NoRead /\ Len(body) \in Nat /\ Len(writing) \in Nat /\ Len(buffered) \in Nat
    BY StreamLengths
  <1>3. ReadLength' = Len(buffered) /\ Len(buffered') = 0
    BY <1>1, <1>2, RunEmpty DEF ReadLength, Streaming!NoRead
  <1>4. Run(buffered, Len(body) + Len(writing)) /\ Len(body) + Len(writing) + Len(buffered) = produced
    BY <1>2 DEF StreamOrder
  <1>5. Run(<<>>, Len(body) + Len(writing) + Len(buffered))
    BY <1>2, RunEmpty
  <1>6. Run(writing, Len(body))
    BY DEF StreamOrder
  <1> QED BY <1>1, <1>2, <1>3, <1>4, <1>5, <1>6 DEF StreamOrder, Streaming!NoRead

\* What each step may use, and what is left to show when it is over.
LEMMA StreamAlive ==
  ASSUME StreamInvariant, Streaming!Alive
  PROVE  StreamTypes /\ StreamOrder /\ StreamFlags /\ StreamEnds /\ completed = "no"
  BY DEF StreamInvariant, Streaming!Alive

LEMMA StreamStart == ASSUME StreamInvariant, Streaming!Start PROVE StreamInvariant'
  <1>1. /\ completed = "new" /\ completed' \in {"no", "NO_PIPE"}
        /\ UNCHANGED <<stream, buffered, produced, ticks, flags, end_result, reading, from_loop,
                       writing, body, client_gone>>
    BY DEF Streaming!Start, Streaming!emitterVars, Streaming!readVars
  <1>2. StreamTypes' /\ StreamDone'
    BY <1>1 DEF StreamInvariant, StreamTypes, StreamDone
  <1>3. StreamOrder'
    BY <1>1, StreamOrderKept DEF StreamInvariant
  <1>4. StreamFlags' /\ StreamEnds'
    BY <1>1 DEF StreamInvariant, StreamFlags, StreamEnds
  <1> QED BY <1>2, <1>3, <1>4 DEF StreamInvariant

LEMMA StreamPush == ASSUME StreamInvariant, Streaming!Push PROVE StreamInvariant'
  <1>1. /\ completed = "no" /\ stream = "open" /\ produced < MaxChunks /\ produced' = produced + 1
        /\ buffered' = Append(buffered, produced + 1) /\ ticks' = ticks \cup {"readable"}
        /\ UNCHANGED <<stream, flags, end_result, reading, from_loop, writing, body, completed,
                       client_gone>>
    BY DEF Streaming!Push, Streaming!Running, Streaming!Alive, Streaming!readVars
  <1>2. StreamTypes /\ StreamOrder /\ StreamFlags /\ StreamEnds
    BY StreamAlive DEF Streaming!Push, Streaming!Running
  <1>3. Len(body) \in Nat /\ Len(writing) \in Nat /\ ReadLength \in Nat /\ Len(buffered) \in Nat
    BY <1>2, StreamLengths
  <1> DEFINE n == Len(body) + Len(writing) + ReadLength
  <1>4. n \in Nat /\ Run(buffered, n) /\ n + Len(buffered) = produced
    BY <1>2, <1>3 DEF StreamOrder
  <1>5. ReadLength' = ReadLength
    BY <1>1 DEF ReadLength, Streaming!NoRead
  <1>6. n' = n
    BY <1>1, <1>5
  <1> HIDE DEF n
  <1>7. produced + 1 = n + Len(buffered) + 1
    BY <1>3, <1>4
  <1>8. Run(buffered', n) /\ Len(buffered') = Len(buffered) + 1
    BY <1>1, <1>4, <1>7, RunAppend
  <1>9. Run(buffered', n') /\ n' + Len(buffered') = produced'
    BY <1>1, <1>3, <1>4, <1>6, <1>8
  <1>10. StreamOrder'
    BY <1>1, <1>2, <1>9 DEF StreamOrder, Streaming!NoRead, n
  <1>11. StreamTypes' /\ StreamDone'
    <2>1. MaxChunks \in Nat
      BY ServicesAssumption
    <2> QED BY <1>1, <1>2, <2>1 DEF StreamTypes, StreamDone
  <1>12. StreamFlags' /\ StreamEnds'
    BY <1>1, <1>2 DEF StreamFlags, StreamEnds
  <1> QED BY <1>10, <1>11, <1>12 DEF StreamInvariant

LEMMA StreamPushEnd == ASSUME StreamInvariant, Streaming!PushEnd PROVE StreamInvariant'
  <1>1. /\ completed = "no" /\ stream = "open" /\ stream' = "ending" /\ ticks' = ticks \cup {"readable"}
        /\ UNCHANGED <<buffered, produced, flags, end_result, reading, from_loop, writing, body,
                       completed, client_gone>>
    BY DEF Streaming!PushEnd, Streaming!Running, Streaming!Alive, Streaming!readVars
  <1>2. StreamTypes /\ StreamOrder /\ StreamFlags /\ StreamEnds
    BY StreamAlive DEF Streaming!PushEnd, Streaming!Running
  <1>3. StreamOrder'
    BY <1>1, <1>2, StreamOrderKept
  <1> QED BY <1>1, <1>2, <1>3 DEF StreamInvariant, StreamTypes, StreamDone, StreamFlags, StreamEnds

LEMMA StreamFail == ASSUME StreamInvariant, Streaming!Fail PROVE StreamInvariant'
  <1>1. /\ completed = "no" /\ stream \in {"open", "ending"} /\ stream' = "failed" /\ ticks' = {"error"}
        /\ UNCHANGED <<buffered, produced, flags, end_result, reading, from_loop, writing, body,
                       completed, client_gone>>
    BY DEF Streaming!Fail, Streaming!Running, Streaming!Alive, Streaming!readVars
  <1>2. StreamTypes /\ StreamOrder /\ StreamFlags /\ StreamEnds
    BY StreamAlive DEF Streaming!Fail, Streaming!Running
  <1>3. StreamOrder'
    BY <1>1, <1>2, StreamOrderKept
  <1> QED BY <1>1, <1>2, <1>3 DEF StreamInvariant, StreamTypes, StreamDone, StreamFlags, StreamEnds

LEMMA StreamSkip == ASSUME StreamInvariant, Streaming!SkipReadable PROVE StreamInvariant'
  <1>1. /\ completed = "no" /\ ticks' = ticks \ {"readable"}
        /\ UNCHANGED <<stream, buffered, produced, flags, end_result, reading, from_loop, writing,
                       body, completed, client_gone>>
    BY DEF Streaming!SkipReadable, Streaming!Running, Streaming!Alive, Streaming!readVars,
           Streaming!emitterVars
  <1>2. StreamTypes /\ StreamOrder /\ StreamFlags /\ StreamEnds
    BY StreamAlive DEF Streaming!SkipReadable, Streaming!Running
  <1>3. StreamOrder'
    BY <1>1, <1>2, StreamOrderKept
  <1> QED BY <1>1, <1>2, <1>3 DEF StreamInvariant, StreamTypes, StreamDone, StreamFlags, StreamEnds

LEMMA StreamNotify == ASSUME StreamInvariant, Streaming!NotifyReadable PROVE StreamInvariant'
  <1>1. /\ completed = "no" /\ ticks' = ticks \ {"readable"}
        /\ flags \subseteq flags' /\ flags' \subseteq flags \cup {"readable", "has_read_waiting"}
        /\ UNCHANGED <<stream, buffered, produced, end_result, reading, from_loop, writing,
                       body, completed, client_gone>>
    BY DEF Streaming!NotifyReadable, Streaming!Running, Streaming!Alive, Streaming!readVars,
           Streaming!emitterVars
  <1>2. StreamTypes /\ StreamOrder /\ StreamFlags /\ StreamEnds
    BY StreamAlive DEF Streaming!NotifyReadable, Streaming!Running
  <1>3. StreamOrder'
    BY <1>1, <1>2, StreamOrderKept
  <1>4. StreamTypes' /\ StreamDone'
    BY <1>1, <1>2 DEF StreamTypes, StreamDone, Streaming!Flags
  <1>5. \A f \in {"is_reading", "is_writing", "ended"} : f \in flags' <=> f \in flags
    BY <1>1
  <1>6. "readable" \in flags => "readable" \in flags'
    BY <1>1
  <1>7. StreamFlags' /\ StreamEnds'
    BY <1>1, <1>2, <1>5, <1>6 DEF StreamFlags, StreamEnds, Streaming!NoRead
  <1> QED BY <1>3, <1>4, <1>7 DEF StreamInvariant

\* What a call of read() does besides moving the chunks.
LEMMA ReadEnds ==
  ASSUME StreamTypes, StreamEnds, NEW left, left \subseteq ticks, Streaming!Read(left)
  PROVE  /\ stream' \in {"open", "ending", "ended", "failed"}
         /\ ticks' \subseteq {"readable", "end", "error"} /\ produced' = produced
         /\ "end" \in ticks' => stream' = "ended"
         /\ "error" \in ticks' => stream' = "failed"
         /\ stream = "ended" => stream' = "ended"
         /\ stream = "failed" => stream' = "failed"
  BY DEF StreamTypes, StreamEnds, Streaming!Read

LEMMA StreamReads == ASSUME StreamInvariant, Streaming!NotifyReadableReads PROVE StreamInvariant'
  <1>1. /\ completed = "no" /\ flags \cap {"readable", "is_reading"} = {}
        /\ flags' = flags \cup {"is_reading"} /\ from_loop' = FALSE
        /\ Streaming!Read(ticks \ {"readable"})
        /\ UNCHANGED <<end_result, writing, body, completed, client_gone>>
    BY DEF Streaming!NotifyReadableReads, Streaming!Running, Streaming!Alive
  <1>2. StreamTypes /\ StreamOrder /\ StreamFlags /\ StreamEnds
    BY StreamAlive DEF Streaming!NotifyReadableReads, Streaming!Running
  <1>3. reading = Streaming!NoRead /\ writing = <<>>
    BY <1>1, <1>2 DEF StreamFlags
  <1>4. ReadLength = 0
    BY <1>3 DEF ReadLength
  <1>5. StreamOrder' /\ reading' # Streaming!NoRead /\ buffered' = <<>>
    BY <1>1, <1>2, <1>4, ReadKeeps
  <1>6. /\ stream' \in {"open", "ending", "ended", "failed"}
        /\ ticks' \subseteq {"readable", "end", "error"} /\ produced' = produced
        /\ "end" \in ticks' => stream' = "ended"
        /\ "error" \in ticks' => stream' = "failed"
        /\ stream = "ended" => stream' = "ended"
        /\ stream = "failed" => stream' = "failed"
    BY <1>1, <1>2, ReadEnds
  <1>7. StreamTypes' /\ StreamDone'
    BY <1>1, <1>2, <1>6 DEF StreamTypes, StreamDone, Streaming!Flags
  <1>8. StreamFlags'
    BY <1>1, <1>2, <1>3, <1>5 DEF StreamFlags, Streaming!NoRead
  <1>9. StreamEnds'
    BY <1>1, <1>2, <1>5, <1>6 DEF StreamEnds
  <1> QED BY <1>5, <1>7, <1>8, <1>9 DEF StreamInvariant

\* NotifyComplete, when what it reports is so.
LEMMA StreamCompletes ==
  ASSUME StreamInvariant, completed = "no", NEW error \in {"OK", "FAILED"},
         Streaming!NotifyComplete(error), client_gone' \in BOOLEAN, client_gone = TRUE => client_gone' = TRUE,
         ticks' \subseteq ticks,
         client_gone' = TRUE \/ (error = "OK" /\ stream = "ended") \/ (error = "FAILED" /\ stream = "failed"),
         UNCHANGED <<stream, buffered, produced, reading, from_loop, writing, body>>
  PROVE  StreamInvariant'
  <1>1. StreamTypes /\ StreamOrder /\ StreamFlags /\ StreamEnds
    BY StreamAlive DEF Streaming!Alive
  <1>2. StreamOrder'
    BY <1>1, StreamOrderKept
  <1>3. CASE flags \cap {"is_reading", "is_writing"} # {}
    <2>1. flags' = flags \cup {"ended"} /\ end_result' = error /\ completed' = completed
      BY <1>3 DEF Streaming!NotifyComplete
    <2>2. StreamTypes' /\ StreamDone'
      BY <1>1, <2>1 DEF StreamTypes, StreamDone, Streaming!Flags
    <2>3. StreamFlags'
      BY <1>1, <2>1 DEF StreamFlags, Streaming!NoRead
    <2>4. StreamEnds'
      BY <1>1, <2>1 DEF StreamEnds
    <2> QED BY <1>2, <2>2, <2>3, <2>4 DEF StreamInvariant
  <1>4. CASE flags \cap {"is_reading", "is_writing"} = {}
    <2>1. completed' = error /\ flags' = flags /\ end_result' = end_result
      BY <1>4 DEF Streaming!NotifyComplete
    <2>2. reading = Streaming!NoRead /\ writing = <<>>
      BY <1>1, <1>4 DEF StreamFlags
    <2>3. ReadLength = 0 /\ Len(writing) = 0 /\ Len(body) \in Nat
      BY <1>1, <2>2, StreamLengths DEF ReadLength
    <2>4. stream = "ended" => Len(body) = produced
      <3>1. stream = "ended" => Len(buffered) = 0
        BY <1>1, StreamLengths DEF StreamEnds
      <3> QED BY <1>1, <2>3, <3>1 DEF StreamOrder
    <2>5. StreamTypes'
      BY <1>1, <2>1 DEF StreamTypes
    <2>6. StreamDone'
      BY <1>1, <2>1, <2>4 DEF StreamDone
    <2> QED BY <2>1, <2>5, <2>6 DEF StreamInvariant
  <1> QED BY <1>3, <1>4

LEMMA StreamOnEnd ==
  ASSUME StreamInvariant, Streaming!OnEnd("end", "OK") \/ Streaming!OnEnd("error", "FAILED")
  PROVE  StreamInvariant'
  <1> USE DEF Streaming!OnEnd, Streaming!Running, Streaming!emitterVars, Streaming!readVars
  <1>1. completed = "no" /\ ticks' \subseteq ticks
        /\ UNCHANGED <<stream, buffered, produced, reading, from_loop, writing, body, client_gone>>
    BY DEF Streaming!Alive
  <1>2. StreamTypes /\ StreamEnds
    BY StreamAlive
  <1>3. client_gone' \in BOOLEAN /\ (client_gone = TRUE => client_gone' = TRUE)
    BY <1>1, <1>2 DEF StreamTypes
  <1>4. CASE Streaming!OnEnd("end", "OK")
    <2>1. stream = "ended" /\ Streaming!NotifyComplete("OK")
      BY <1>2, <1>4 DEF StreamEnds
    <2> QED BY <1>1, <1>3, <2>1, StreamCompletes
  <1>5. CASE Streaming!OnEnd("error", "FAILED")
    <2>1. stream = "failed" /\ Streaming!NotifyComplete("FAILED")
      BY <1>2, <1>5 DEF StreamEnds
    <2> QED BY <1>1, <1>3, <2>1, StreamCompletes
  <1> QED BY <1>4, <1>5

LEMMA StreamDisconnect == ASSUME StreamInvariant, Streaming!OnDisconnect PROVE StreamInvariant'
  <1>1. /\ completed = "no" /\ ticks' \subseteq ticks /\ client_gone' = TRUE
        /\ Streaming!NotifyComplete("FAILED")
        /\ UNCHANGED <<stream, buffered, produced, reading, from_loop, writing, body>>
    BY DEF Streaming!OnDisconnect, Streaming!Alive, Streaming!emitterVars, Streaming!readVars
  <1>2. client_gone' \in BOOLEAN /\ (client_gone = TRUE => client_gone' = TRUE)
    BY <1>1
  <1> QED BY <1>1, <1>2, StreamCompletes

LEMMA StreamReadBuffer == ASSUME StreamInvariant, Streaming!ReadReturnsBuffer PROVE StreamInvariant'
  <1>1. /\ completed = "no" /\ reading # Streaming!NoRead /\ reading # <<>>
        /\ writing' = reading /\ reading' = Streaming!NoRead
        /\ flags' = (flags \ {"is_reading"}) \cup {"is_writing"}
                    \cup (IF from_loop THEN {} ELSE {"readable"})
        /\ UNCHANGED <<stream, buffered, produced, ticks, end_result, from_loop, body, completed,
                       client_gone>>
    BY DEF Streaming!ReadReturnsBuffer, Streaming!Alive, Streaming!emitterVars
  <1>2. StreamTypes /\ StreamOrder /\ StreamFlags /\ StreamEnds
    BY StreamAlive DEF Streaming!ReadReturnsBuffer
  <1>3. writing = <<>>
    BY <1>1, <1>2 DEF StreamFlags
  <1>4. Len(writing) = 0 /\ Len(body) \in Nat /\ Len(buffered) \in Nat /\ ReadLength \in Nat
    BY <1>2, <1>3, StreamLengths
  <1>5. ReadLength = Len(reading) /\ ReadLength' = 0
    BY <1>1 DEF ReadLength, Streaming!NoRead
  <1>6. Run(reading, Len(body)) /\ Run(buffered, Len(body) + Len(reading))
        /\ Len(body) + Len(reading) + Len(buffered) = produced
    BY <1>1, <1>2, <1>4, <1>5 DEF StreamOrder
  <1>7. StreamOrder'
    BY <1>1, <1>4, <1>5, <1>6 DEF StreamOrder, Streaming!NoRead
  <1>8. StreamTypes' /\ StreamDone'
    BY <1>1, <1>2 DEF StreamTypes, StreamDone, Streaming!Flags
  <1>9. StreamFlags'
    <2>1. "readable" \in flags'
      BY <1>1, <1>2 DEF StreamFlags, StreamTypes
    <2>2. "is_reading" \notin flags' /\ "is_writing" \in flags'
      BY <1>1
    <2> QED BY <1>1, <2>1, <2>2 DEF StreamFlags, Streaming!NoRead
  <1>10. StreamEnds'
    <2>1. "ended" \in flags' <=> "ended" \in flags
      BY <1>1
    <2> QED BY <1>1, <1>2, <2>1 DEF StreamEnds
  <1> QED BY <1>7, <1>8, <1>9, <1>10 DEF StreamInvariant

LEMMA StreamReadNothing == ASSUME StreamInvariant, Streaming!ReadReturnsNothing PROVE StreamInvariant'
  <1> USE DEF Streaming!ReadReturnsNothing
  <1>1. /\ completed = "no" /\ reading = <<>>
        /\ UNCHANGED <<end_result, from_loop, writing, body, client_gone>>
    BY DEF Streaming!Alive
  <1>2. StreamTypes /\ StreamOrder /\ StreamFlags /\ StreamEnds
    BY StreamAlive
  <1>3. reading # Streaming!NoRead /\ Len(<<>>) = 0
    BY <1>1, RunEmpty, RunFacts DEF Streaming!NoRead
  <1>4. writing = <<>> /\ "is_reading" \in flags
    BY <1>2, <1>3 DEF StreamFlags
  <1>5. ReadLength = 0
    BY <1>1, <1>3 DEF ReadLength
  <1>6. CASE "has_read_waiting" \in flags
    <2>1. flags' = flags \ {"has_read_waiting"} /\ Streaming!Read(ticks) /\ completed' = completed
      BY <1>6
    <2>2. StreamOrder' /\ reading' # Streaming!NoRead /\ buffered' = <<>>
      BY <1>1, <1>2, <1>5, <2>1, ReadKeeps
    <2>3. /\ stream' \in {"open", "ending", "ended", "failed"}
          /\ ticks' \subseteq {"readable", "end", "error"} /\ produced' = produced
          /\ "end" \in ticks' => stream' = "ended"
          /\ "error" \in ticks' => stream' = "failed"
          /\ stream = "ended" => stream' = "ended"
          /\ stream = "failed" => stream' = "failed"
      BY <1>2, <2>1, ReadEnds
    <2>4. StreamTypes' /\ StreamDone'
      BY <1>1, <1>2, <2>1, <2>3 DEF StreamTypes, StreamDone
    <2>5. StreamFlags'
      BY <1>1, <1>2, <1>3, <1>4, <2>1, <2>2 DEF StreamFlags, Streaming!NoRead
    <2>6. StreamEnds'
      BY <1>1, <1>2, <2>1, <2>2, <2>3 DEF StreamEnds
    <2> QED BY <2>2, <2>4, <2>5, <2>6 DEF StreamInvariant
  <1>7. CASE "has_read_waiting" \notin flags
    <2>1. /\ flags' = (flags \ {"is_reading", "readable"}) \cup (IF from_loop THEN {} ELSE {"readable"})
          /\ reading' = Streaming!NoRead
          /\ completed' = (IF "ended" \in flags THEN end_result ELSE completed)
          /\ UNCHANGED <<stream, buffered, produced, ticks>>
      BY <1>7 DEF Streaming!emitterVars
    <2>2. Len(body) \in Nat /\ Len(writing) = 0 /\ Len(buffered) \in Nat
      BY <1>2, <1>4, StreamLengths
    <2>3. ReadLength' = 0
      BY <2>1 DEF ReadLength, Streaming!NoRead
    <2>4. StreamOrder'
      BY <1>1, <1>2, <1>5, <2>1, <2>3 DEF StreamOrder, Streaming!NoRead
    <2>5. stream = "ended" => Len(body) = produced
      <3>1. stream = "ended" => Len(buffered) = 0
        BY <1>2, StreamLengths DEF StreamEnds
      <3> QED BY <1>2, <1>5, <2>2, <3>1 DEF StreamOrder
    <2>6. StreamTypes'
      BY <1>1, <1>2, <2>1 DEF StreamTypes, Streaming!Flags
    <2>7. StreamDone'
      BY <1>1, <1>2, <2>1, <2>5 DEF StreamDone, StreamEnds, StreamTypes
    <2>8. StreamFlags'
      <3>1. "is_reading" \notin flags' /\ ("is_writing" \in flags' <=> "is_writing" \in flags)
        BY <2>1
      <3> QED BY <1>1, <1>2, <1>4, <2>1, <3>1 DEF StreamFlags, Streaming!NoRead
    <2>9. StreamEnds'
      <3>1. "ended" \in flags' <=> "ended" \in flags
        BY <2>1
      <3> QED BY <1>1, <1>2, <2>1, <3>1 DEF StreamEnds
    <2> QED BY <2>4, <2>6, <2>7, <2>8, <2>9 DEF StreamInvariant
  <1> QED BY <1>6, <1>7

\* A write that is over, before DidWrite looks at what is next.
LEMMA StreamWritten ==
  ASSUME StreamTypes, StreamOrder, reading = Streaming!NoRead
  PROVE  /\ Run(body \o writing, 0) /\ Len(body \o writing) = Len(body) + Len(writing)
         /\ Run(buffered, Len(body \o writing)) /\ Len(body \o writing) + Len(buffered) = produced
         /\ Len(body \o writing) \in Nat /\ Len(buffered) \in Nat
         /\ (buffered = <<>> <=> Len(buffered) = 0) /\ buffered # Streaming!NoRead
  <1>1. /\ Len(body) \in Nat /\ Len(writing) \in Nat /\ Len(buffered) \in Nat
        /\ (buffered = <<>> <=> Len(buffered) = 0) /\ buffered # Streaming!NoRead
    BY StreamLengths
  <1>2. Len(body) = 0 + Len(body)
    BY <1>1
  <1>3. Run(body \o writing, 0) /\ Len(body \o writing) = Len(body) + Len(writing)
    BY <1>1, <1>2, RunConcat DEF StreamTypes, StreamOrder
  <1>4. ReadLength = 0
    BY DEF ReadLength
  <1> QED BY <1>1, <1>3, <1>4 DEF StreamOrder

LEMMA StreamDidWrite == ASSUME StreamInvariant, Streaming!DidWrite PROVE StreamInvariant'
  <1> USE DEF Streaming!DidWrite, Streaming!emitterVars, Streaming!readVars
  <1>1. /\ completed = "no" /\ reading = Streaming!NoRead /\ writing # <<>>
        /\ body' = body \o writing /\ writing' = <<>> /\ UNCHANGED <<end_result, client_gone>>
    BY DEF Streaming!Alive
  <1>2. StreamTypes /\ StreamOrder /\ StreamFlags /\ StreamEnds
    BY StreamAlive
  <1>3. /\ Run(body', 0) /\ Run(buffered, Len(body')) /\ Len(body') + Len(buffered) = produced
        /\ Len(body') \in Nat /\ Len(buffered) \in Nat
        /\ (buffered = <<>> <=> Len(buffered) = 0) /\ buffered # Streaming!NoRead
    BY <1>1, <1>2, StreamWritten
  <1>4. "readable" \in flags /\ "is_reading" \notin flags
    BY <1>1, <1>2 DEF StreamFlags
  <1>5. CASE "ended" \in flags
    <2>1. /\ completed' = end_result /\ flags' = flags \ {"is_writing"}
          /\ UNCHANGED <<stream, buffered, produced, ticks, reading, from_loop>>
      BY <1>5
    <2>2. StreamTypes'
      BY <1>1, <1>2, <1>3, <2>1 DEF StreamTypes
    <2>3. stream = "ended" => Len(body') = produced
      BY <1>2, <1>3 DEF StreamEnds
    <2>4. StreamDone'
      BY <1>1, <1>2, <1>5, <2>1, <2>3 DEF StreamDone, StreamEnds, StreamTypes
    <2>5. completed' \notin {"new", "no"}
      BY <1>2, <2>1 DEF StreamTypes
    <2> QED BY <2>2, <2>4, <2>5 DEF StreamInvariant
  <1>6. CASE "ended" \notin flags
    <2>1. /\ flags' = (flags \ {"is_writing"}) \cup {"is_reading"} /\ from_loop' = TRUE
          /\ Streaming!Read(ticks) /\ completed' = completed
      BY <1>4, <1>6
    <2>2. reading' = buffered /\ buffered' = <<>> /\ produced' = produced
      BY <2>1 DEF Streaming!Read
    <2>3. /\ stream' \in {"open", "ending", "ended", "failed"}
          /\ ticks' \subseteq {"readable", "end", "error"} /\ produced' = produced
          /\ "end" \in ticks' => stream' = "ended"
          /\ "error" \in ticks' => stream' = "failed"
          /\ stream = "ended" => stream' = "ended"
          /\ stream = "failed" => stream' = "failed"
      BY <1>2, <2>1, ReadEnds
    <2>4. StreamOrder'
      <3>1. ReadLength' = Len(buffered) /\ Len(<<>>) = 0
        BY <1>3, <2>2 DEF ReadLength, Streaming!NoRead
      <3>2. Run(<<>>, Len(body'))  /\ Run(<<>>, Len(body') + Len(buffered))
        BY <1>3, RunEmpty
      <3> QED BY <1>1, <1>3, <2>2, <3>1, <3>2 DEF StreamOrder, Streaming!NoRead
    <2>5. StreamTypes' /\ StreamDone'
      BY <1>1, <1>2, <1>3, <2>1, <2>3 DEF StreamTypes, StreamDone, Streaming!Flags
    <2>6. StreamFlags'
      BY <1>1, <1>3, <1>4, <2>1, <2>2 DEF StreamFlags, Streaming!NoRead
    <2>7. StreamEnds'
      BY <1>1, <1>2, <1>6, <2>1, <2>2, <2>3 DEF StreamEnds
    <2> QED BY <2>4, <2>5, <2>6, <2>7 DEF StreamInvariant
  <1> QED BY <1>5, <1>6

LEMMA StreamDidNotWrite == ASSUME StreamInvariant, Streaming!DidNotWrite PROVE StreamInvariant'
  <1>1. /\ completed = "no" /\ client_gone' = TRUE /\ flags' = flags \ {"is_writing"}
        /\ completed' = (IF "ended" \in flags THEN end_result ELSE "FAILED")
        /\ UNCHANGED <<stream, buffered, produced, ticks, end_result, reading, from_loop, body>>
    BY DEF Streaming!DidNotWrite, Streaming!Alive, Streaming!emitterVars, Streaming!readVars
  <1>2. StreamTypes
    BY StreamAlive DEF Streaming!DidNotWrite
  <1>3. StreamTypes' /\ StreamDone' /\ completed' \notin {"new", "no"}
    BY <1>1, <1>2 DEF StreamTypes, StreamDone
  <1> QED BY <1>3 DEF StreamInvariant

LEMMA StreamStep == StreamInvariant /\ Streaming!Next => StreamInvariant'
  BY StreamStart, StreamPush, StreamPushEnd, StreamFail, StreamDisconnect, StreamSkip, StreamReads,
     StreamNotify, StreamOnEnd, StreamReadBuffer, StreamReadNothing, StreamDidWrite,
     StreamDidNotWrite
     DEF Streaming!Next, Streaming!Work, Streaming!Emit

LEMMA StreamStutter == StreamInvariant /\ Streaming!NoStep => StreamInvariant'
  <1> SUFFICES ASSUME StreamInvariant, Streaming!NoStep PROVE StreamInvariant'
    OBVIOUS
  <1>1. UNCHANGED <<stream, buffered, produced, ticks, flags, end_result, reading, from_loop,
                    writing, body, completed, client_gone>>
    BY DEF Streaming!NoStep, Streaming!streamVars, Streaming!emitterVars, Streaming!readVars
  <1>2. StreamTypes' /\ StreamDone'
    BY <1>1 DEF StreamInvariant, StreamTypes, StreamDone
  <1>3. StreamOrder => StreamOrder'
    BY <1>1, StreamOrderKept
  <1>4. (StreamFlags => StreamFlags') /\ (StreamEnds => StreamEnds')
    BY <1>1 DEF StreamFlags, StreamEnds
  <1> QED BY <1>1, <1>2, <1>3, <1>4 DEF StreamInvariant

LEMMA StreamSafe == StreamInvariant => Streaming!BodyIsComplete
  <1> SUFFICES ASSUME StreamInvariant PROVE Streaming!BodyIsComplete
    OBVIOUS
  <1>1. \A i \in DOMAIN body : body[i] = i
    <2>1. \A i \in DOMAIN body : body[i] = 0 + i
      BY RunFacts DEF StreamInvariant, StreamTypes
    <2>2. \A i \in DOMAIN body : i \in Nat
      BY DEF StreamInvariant, StreamTypes, Run
    <2> QED BY <2>1, <2>2
  <1> QED BY <1>1 DEF Streaming!BodyIsComplete, StreamInvariant, StreamDone
-----------------------------------------------------------------------------
(* The net request.  The chunks that the network service has read are      *)
(* among those that were written, in order; bytes_written_ counts all of   *)
(* them, so a size that is as large as what was read is the size of all.   *)

\* s climbs from at least 1 to at most n.
Climbs(s, n) ==
    /\ s \in Seq(Nat) /\ Len(s) <= n
    /\ \A i \in 1..Len(s) : i <= s[i] /\ s[i] <= (n - Len(s)) + i

LEMMA ClimbsEmpty == ASSUME NEW n \in Nat PROVE Climbs(<<>>, n)
  BY DEF Climbs

LEMMA ClimbsMore ==
  ASSUME NEW s, NEW n \in Int, NEW m \in Int, Climbs(s, n), n <= m
  PROVE  Climbs(s, m) /\ 0 <= n
  <1>1. s \in Seq(Nat) /\ Len(s) \in Nat /\ \A i \in 1..Len(s) : s[i] \in Nat
    BY DEF Climbs
  <1> QED BY <1>1 DEF Climbs

LEMMA ClimbsAppend ==
  ASSUME NEW s, NEW n \in Nat, Climbs(s, n - 1)
  PROVE  Climbs(Append(s, n), n)
  <1>1. s \in Seq(Nat) /\ Len(s) \in Nat /\ \A i \in 1..Len(s) : s[i] \in Nat
    BY DEF Climbs
  <1> DEFINE t == Append(s, n)
  <1>2. /\ t \in Seq(Nat) /\ Len(t) = Len(s) + 1 /\ t[Len(s) + 1] = n
        /\ \A i \in 1..Len(s) : t[i] = s[i]
    BY <1>1
  <1> HIDE DEF t
  <1>3. Len(s) <= n - 1 /\ \A i \in 1..Len(s) : i <= s[i] /\ s[i] <= ((n - 1) - Len(s)) + i
    BY DEF Climbs
  <1>4. ASSUME NEW i \in 1..Len(t) PROVE i <= t[i] /\ t[i] <= (n - Len(t)) + i
    <2>1. CASE i \in 1..Len(s)
      <3>1. t[i] = s[i] /\ s[i] \in Nat /\ i <= s[i] /\ s[i] <= ((n - 1) - Len(s)) + i
        BY <1>1, <1>2, <1>3, <2>1
      <3>2. (n - Len(t)) + i = ((n - 1) - Len(s)) + i
        BY <1>1, <1>2
      <3> QED BY <3>1, <3>2
    <2>2. CASE i = Len(s) + 1
      BY <1>1, <1>2, <1>3, <2>2
    <2> QED BY <1>1, <1>2, <2>1, <2>2
  <1>5. Climbs(t, n)
    BY <1>1, <1>2, <1>3, <1>4 DEF Climbs
  <1> QED BY <1>5 DEF t

LEMMA ClimbsAll ==
  ASSUME NEW s, NEW n \in Nat, NEW m \in Int, m <= n, Climbs(s, m), Len(s) = n
  PROVE  s = [i \in 1..n |-> i]
  <1>1. /\ s \in Seq(Nat) /\ DOMAIN s = 1..n /\ \A i \in 1..n : s[i] \in Nat
        /\ \A i \in 1..n : i <= s[i] /\ s[i] <= (m - n) + i
    BY DEF Climbs
  <1>2. \A i \in 1..n : s[i] = i
    BY <1>1
  <1>3. s = [i \in DOMAIN s |-> s[i]]
    BY <1>1
  <1> QED BY <1>1, <1>2, <1>3

Pending == IF writer \in {"first", "later"} THEN 1 ELSE 0
NetTypes ==
    /\ chunks \in Nat /\ bytes_written \in Nat /\ upload_size \in Int
    /\ writer \in {"idle", "first", "later", "stuck"}
    /\ ended \in BOOLEAN /\ downstream \in BOOLEAN /\ is_writing \in BOOLEAN /\ finished \in BOOLEAN
NetWriter ==
    /\ is_writing = TRUE => downstream = TRUE
    /\ writer = "idle" => is_writing = FALSE
    /\ ended = TRUE => writer = "idle"
    /\ writer = "first" /\ downstream = FALSE => bytes_written + 1 = chunks
    /\ (writer = "first" /\ downstream = TRUE) \/ writer \in {"idle", "later"} => bytes_written = chunks
    /\ downstream = FALSE /\ writer = "idle" => url_loader = "none"
NetUploaded == Climbs(uploaded, chunks - Pending)
NetWhole ==
    /\ upload_size # -1 => ended = TRUE /\ finished = TRUE /\ upload_size = chunks
    /\ upload = "whole" => ended = TRUE /\ finished = TRUE /\ uploaded = [i \in 1..chunks |-> i]
UploadInvariant == NetTypes /\ NetWriter /\ NetUploaded /\ NetWhole

LEMMA UploadInit == Requesting!Init => UploadInvariant
  <1> SUFFICES ASSUME Requesting!Init PROVE UploadInvariant
    OBVIOUS
  <1>1. /\ chunks = 0 /\ writer = "idle" /\ ended = FALSE /\ downstream = FALSE
        /\ is_writing = FALSE /\ bytes_written = 0 /\ finished = FALSE
        /\ upload = "none" /\ upload_size = -1 /\ uploaded = <<>> /\ url_loader = "none"
    BY DEF Requesting!Init, Requesting!NoSize
  <1>2. NetTypes
    <2>1. ended \in BOOLEAN /\ downstream \in BOOLEAN /\ is_writing \in BOOLEAN /\ finished \in BOOLEAN
      BY <1>1
    <2>2. chunks \in Nat /\ bytes_written \in Nat /\ upload_size \in Int
          /\ writer \in {"idle", "first", "later", "stuck"}
      BY <1>1
    <2> QED BY <2>1, <2>2 DEF NetTypes
  <1>3. Pending = 0
    BY <1>1 DEF Pending
  <1>4. NetUploaded
    BY <1>1, <1>3, ClimbsEmpty DEF NetUploaded
  <1> QED BY <1>1, <1>2, <1>4 DEF UploadInvariant, NetWriter, NetWhole

\* A chunk is pending only if there is one.
LEMMA PendingFacts ==
  ASSUME NetTypes, NetUploaded
  PROVE  Pending \in {0, 1} /\ chunks - Pending \in Nat
  <1>1. Pending \in {0, 1}
    BY DEF Pending
  <1>2. chunks - Pending \in Int
    BY <1>1 DEF NetTypes
  <1>3. 0 <= chunks - Pending
    BY <1>2, ClimbsMore DEF NetUploaded
  <1> QED BY <1>1, <1>2, <1>3

\* The end of the request, and whatever else leaves the body alone.
LEMMA UploadKept ==
  ASSUME UploadInvariant, upload' \in {upload, "failed"}, url_loader = "none" => url_loader' = "none",
         UNCHANGED <<chunks, writer, ended, downstream, is_writing, bytes_written, finished,
                     upload_size, uploaded>>
  PROVE  UploadInvariant'
  BY DEF UploadInvariant, NetTypes, NetWriter, NetUploaded, NetWhole, Pending

\* WriteChunk from a state in which the getter has written all but the chunk.
LEMMA WriteChunkFacts ==
  ASSUME NEW how \in {"first", "later"}, Requesting!WriteChunk(how), NetTypes
  PROVE  \/ writer' = "stuck" /\ is_writing' = is_writing /\ bytes_written' = bytes_written
         \/ writer' = how /\ is_writing' = TRUE /\ bytes_written' = bytes_written + 1
  BY DEF Requesting!WriteChunk, Requesting!WriteFails

LEMMA UploadWrite == ASSUME UploadInvariant, Requesting!Write PROVE UploadInvariant'
  <1> USE DEF Requesting!Write
  <1>1. /\ ended = FALSE /\ writer = "idle" /\ chunks' = chunks + 1
        /\ UNCHANGED <<ended, downstream, finished, upload_size, uploaded>>
    BY DEF Requesting!Destroyed, UploadInvariant, NetTypes
  <1>2. NetTypes /\ NetWriter /\ NetUploaded /\ NetWhole
    BY DEF UploadInvariant
  <1>3. chunks \in Nat /\ Pending = 0 /\ bytes_written = chunks /\ is_writing = FALSE
    BY <1>1, <1>2 DEF NetTypes, NetWriter, Pending
  <1>4. upload' \in {upload, "reading"}
    OBVIOUS
  <1>5. NetWhole'
    BY <1>1, <1>2, <1>4 DEF NetWhole
  <1>6. \/ /\ writer' = "stuck" /\ is_writing' = is_writing /\ bytes_written' = bytes_written
        \/ /\ writer' = "later" /\ is_writing' = TRUE /\ bytes_written' = bytes_written + 1
           /\ downstream = TRUE
        \/ /\ writer' = "first" /\ is_writing' = is_writing /\ bytes_written' = bytes_written
           /\ downstream = FALSE
    <2>1. CASE downstream
      <3>1. Requesting!WriteChunk("later")
        BY <2>1
      <3> QED BY <1>2, <2>1, <3>1, WriteChunkFacts
    <2>2. CASE ~downstream
      BY <1>2, <2>2 DEF NetTypes
    <2> QED BY <2>1, <2>2
  <1>7. NetTypes' /\ NetWriter'
    <2>1. is_writing' \in BOOLEAN
      BY <1>3, <1>6
    <2>2. /\ bytes_written' \in Nat /\ chunks' \in Nat
          /\ writer' \in {"stuck", "later", "first"}
      BY <1>1, <1>3, <1>6
    <2>3. NetTypes'
      BY <1>1, <1>2, <2>1, <2>2 DEF NetTypes
    <2>4. NetWriter'
      BY <1>1, <1>3, <1>6 DEF NetWriter
    <2> QED BY <2>3, <2>4
  <1>8. NetUploaded'
    <2>1. Pending' \in {0, 1} /\ chunks' - Pending' \in Int /\ chunks - Pending <= chunks' - Pending'
          /\ chunks - Pending \in Int
      BY <1>1, <1>3 DEF Pending
    <2>2. Climbs(uploaded, chunks' - Pending')
      BY <1>2, <2>1, ClimbsMore DEF NetUploaded
    <2> QED BY <1>1, <2>2 DEF NetUploaded
  <1> QED BY <1>5, <1>7, <1>8 DEF UploadInvariant

LEMMA UploadFinal == ASSUME UploadInvariant, Requesting!Final PROVE UploadInvariant'
  <1>1. /\ ended = FALSE /\ writer = "idle" /\ ended' = TRUE
        /\ \/ finished' = TRUE /\ upload_size' \in {bytes_written, upload_size}
           \/ UNCHANGED <<finished, upload_size>>
        /\ UNCHANGED <<chunks, writer, downstream, is_writing, bytes_written, upload, uploaded,
                       url_loader>>
    BY DEF Requesting!Final, Requesting!Finished, Requesting!Destroyed, UploadInvariant, NetTypes
  <1>2. NetTypes /\ NetWriter /\ NetUploaded /\ NetWhole
    BY DEF UploadInvariant
  <1>3. upload_size = -1 /\ upload # "whole" /\ bytes_written = chunks
    BY <1>1, <1>2 DEF NetWhole, NetWriter
  <1>4. NetTypes' /\ NetWriter'
    <2>1. ended' \in BOOLEAN /\ finished' \in BOOLEAN
      BY <1>1, <1>2 DEF NetTypes
    <2>2. upload_size' \in Int
      BY <1>1, <1>2 DEF NetTypes
    <2>3. NetTypes'
      BY <1>1, <1>2, <2>1, <2>2 DEF NetTypes
    <2> QED BY <1>1, <1>2, <2>3 DEF NetWriter
  <1>5. NetUploaded'
    BY <1>1, <1>2 DEF NetUploaded, Pending
  <1>6. NetWhole'
    BY <1>1, <1>2, <1>3 DEF NetWhole
  <1> QED BY <1>4, <1>5, <1>6 DEF UploadInvariant

LEMMA UploadStartReading == ASSUME UploadInvariant, Requesting!StartReading PROVE UploadInvariant'
  <1> USE DEF Requesting!StartReading
  <1>1. /\ downstream' = TRUE
        /\ UNCHANGED <<chunks, ended, finished, upload, upload_size, uploaded, url_loader>>
    BY DEF Requesting!networkVars
  <1>2. NetTypes /\ NetWriter /\ NetUploaded /\ NetWhole
    BY DEF UploadInvariant
  <1>3. \/ /\ writer = "first" /\ downstream = FALSE
           /\ \/ writer' = "stuck" /\ is_writing' = is_writing /\ bytes_written' = bytes_written
              \/ writer' = "first" /\ is_writing' = TRUE /\ bytes_written' = bytes_written + 1
        \/ /\ ~(writer = "first" /\ downstream = FALSE)
           /\ writer' = (IF is_writing THEN "stuck" ELSE writer)
           /\ UNCHANGED <<is_writing, bytes_written>>
    <2>1. CASE ~downstream /\ writer = "first"
      <3>1. Requesting!WriteChunk("first")
        BY <2>1
      <3> QED BY <1>2, <2>1, <3>1, WriteChunkFacts DEF NetTypes
    <2>2. CASE ~(~downstream /\ writer = "first")
      BY <1>2, <2>2 DEF NetTypes
    <2> QED BY <2>1, <2>2
  <1>4. NetTypes' /\ NetWriter'
    BY <1>1, <1>2, <1>3 DEF NetTypes, NetWriter
  <1>5. NetUploaded'
    <2>1. Pending' \in {0, 1} /\ chunks' - Pending' \in Int /\ chunks - Pending <= chunks' - Pending'
          /\ chunks - Pending \in Int
      BY <1>1, <1>2, <1>3 DEF Pending, NetTypes
    <2>2. Climbs(uploaded, chunks' - Pending')
      BY <1>2, <2>1, ClimbsMore DEF NetUploaded
    <2> QED BY <1>1, <2>2 DEF NetUploaded
  <1>6. NetWhole'
    BY <1>1, <1>2 DEF NetWhole
  <1> QED BY <1>4, <1>5, <1>6 DEF UploadInvariant

LEMMA UploadWritten == ASSUME UploadInvariant, Requesting!OnWriteChunkComplete PROVE UploadInvariant'
  <1> USE DEF Requesting!OnWriteChunkComplete
  <1>1. /\ is_writing = TRUE /\ writer \in {"first", "later"} /\ is_writing' = FALSE
        /\ UNCHANGED <<chunks, ended, downstream, bytes_written, upload, upload_size, url_loader>>
    BY DEF UploadInvariant, NetTypes
  <1>2. NetTypes /\ NetWriter /\ NetUploaded /\ NetWhole
    BY DEF UploadInvariant
  <1>3. ended = FALSE /\ downstream = TRUE /\ bytes_written = chunks /\ upload_size = -1
        /\ upload # "whole" /\ Pending = 1 /\ chunks - 1 \in Nat /\ chunks \in Nat
    <2>1. ended = FALSE /\ downstream = TRUE /\ bytes_written = chunks
      BY <1>1, <1>2 DEF NetTypes, NetWriter
    <2>2. Pending = 1
      BY <1>1 DEF Pending
    <2> QED BY <1>2, <2>1, <2>2, PendingFacts DEF NetWhole, NetTypes
  <1>4. \/ writer' = "idle" /\ uploaded' = Append(uploaded, chunks) /\ finished' = finished
        \/ writer' = "stuck" /\ uploaded' = uploaded /\ finished' = TRUE
    BY DEF Requesting!WriteFails, Requesting!Finished
  <1>5. NetTypes' /\ NetWriter'
    BY <1>1, <1>2, <1>3, <1>4 DEF NetTypes, NetWriter
  <1>6. NetWhole'
    BY <1>1, <1>3 DEF NetWhole
  <1>7. NetUploaded'
    <2>1. Pending' = 0 /\ chunks' - Pending' = chunks
      BY <1>1, <1>3, <1>4 DEF Pending
    <2>2. Climbs(uploaded, chunks - 1)
      BY <1>2, <1>3 DEF NetUploaded
    <2>3. Climbs(Append(uploaded, chunks), chunks)
      BY <1>3, <2>2, ClimbsAppend
    <2>4. Climbs(uploaded, chunks)
      BY <1>3, <2>2, ClimbsMore
    <2> QED BY <1>4, <2>1, <2>3, <2>4 DEF NetUploaded
  <1> QED BY <1>5, <1>6, <1>7 DEF UploadInvariant

LEMMA UploadUploadEnds == ASSUME UploadInvariant, Requesting!UploadEnds PROVE UploadInvariant'
  <1>1. /\ finished /\ upload' = (IF upload_size = Len(uploaded) THEN "whole" ELSE "failed")
        /\ UNCHANGED <<chunks, writer, ended, downstream, is_writing, bytes_written, finished,
                       upload_size, uploaded, url_loader>>
    BY DEF Requesting!UploadEnds, Requesting!uploadVars
  <1>2. NetTypes /\ NetWriter /\ NetUploaded /\ NetWhole
    BY DEF UploadInvariant
  <1>3. CASE upload_size = Len(uploaded)
    <2>1. Len(uploaded) \in Nat /\ chunks \in Nat
      BY <1>2 DEF NetUploaded, Climbs, NetTypes
    <2>2. upload_size # -1
      BY <1>3, <2>1
    <2>3. ended = TRUE /\ finished = TRUE /\ Len(uploaded) = chunks
      BY <1>2, <1>3, <2>2 DEF NetWhole
    <2>4. chunks - Pending \in Int /\ chunks - Pending <= chunks
      BY <1>2, <2>1, PendingFacts
    <2>5. uploaded = [i \in 1..chunks |-> i]
      BY <1>2, <2>1, <2>3, <2>4, ClimbsAll DEF NetUploaded
    <2>6. NetWhole'
      BY <1>1, <1>2, <2>3, <2>5 DEF NetWhole
    <2>7. NetTypes' /\ NetWriter' /\ NetUploaded'
      BY <1>1, <1>2 DEF NetTypes, NetWriter, NetUploaded, Pending
    <2> QED BY <2>6, <2>7 DEF UploadInvariant
  <1>4. CASE upload_size # Len(uploaded)
    BY <1>1, <1>4, UploadKept
  <1> QED BY <1>3, <1>4

LEMMA UploadReadsAgain == ASSUME UploadInvariant, Requesting!ReadsAgain PROVE UploadInvariant'
  <1> USE DEF Requesting!ReadsAgain
  <1>1. UNCHANGED <<chunks, writer, ended, downstream, is_writing, bytes_written, finished,
                    upload_size, url_loader>>
    OBVIOUS
  <1>2. NetTypes /\ NetWriter /\ NetUploaded /\ NetWhole
    BY DEF UploadInvariant
  <1>3. CASE finished
    <2>1. upload' = "failed" /\ uploaded' = uploaded
      BY <1>3
    <2> QED BY <1>1, <2>1, UploadKept
  <1>4. CASE ~finished
    <2>1. upload' = "reading" /\ uploaded' = <<>>
      BY <1>4
    <2>2. NetTypes' /\ NetWriter'
      BY <1>1, <1>2 DEF NetTypes, NetWriter
    <2>3. NetWhole'
      BY <1>1, <1>2, <2>1 DEF NetWhole
    <2>4. chunks' - Pending' = chunks - Pending /\ chunks - Pending \in Nat
      BY <1>1, <1>2, PendingFacts DEF Pending
    <2>5. NetUploaded'
      BY <2>1, <2>4, ClimbsEmpty DEF NetUploaded
    <2> QED BY <2>2, <2>3, <2>5 DEF UploadInvariant
  <1> QED BY <1>3, <1>4

\* The rest of the steps leave the body alone.
LEMMA DieKeeps ==
  ASSUME Requesting!Die
  PROVE  /\ upload' \in {upload, "failed"} /\ UNCHANGED <<upload_size, uploaded>>
         /\ (url_loader = "none" => url_loader' = "none") /\ (url_loader = "null" => url_loader' = "null")
         /\ UNCHANGED <<data, loaded, consumed>>
  BY DEF Requesting!Die, Requesting!DropLoader, Requesting!networkVars

LEMMA UploadStep == UploadInvariant /\ Requesting!Next => UploadInvariant'
  <1> SUFFICES ASSUME UploadInvariant, Requesting!Next PROVE UploadInvariant'
    OBVIOUS
  <1>1. CASE Requesting!Abort \/ Requesting!OnError
    <2>1. Requesting!Die
      BY <1>1 DEF Requesting!Abort, Requesting!OnError
    <2>2. UNCHANGED <<chunks, writer, ended, downstream, is_writing, bytes_written, finished>>
      BY <1>1 DEF Requesting!Abort, Requesting!OnError, Requesting!uploadVars
    <2> QED BY <2>1, <2>2, DieKeeps, UploadKept
  <1>2. CASE Requesting!ChallengeLost \/ Requesting!OnComplete
    BY <1>2, UploadKept DEF Requesting!ChallengeLost, Requesting!OnComplete, Requesting!DropLoader,
       Requesting!uploadVars
  <1>3. CASE \/ Requesting!OnResponseStarted \/ Requesting!Read \/ Requesting!OnDataReceived
             \/ Requesting!ResumeReturns \/ Requesting!GetSize
    BY <1>3, UploadKept DEF Requesting!OnResponseStarted, Requesting!Read, Requesting!OnDataReceived,
       Requesting!ResumeReturns, Requesting!GetSize, Requesting!uploadVars, Requesting!networkVars
  <1> QED BY <1>1, <1>2, <1>3, UploadWrite, UploadFinal, UploadStartReading, UploadWritten,
             UploadUploadEnds, UploadReadsAgain
             DEF Requesting!Next, Requesting!Getter, Requesting!Loader

LEMMA UploadStutter == UploadInvariant /\ Requesting!NoStep => UploadInvariant'
  BY UploadKept DEF Requesting!NoStep, Requesting!netVars, Requesting!uploadVars,
     Requesting!networkVars

-----------------------------------------------------------------------------
(* The response of a net request.  What the readers were given and what    *)
(* IncomingMessage keeps for them are, together, the chunks that were      *)
(* received, and the end after the last, once the loader is gone.          *)

\* The pieces of a response, from the one after offset on.
Piece(j) == IF j <= MaxDown THEN j ELSE 0
Pieces(s, offset) == s \in Seq(Nat) /\ \A i \in 1..Len(s) : s[i] = Piece(offset + i)

LEMMA PiecesAppend ==
  ASSUME NEW s, NEW offset \in Nat, Pieces(s, offset), NEW e, e = Piece(offset + Len(s) + 1)
  PROVE  Pieces(Append(s, e), offset) /\ Len(Append(s, e)) = Len(s) + 1
  <1>1. s \in Seq(Nat) /\ Len(s) \in Nat /\ e \in Nat
    BY DEF Pieces, Piece
  <1> DEFINE t == Append(s, e)
  <1>2. /\ t \in Seq(Nat) /\ Len(t) = Len(s) + 1 /\ t[Len(s) + 1] = e
        /\ \A i \in 1..Len(s) : t[i] = s[i]
    BY <1>1
  <1> HIDE DEF t
  <1>3. ASSUME NEW i \in 1..Len(t) PROVE t[i] = Piece(offset + i)
    <2>1. CASE i \in 1..Len(s)
      BY <1>2, <2>1 DEF Pieces
    <2>2. CASE i = Len(s) + 1
      BY <1>1, <1>2, <2>2
    <2> QED BY <1>1, <1>2, <2>1, <2>2
  <1>4. Pieces(t, offset)
    BY <1>2, <1>3 DEF Pieces
  <1> QED BY <1>2, <1>4 DEF t

LEMMA ConcatFacts ==
  ASSUME NEW a \in Seq(Nat), NEW b \in Seq(Nat)
  PROVE  /\ a \o b \in Seq(Nat) /\ Len(a \o b) = Len(a) + Len(b)
         /\ \A i \in 1..Len(a) : (a \o b)[i] = a[i]
         /\ \A i \in 1..Len(b) : (a \o b)[Len(a) + i] = b[i]
  <1>1. Len(a) \in Nat /\ Len(b) \in Nat
    OBVIOUS
  <1> QED BY <1>1

LEMMA PiecesMove ==
  ASSUME NEW c, NEW q, Pieces(c, 0), Pieces(q, Len(c)), NEW k \in 0..Len(q)
  PROVE  /\ Pieces(c \o SubSeq(q, 1, k), 0) /\ Len(c \o SubSeq(q, 1, k)) = Len(c) + k
         /\ Pieces(SubSeq(q, k + 1, Len(q)), Len(c) + k) /\ Len(SubSeq(q, k + 1, Len(q))) = Len(q) - k
  <1>1. c \in Seq(Nat) /\ q \in Seq(Nat) /\ Len(c) \in Nat /\ Len(q) \in Nat /\ k \in Nat /\ k <= Len(q)
    BY DEF Pieces
  <1> DEFINE a == SubSeq(q, 1, k)
             b == SubSeq(q, k + 1, Len(q))
             t == c \o a
  <1>2. a \in Seq(Nat) /\ Len(a) = k /\ \A i \in 1..k : a[i] = q[i]
    BY <1>1
  <1>3. b \in Seq(Nat) /\ Len(b) = Len(q) - k /\ \A i \in 1..(Len(q) - k) : b[i] = q[k + i]
    BY <1>1
  <1> HIDE DEF a, b
  <1>4. /\ t \in Seq(Nat) /\ Len(t) = Len(c) + k
        /\ \A i \in 1..Len(c) : t[i] = c[i]
        /\ \A i \in 1..k : t[Len(c) + i] = a[i]
    <2>1. /\ t \in Seq(Nat) /\ Len(t) = Len(c) + Len(a)
          /\ \A i \in 1..Len(c) : t[i] = c[i]
          /\ \A i \in 1..Len(a) : t[Len(c) + i] = a[i]
      BY <1>1, <1>2, ConcatFacts
    <2> QED BY <1>2, <2>1
  <1> HIDE DEF t
  <1>5. ASSUME NEW i \in 1..Len(t) PROVE t[i] = Piece(0 + i)
    <2>1. CASE i \in 1..Len(c)
      BY <1>4, <2>1 DEF Pieces
    <2>2. CASE i \notin 1..Len(c)
      <3>1. i - Len(c) \in 1..k /\ Len(c) + (i - Len(c)) = i /\ i - Len(c) \in 1..Len(q) /\ 0 + i = i
        BY <1>1, <1>4, <2>2
      <3>2. t[i] = a[i - Len(c)]
        BY <1>4, <3>1
      <3>3. q[i - Len(c)] = Piece(Len(c) + (i - Len(c)))
        BY <3>1 DEF Pieces
      <3> QED BY <1>2, <3>1, <3>2, <3>3
    <2> QED BY <2>1, <2>2
  <1>6. ASSUME NEW i \in 1..Len(b) PROVE b[i] = Piece((Len(c) + k) + i)
    <2>1. k + i \in 1..Len(q) /\ Len(c) + (k + i) = (Len(c) + k) + i
      BY <1>1, <1>3
    <2>2. q[k + i] = Piece(Len(c) + (k + i))
      BY <2>1 DEF Pieces
    <2> QED BY <1>3, <2>1, <2>2
  <1>7. Pieces(t, 0) /\ Pieces(b, Len(c) + k)
    BY <1>3, <1>4, <1>5, <1>6 DEF Pieces
  <1> QED BY <1>3, <1>4, <1>7 DEF a, b, t

ResponseInvariant ==
    /\ loaded \in Nat /\ loaded <= MaxDown
    /\ Pieces(consumed, 0) /\ Pieces(data, Len(consumed))
    /\ \/ Len(consumed) + Len(data) = loaded
       \/ /\ Len(consumed) + Len(data) = loaded + 1
          /\ loaded = MaxDown /\ url_loader = "null"

LEMMA ResponseInit == Requesting!Init => ResponseInvariant
  <1> SUFFICES ASSUME Requesting!Init PROVE ResponseInvariant
    OBVIOUS
  <1>1. loaded = 0 /\ consumed = <<>> /\ data = <<>>
    BY DEF Requesting!Init
  <1>2. MaxDown \in Nat
    BY ServicesAssumption
  <1>3. Pieces(<<>>, 0) /\ Len(<<>>) = 0
    BY DEF Pieces
  <1> QED BY <1>1, <1>2, <1>3 DEF ResponseInvariant

LEMMA ResponseKept ==
  ASSUME ResponseInvariant, url_loader = "null" => url_loader' = "null",
         UNCHANGED <<consumed, data, loaded>>
  PROVE  ResponseInvariant'
  BY DEF ResponseInvariant

\* _pushInternalData gives the readers what comes next of the queue.
LEMMA ResponsePushes ==
  ASSUME Pieces(consumed, 0), NEW queue, Pieces(queue, Len(consumed)),
         NEW push, NEW has_resume, NEW waits,
         Requesting!PushInternalData(push, queue, has_resume, waits)
  PROVE  /\ Pieces(consumed', 0) /\ Pieces(data', Len(consumed'))
         /\ Len(consumed') + Len(data') = Len(consumed) + Len(queue)
  <1>1. PICK k \in 0..Len(queue) : /\ consumed' = consumed \o SubSeq(queue, 1, k)
                                   /\ data' = SubSeq(queue, k + 1, Len(queue))
    BY DEF Requesting!PushInternalData
  <1>2. Len(consumed) \in Nat /\ Len(queue) \in Nat
    BY DEF Pieces
  <1>3. /\ Pieces(consumed', 0) /\ Len(consumed') = Len(consumed) + k
        /\ Pieces(data', Len(consumed) + k) /\ Len(data') = Len(queue) - k
    BY <1>1, PiecesMove
  <1> QED BY <1>2, <1>3

LEMMA ResponseStep == UploadInvariant /\ ResponseInvariant /\ Requesting!Next => ResponseInvariant'
  <1> SUFFICES ASSUME UploadInvariant, ResponseInvariant, Requesting!Next PROVE ResponseInvariant'
    OBVIOUS
  <1>0. MaxDown \in Nat
    BY ServicesAssumption
  <1>1. /\ Pieces(consumed, 0) /\ Pieces(data, Len(consumed)) /\ Len(consumed) \in Nat
        /\ Len(data) \in Nat /\ loaded \in Nat /\ loaded <= MaxDown
    BY DEF ResponseInvariant, Pieces
  <1>2. url_loader = "running" => Len(consumed) + Len(data) = loaded
    BY DEF ResponseInvariant
  <1>3. CASE Requesting!OnDataReceived
    <2>1. url_loader = "running" /\ url_loader' = url_loader /\ loaded < MaxDown /\ loaded' = loaded + 1
          /\ Requesting!PushInternalData(should_push, Append(data, loaded + 1), TRUE, TRUE)
      BY <1>3 DEF Requesting!OnDataReceived
    <2>2. loaded + 1 = Piece(Len(consumed) + Len(data) + 1)
      BY <1>0, <1>1, <1>2, <2>1 DEF Piece
    <2>3. Pieces(Append(data, loaded + 1), Len(consumed)) /\ Len(Append(data, loaded + 1)) = Len(data) + 1
      BY <1>1, <2>2, PiecesAppend
    <2>4. /\ Pieces(consumed', 0) /\ Pieces(data', Len(consumed'))
          /\ Len(consumed') + Len(data') = Len(consumed) + Len(Append(data, loaded + 1))
      BY <1>1, <2>1, <2>3, ResponsePushes
    <2>5. Len(consumed') + Len(data') = loaded'
      BY <1>1, <1>2, <2>1, <2>3, <2>4
    <2> QED BY <1>0, <1>1, <2>1, <2>4, <2>5 DEF ResponseInvariant
  <1>4. CASE Requesting!OnComplete
    <2>1. url_loader = "running" /\ url_loader' = "null" /\ loaded = MaxDown /\ loaded' = loaded
          /\ Requesting!PushInternalData(should_push, Append(data, 0), FALSE, FALSE)
      BY <1>4 DEF Requesting!OnComplete, Requesting!DropLoader, Requesting!End
    <2>2. 0 = Piece(Len(consumed) + Len(data) + 1)
      BY <1>0, <1>1, <1>2, <2>1 DEF Piece
    <2>3. Pieces(Append(data, 0), Len(consumed)) /\ Len(Append(data, 0)) = Len(data) + 1
      BY <1>1, <2>2, PiecesAppend
    <2>4. /\ Pieces(consumed', 0) /\ Pieces(data', Len(consumed'))
          /\ Len(consumed') + Len(data') = Len(consumed) + Len(Append(data, 0))
      BY <1>1, <2>1, <2>3, ResponsePushes
    <2>5. Len(consumed') + Len(data') = loaded' + 1
      BY <1>1, <1>2, <2>1, <2>3, <2>4
    <2> QED BY <1>0, <1>1, <2>1, <2>4, <2>5 DEF ResponseInvariant
  <1>5. CASE Requesting!Read
    <2>1. /\ Requesting!PushInternalData(TRUE, data, resume, net_waits)
          /\ UNCHANGED <<loaded, url_loader>>
      BY <1>5 DEF Requesting!Read
    <2>2. /\ Pieces(consumed', 0) /\ Pieces(data', Len(consumed'))
          /\ Len(consumed') + Len(data') = Len(consumed) + Len(data)
      BY <1>1, <2>1, ResponsePushes
    <2> QED BY <2>1, <2>2 DEF ResponseInvariant
  <1>6. CASE Requesting!Write
    <2>1. writer = "idle" /\ (downstream \/ url_loader = "none")
      BY <1>6 DEF Requesting!Write, UploadInvariant, NetTypes, NetWriter
    <2>2. url_loader = "null" => url_loader' = "null"
      BY <1>6, <2>1 DEF Requesting!Write
    <2>3. UNCHANGED <<consumed, data, loaded>>
      BY <1>6 DEF Requesting!Write, Requesting!downloadVars
    <2> QED BY <2>2, <2>3, ResponseKept
  <1>7. CASE Requesting!Abort \/ Requesting!OnError
    <2>1. Requesting!Die
      BY <1>7 DEF Requesting!Abort, Requesting!OnError
    <2> QED BY <2>1, DieKeeps, ResponseKept
  <1>8. CASE \/ Requesting!Final \/ Requesting!GetSize \/ Requesting!StartReading
             \/ Requesting!OnWriteChunkComplete \/ Requesting!UploadEnds \/ Requesting!ReadsAgain
             \/ Requesting!OnResponseStarted \/ Requesting!ChallengeLost \/ Requesting!ResumeReturns
    BY <1>8, ResponseKept DEF Requesting!Final, Requesting!GetSize, Requesting!StartReading,
       Requesting!OnWriteChunkComplete, Requesting!UploadEnds, Requesting!ReadsAgain,
       Requesting!OnResponseStarted, Requesting!ChallengeLost, Requesting!ResumeReturns,
       Requesting!DropLoader, Requesting!downloadVars
  <1> QED BY <1>3, <1>4, <1>5, <1>6, <1>7, <1>8
             DEF Requesting!Next, Requesting!Getter, Requesting!Loader

LEMMA ResponseStutter == ResponseInvariant /\ Requesting!NoStep => ResponseInvariant'
  BY ResponseKept DEF Requesting!NoStep, Requesting!netVars, Requesting!downloadVars

LEMMA NetSafe == UploadInvariant /\ ResponseInvariant => Requesting!NetBodiesAreWhole
  <1> SUFFICES ASSUME UploadInvariant, ResponseInvariant PROVE Requesting!NetBodiesAreWhole
    OBVIOUS
  <1>1. upload = "whole" => uploaded = Requesting!Range1(chunks) /\ ended
    BY DEF UploadInvariant, NetWhole, Requesting!Range1
  <1> DEFINE r == Requesting!Range1(MaxDown)
             t == Append(r, 0)
  <1>2. MaxDown \in Nat
    BY ServicesAssumption
  <1>3. r \in Seq(Nat) /\ Len(r) = MaxDown /\ \A i \in 1..MaxDown : r[i] = i
    BY <1>2 DEF Requesting!Range1
  <1> HIDE DEF r
  <1>4. /\ t \in Seq(Nat) /\ Len(t) = MaxDown + 1 /\ t[MaxDown + 1] = 0
        /\ \A i \in 1..MaxDown : t[i] = i
    BY <1>2, <1>3
  <1> HIDE DEF t
  <1>5. \A i \in 1..(MaxDown + 1) : t[i] = Piece(i)
    BY <1>2, <1>4 DEF Piece
  <1>6. consumed \in Seq(Nat) /\ Len(consumed) \in Nat /\ Len(consumed) <= MaxDown + 1
    <2>1. Len(data) \in Nat /\ Len(consumed) \in Nat /\ consumed \in Seq(Nat)
      BY DEF ResponseInvariant, Pieces
    <2> QED BY <1>2, <2>1 DEF ResponseInvariant
  <1>7. \A i \in 1..Len(consumed) : consumed[i] = t[i]
    <2> SUFFICES ASSUME NEW i \in 1..Len(consumed) PROVE consumed[i] = t[i]
      OBVIOUS
    <2>1. consumed[i] = Piece(0 + i)
      BY DEF ResponseInvariant, Pieces
    <2>2. 0 + i = i /\ i \in 1..(MaxDown + 1)
      BY <1>2, <1>6
    <2> QED BY <1>5, <2>1, <2>2
  <1>8. SubSeq(consumed, 1, Len(consumed)) = SubSeq(t, 1, Len(consumed))
    <2>1. SubSeq(consumed, 1, Len(consumed)) = [i \in 1..Len(consumed) |-> consumed[i]]
      BY <1>6
    <2>2. SubSeq(t, 1, Len(consumed)) = [i \in 1..Len(consumed) |-> t[i]]
      BY <1>4, <1>6
    <2> QED BY <1>7, <2>1, <2>2
  <1>9. Requesting!IsPrefix(consumed, t)
    BY <1>4, <1>6, <1>8 DEF Requesting!IsPrefix
  <1> QED BY <1>1, <1>9 DEF Requesting!NetBodiesAreWhole, Requesting!End, t, r

-----------------------------------------------------------------------------
(* The HID chooser.  The reports of the device service are in order, so    *)
(* each of them takes what the context knows one step further, and the     *)
(* last one to what the service knows.  A list that the service has sent   *)
(* to a controller is what the context will know when it arrives.          *)

IsSequence(s) == \E S : s \in Seq(S)

LEMMA SequenceAppend ==
  ASSUME NEW s, NEW e, IsSequence(s)
  PROVE  /\ IsSequence(Append(s, e)) /\ Len(s) \in Nat /\ Len(Append(s, e)) = Len(s) + 1
         /\ Append(s, e)[Len(s) + 1] = e /\ \A i \in 1..Len(s) : Append(s, e)[i] = s[i]
  <1>1. PICK S : s \in Seq(S)
    BY DEF IsSequence
  <1> DEFINE T == S \cup {e}
  <1>2. s \in Seq(T) /\ e \in T
    <2>1. Len(s) \in Nat /\ s = [i \in 1..Len(s) |-> s[i]] /\ \A i \in 1..Len(s) : s[i] \in T
      BY <1>1
    <2> QED BY <2>1
  <1> HIDE DEF T
  <1>3. /\ Append(s, e) \in Seq(T) /\ Len(s) \in Nat /\ Len(Append(s, e)) = Len(s) + 1
        /\ Append(s, e)[Len(s) + 1] = e /\ \A i \in 1..Len(s) : Append(s, e)[i] = s[i]
    BY <1>2
  <1> QED BY <1>3 DEF IsSequence

LEMMA SequenceTail ==
  ASSUME NEW s, IsSequence(s), s # <<>>
  PROVE  /\ IsSequence(Tail(s)) /\ Len(s) \in Nat \ {0} /\ Len(Tail(s)) = Len(s) - 1
         /\ Head(s) = s[1] /\ \A i \in 1..(Len(s) - 1) : Tail(s)[i] = s[i + 1]
  <1>1. PICK S : s \in Seq(S)
    BY DEF IsSequence
  <1>2. /\ Tail(s) \in Seq(S) /\ Len(s) \in Nat \ {0} /\ Len(Tail(s)) = Len(s) - 1
        /\ Head(s) = s[1] /\ \A i \in 1..(Len(s) - 1) : Tail(s)[i] = s[i + 1]
    BY <1>1
  <1> QED BY <1>2 DEF IsSequence

LEMMA SequenceOfTwo ==
  ASSUME NEW a, NEW b, NEW s, s = Append(<<>>, a), NEW u, u = Append(s, b)
  PROVE  IsSequence(u) /\ Len(u) \in {2} /\ u[1] = a /\ u[2] = b
  <1> DEFINE T == {a, b}
  <1>1. a \in T /\ b \in T
    OBVIOUS
  <1> HIDE DEF T
  <1>2. s \in Seq(T) /\ Len(s) = 1 /\ s[1] = a
    BY <1>1
  <1>4. u \in Seq(T) /\ Len(u) = Len(s) + 1 /\ u[Len(s) + 1] = b /\ \A i \in 1..Len(s) : u[i] = s[i]
    BY <1>1, <1>2
  <1>5. Len(u) = 2 /\ u[1] = a /\ u[2] = b
    BY ONLY <1>2, <1>4
  <1> QED BY <1>4, <1>5 DEF IsSequence

LEMMA SequenceEmpty == IsSequence(<<>>) /\ Len(<<>>) = 0
  <1>1. <<>> \in Seq({})
    OBVIOUS
  <1> QED BY <1>1 DEF IsSequence

\* What a list of devices says.
Good(list) == { g \in DOMAIN list : list[g] }

\* What a message does to the devices that are known, and to those of them
\* that are suitable.
ViewStep(known, good, m, known2, good2) ==
    \/ /\ m.type = "InitDeviceList" /\ known = {} /\ good = {}
       /\ known2 = DOMAIN m.list /\ good2 = Good(m.list)
    \/ /\ m.type = "OnGotDevices" /\ good = Good(m.list)
       /\ known2 = known /\ good2 = good
    \/ /\ m.type = "DeviceAdded" /\ m.guid \notin known
       /\ known2 = known \cup {m.guid}
       /\ good2 = IF m.ok THEN good \cup {m.guid} ELSE good
    \/ /\ m.type = "DeviceRemoved"
       /\ known2 = known \ {m.guid} /\ good2 = good \ {m.guid}
    \/ /\ m.type = "DeviceChanged"
       /\ known2 = known \cup {m.guid}
       /\ good2 = IF m.ok THEN good \cup {m.guid} ELSE good \ {m.guid}

Views(kn, gd, devices, messages) ==
    /\ kn[0] = DOMAIN devices /\ gd[0] = Good(devices)
    /\ \A i \in 1..Len(messages) : ViewStep(kn[i - 1], gd[i - 1], messages[i], kn[i], gd[i])
HidPipe ==
    /\ IsSequence(hid_pipe)
    /\ \E kn, gd :
          /\ Views(kn, gd, hid_devices, hid_pipe)
          /\ hid_manager = TRUE => /\ kn[Len(hid_pipe)] = Choosing!Present
                                   /\ gd[Len(hid_pipe)] = Choosing!Present \cap suitable
HidTypes ==
    /\ hid_manager \in BOOLEAN /\ observing \in BOOLEAN /\ hid_lost \in BOOLEAN
    /\ can_choose \in BOOLEAN
    /\ DOMAIN plugged = Guids /\ \A g \in suitable : g \in Guids /\ plugged[g] # "no"
    /\ DOMAIN chooser = Choosers
    /\ hid_manager = FALSE => hid_pipe = <<>> /\ DOMAIN hid_devices = {}
HidFirst ==
    \A i \in 1..Len(hid_pipe) :
        hid_pipe[i].type = "InitDeviceList" => i = 1 /\ observing = FALSE
HidShown == observing = TRUE => Choosing!Shown(device_map) \ removing = Good(hid_devices)
HidPermits ==
    /\ can_choose = TRUE => observing = TRUE \/ hid_lost = TRUE
    /\ hid_lost = TRUE \/ ephemeral \subseteq DOMAIN hid_devices \cup removing
HidParts == HidTypes /\ HidPipe /\ HidFirst /\ HidShown /\ HidPermits
HidInvariant == hid_undefined \in BOOLEAN /\ (hid_undefined = FALSE => HidParts)

\* One more report, and the first one received.
LEMMA ViewAppend ==
  ASSUME HidPipe, hid_manager = TRUE, hid_manager' = TRUE, NEW m, hid_pipe' = Append(hid_pipe, m),
         hid_devices' = hid_devices,
         ViewStep(Choosing!Present, Choosing!Present \cap suitable, m,
                  Choosing!Present', Choosing!Present' \cap suitable')
  PROVE  HidPipe'
  <1>1. PICK kn, gd : /\ Views(kn, gd, hid_devices, hid_pipe)
                      /\ kn[Len(hid_pipe)] = Choosing!Present
                      /\ gd[Len(hid_pipe)] = Choosing!Present \cap suitable
    BY DEF HidPipe
  <1> DEFINE n == Len(hid_pipe)
             kn2 == [i \in 0..(n + 1) |-> IF i = n + 1 THEN Choosing!Present' ELSE kn[i]]
             gd2 == [i \in 0..(n + 1) |-> IF i = n + 1 THEN Choosing!Present' \cap suitable' ELSE gd[i]]
  <1>2. /\ IsSequence(hid_pipe') /\ n \in Nat /\ Len(hid_pipe') = n + 1
        /\ hid_pipe'[n + 1] = m /\ \A i \in 1..n : hid_pipe'[i] = hid_pipe[i]
    BY SequenceAppend DEF HidPipe
  <1> HIDE DEF n
  <1>3. /\ \A i \in 0..n : kn2[i] = kn[i] /\ gd2[i] = gd[i]
        /\ kn2[n + 1] = Choosing!Present' /\ gd2[n + 1] = Choosing!Present' \cap suitable'
    BY <1>2
  <1> HIDE DEF kn2, gd2
  <1>4. /\ kn[0] = DOMAIN hid_devices /\ gd[0] = Good(hid_devices)
        /\ \A i \in 1..n : ViewStep(kn[i - 1], gd[i - 1], hid_pipe[i], kn[i], gd[i])
        /\ kn[n] = Choosing!Present /\ gd[n] = Choosing!Present \cap suitable
    BY <1>1 DEF Views, n
  <1>5. ASSUME NEW i \in 1..(n + 1)
        PROVE ViewStep(kn2[i - 1], gd2[i - 1], hid_pipe'[i], kn2[i], gd2[i])
    <2>1. CASE i \in 1..n
      <3>1. i \in 0..n /\ i - 1 \in 0..n
        BY <1>2, <2>1
      <3> QED BY <1>2, <1>3, <1>4, <2>1, <3>1
    <2>2. CASE i = n + 1
      <3>1. n \in 0..n /\ i - 1 = n
        BY <1>2, <2>2
      <3> QED BY <1>2, <1>3, <1>4, <2>2, <3>1
    <2> QED BY <1>2, <2>1, <2>2
  <1>6. kn2[0] = DOMAIN hid_devices' /\ gd2[0] = Good(hid_devices')
    <2>1. 0 \in 0..n
      BY <1>2
    <2> QED BY <1>3, <1>4, <2>1
  <1>7. Views(kn2, gd2, hid_devices', hid_pipe')
    BY <1>2, <1>5, <1>6 DEF Views
  <1>8. kn2[Len(hid_pipe')] = Choosing!Present' /\ gd2[Len(hid_pipe')] = Choosing!Present' \cap suitable'
    BY <1>2, <1>3
  <1> QED BY <1>2, <1>7, <1>8 DEF HidPipe

LEMMA ViewTail ==
  ASSUME HidPipe, hid_pipe # <<>>, hid_pipe' = Tail(hid_pipe),
         UNCHANGED <<hid_manager, plugged, suitable>>,
         \A known, good :
            ViewStep(DOMAIN hid_devices, Good(hid_devices), Head(hid_pipe), known, good)
               => DOMAIN hid_devices' = known /\ Good(hid_devices') = good
  PROVE  HidPipe'
  <1>1. PICK kn, gd : /\ Views(kn, gd, hid_devices, hid_pipe)
                      /\ hid_manager = TRUE => /\ kn[Len(hid_pipe)] = Choosing!Present
                                               /\ gd[Len(hid_pipe)] = Choosing!Present \cap suitable
    BY DEF HidPipe
  <1> DEFINE n == Len(hid_pipe)
             kn2 == [i \in 0..(n - 1) |-> kn[i + 1]]
             gd2 == [i \in 0..(n - 1) |-> gd[i + 1]]
  <1>2. /\ IsSequence(hid_pipe') /\ n \in Nat \ {0} /\ Len(hid_pipe') = n - 1
        /\ Head(hid_pipe) = hid_pipe[1] /\ \A i \in 1..(n - 1) : hid_pipe'[i] = hid_pipe[i + 1]
    BY SequenceTail DEF HidPipe
  <1> HIDE DEF n
  <1>3. \A i \in 0..(n - 1) : kn2[i] = kn[i + 1] /\ gd2[i] = gd[i + 1]
    BY <1>2
  <1> HIDE DEF kn2, gd2
  <1>4. /\ kn[0] = DOMAIN hid_devices /\ gd[0] = Good(hid_devices)
        /\ \A i \in 1..n : ViewStep(kn[i - 1], gd[i - 1], hid_pipe[i], kn[i], gd[i])
        /\ hid_manager = TRUE => kn[n] = Choosing!Present /\ gd[n] = Choosing!Present \cap suitable
    BY <1>1 DEF Views, n
  <1>5. ViewStep(DOMAIN hid_devices, Good(hid_devices), Head(hid_pipe), kn[1], gd[1])
    <2>1. 1 \in 1..n /\ 1 - 1 = 0
      BY <1>2
    <2>2. ViewStep(kn[1 - 1], gd[1 - 1], hid_pipe[1], kn[1], gd[1])
      BY <1>4, <2>1
    <2> QED BY <1>2, <1>4, <2>1, <2>2
  <1>6. kn2[0] = DOMAIN hid_devices' /\ gd2[0] = Good(hid_devices')
    <2>1. 0 \in 0..(n - 1) /\ 0 + 1 = 1
      BY <1>2
    <2> QED BY <1>3, <1>5, <2>1
  <1>7. ASSUME NEW i \in 1..(n - 1)
        PROVE ViewStep(kn2[i - 1], gd2[i - 1], hid_pipe'[i], kn2[i], gd2[i])
    <2>1. i + 1 \in 1..n /\ (i + 1) - 1 = i /\ i \in 0..(n - 1) /\ i - 1 \in 0..(n - 1) /\ (i - 1) + 1 = i
      BY <1>2
    <2>2. ViewStep(kn[i], gd[i], hid_pipe[i + 1], kn[i + 1], gd[i + 1])
      BY <1>4, <2>1
    <2> QED BY <1>2, <1>3, <2>1, <2>2
  <1>8. hid_manager' = TRUE => /\ kn2[n - 1] = Choosing!Present'
                               /\ gd2[n - 1] = Choosing!Present' \cap suitable'
    <2>1. n - 1 \in 0..(n - 1) /\ (n - 1) + 1 = n
      BY <1>2
    <2>2. Choosing!Present' = Choosing!Present
      BY DEF Choosing!Present
    <2> QED BY <1>3, <1>4, <2>1, <2>2
  <1>9. Views(kn2, gd2, hid_devices', hid_pipe')
    BY <1>2, <1>6, <1>7 DEF Views
  <1>10. hid_manager' = TRUE => /\ kn2[Len(hid_pipe')] = Choosing!Present'
                                /\ gd2[Len(hid_pipe')] = Choosing!Present' \cap suitable'
    BY <1>2, <1>8
  <1> QED BY <1>2, <1>9, <1>10 DEF HidPipe

\* The list of devices is the first message, and no controller observes yet.
LEMMA FirstAppend ==
  ASSUME HidPipe, HidFirst, NEW m, hid_pipe' = Append(hid_pipe, m), m.type # "InitDeviceList",
         observing' \in {observing, FALSE}
  PROVE  HidFirst'
  <1>1. /\ Len(hid_pipe) \in Nat /\ Len(hid_pipe') = Len(hid_pipe) + 1
        /\ hid_pipe'[Len(hid_pipe) + 1] = m /\ \A i \in 1..Len(hid_pipe) : hid_pipe'[i] = hid_pipe[i]
    BY SequenceAppend DEF HidPipe
  <1> SUFFICES ASSUME NEW i \in 1..Len(hid_pipe'), hid_pipe'[i].type = "InitDeviceList"
               PROVE  i = 1 /\ observing' = FALSE
    BY DEF HidFirst
  <1>2. i \in 1..Len(hid_pipe) \/ i = Len(hid_pipe) + 1
    BY <1>1
  <1>3. i \in 1..Len(hid_pipe) /\ hid_pipe[i].type = "InitDeviceList"
    BY <1>1, <1>2
  <1> QED BY <1>3 DEF HidFirst

LEMMA FirstTail ==
  ASSUME HidPipe, HidFirst, hid_pipe # <<>>, hid_pipe' = Tail(hid_pipe)
  PROVE  /\ HidFirst' /\ (Head(hid_pipe).type = "InitDeviceList" => observing = FALSE)
         /\ \A i \in 1..Len(hid_pipe') : hid_pipe'[i].type # "InitDeviceList"
  <1>1. /\ Len(hid_pipe) \in Nat \ {0} /\ Len(hid_pipe') = Len(hid_pipe) - 1
        /\ Head(hid_pipe) = hid_pipe[1]
        /\ \A i \in 1..(Len(hid_pipe) - 1) : hid_pipe'[i] = hid_pipe[i + 1]
    BY SequenceTail DEF HidPipe
  <1>2. ASSUME NEW i \in 1..Len(hid_pipe') PROVE hid_pipe'[i].type # "InitDeviceList"
    <2>1. i + 1 \in 1..Len(hid_pipe) /\ i + 1 # 1 /\ hid_pipe'[i] = hid_pipe[i + 1]
      BY <1>1
    <2> QED BY <2>1 DEF HidFirst
  <1>3. 1 \in 1..Len(hid_pipe)
    BY <1>1
  <1> QED BY <1>1, <1>2, <1>3 DEF HidFirst

LEMMA FirstKept ==
  ASSUME HidFirst, UNCHANGED hid_pipe, observing' \in {observing, FALSE}
  PROVE  HidFirst'
  BY DEF HidFirst

\* The next message is one that the context is ready for.
LEMMA ViewHead ==
  ASSUME HidPipe, hid_pipe # <<>>
  PROVE  \E known, good : ViewStep(DOMAIN hid_devices, Good(hid_devices), Head(hid_pipe), known, good)
  <1>1. PICK kn, gd : Views(kn, gd, hid_devices, hid_pipe)
    BY DEF HidPipe
  <1>2. Len(hid_pipe) \in Nat \ {0} /\ Head(hid_pipe) = hid_pipe[1]
    BY SequenceTail DEF HidPipe
  <1>3. 1 \in 1..Len(hid_pipe) /\ 1 - 1 = 0
    BY <1>2
  <1>4. ViewStep(kn[1 - 1], gd[1 - 1], hid_pipe[1], kn[1], gd[1])
    BY <1>1, <1>3 DEF Views
  <1>5. kn[0] = DOMAIN hid_devices /\ gd[0] = Good(hid_devices)
    BY <1>1 DEF Views
  <1> QED BY <1>2, <1>3, <1>4, <1>5

\* The items of a list show the devices it was made of.
LEMMA ItemsShown == ASSUME NEW S PROVE Choosing!Shown(Choosing!Items(S)) = S
  <1> DEFINE map == Choosing!Items(S)
  <1>1. DOMAIN map = { Choosing!PhysicalDeviceId(g) : g \in S }
        /\ \A id \in DOMAIN map : map[id] = { g \in S : Choosing!PhysicalDeviceId(g) = id }
    BY DEF Choosing!Items
  <1> HIDE DEF map
  <1>2. ASSUME NEW g \in Choosing!Shown(map) PROVE g \in S
    BY <1>1 DEF Choosing!Shown
  <1>3. ASSUME NEW g \in S PROVE g \in Choosing!Shown(map)
    <2>1. Choosing!PhysicalDeviceId(g) \in DOMAIN map /\ g \in map[Choosing!PhysicalDeviceId(g)]
      BY <1>1
    <2> QED BY <2>1 DEF Choosing!Shown
  <1> QED BY <1>2, <1>3 DEF map

\* A choice is among the devices that are shown.
LEMMA ChosenShown ==
  ASSUME NEW choice PROVE Choosing!Chosen(device_map, choice) \subseteq Choosing!Shown(device_map)
  BY DEF Choosing!Chosen, Choosing!Shown

LEMMA GoodKnown == Good(hid_devices) \subseteq DOMAIN hid_devices
  BY DEF Good

\* A report of a device is noted.
LEMMA KnownFacts ==
  ASSUME hid_devices' = Choosing!Known, NEW m, m = Head(hid_pipe)
  PROVE  /\ DOMAIN hid_devices' = DOMAIN hid_devices \cup {m.guid}
         /\ m.ok => Good(hid_devices') = Good(hid_devices) \cup {m.guid}
         /\ ~m.ok => Good(hid_devices') = Good(hid_devices) \ {m.guid}
  <1>1. hid_devices' = [g \in DOMAIN hid_devices \cup {m.guid} |->
                           IF g = m.guid THEN m.ok ELSE hid_devices[g]]
    BY DEF Choosing!Known, Choosing!Message
  <1>2. DOMAIN hid_devices' = DOMAIN hid_devices \cup {m.guid} /\ hid_devices'[m.guid] = m.ok
        /\ \A g \in DOMAIN hid_devices \ {m.guid} : hid_devices'[g] = hid_devices[g]
    BY <1>1
  <1>3. ASSUME m.ok PROVE Good(hid_devices') = Good(hid_devices) \cup {m.guid}
    BY <1>2, <1>3 DEF Good
  <1>4. ASSUME ~m.ok PROVE Good(hid_devices') = Good(hid_devices) \ {m.guid}
    BY <1>2, <1>4 DEF Good
  <1> QED BY <1>2, <1>3, <1>4

LEMMA HidInit == Choosing!Init => HidInvariant
  <1> SUFFICES ASSUME Choosing!Init PROVE HidInvariant
    OBVIOUS
  <1>1. /\ plugged = [g \in Guids |-> "no"] /\ suitable = {} /\ hid_manager = FALSE
        /\ hid_pipe = <<>> /\ hid_devices = [g \in {} |-> TRUE] /\ ephemeral = {} /\ removing = {}
        /\ controller = 0 /\ observing = FALSE /\ chooser = [r \in Choosers |-> "new"]
        /\ can_choose = FALSE
        /\ hid_lost = FALSE /\ hid_undefined = FALSE
    BY DEF Choosing!Init, Choosing!NoController
  <1>2. DOMAIN hid_devices = {} /\ Good(hid_devices) = {}
    BY <1>1 DEF Good
  <1>3. HidTypes
    <2>1. /\ hid_manager \in BOOLEAN /\ observing \in BOOLEAN /\ hid_lost \in BOOLEAN
          /\ can_choose \in BOOLEAN
      BY <1>1
    <2>2. DOMAIN plugged = Guids /\ DOMAIN chooser = Choosers /\ \A g \in suitable : g \in Guids /\ plugged[g] # "no"
      BY <1>1
    <2> QED BY <1>1, <1>2, <2>1, <2>2 DEF HidTypes
  <1>4. HidPipe
    <2> DEFINE none == [i \in {0} |-> {}]
    <2>1. none[0] = {}
      OBVIOUS
    <2> HIDE DEF none
    <2>2. Views(none, none, hid_devices, hid_pipe)
      BY <1>1, <1>2, <2>1, SequenceEmpty DEF Views
    <2>3. hid_manager # TRUE
      BY <1>1
    <2> QED BY <1>1, <2>2, <2>3, SequenceEmpty DEF HidPipe
  <1>5. HidShown /\ HidPermits
    BY <1>1 DEF HidShown, HidPermits
  <1>6. HidFirst
    BY <1>1 DEF HidFirst
  <1> QED BY <1>1, <1>3, <1>4, <1>5, <1>6 DEF HidInvariant, HidParts

\* What the steps that do not concern the messages leave as it is.
LEMMA PipeKept ==
  ASSUME HidPipe, UNCHANGED <<hid_pipe, hid_devices, hid_manager, plugged, suitable>>
  PROVE  HidPipe'
  BY DEF HidPipe, Choosing!Present

LEMMA HidRun == ASSUME HidInvariant, NEW r \in Choosers, Choosing!RunChooser(r) PROVE HidInvariant'
  <1> USE DEF Choosing!RunChooser
  <1>1. /\ controller' = r /\ observing' = FALSE /\ hid_manager' = TRUE
        /\ chooser'[r] = "listing" /\ DOMAIN chooser' = Choosers /\ can_choose' = FALSE
        /\ UNCHANGED <<plugged, suitable, hid_devices, removing, ephemeral, hid_lost, hid_undefined>>
    OBVIOUS
  <1>2. HidParts /\ hid_undefined = FALSE
    BY DEF HidInvariant, Choosing!Idle
  <1>3. HidTypes'
    <2>1. /\ hid_manager' \in BOOLEAN /\ observing' \in BOOLEAN /\ hid_lost' \in BOOLEAN
          /\ can_choose' \in BOOLEAN
      BY <1>1, <1>2 DEF HidParts, HidTypes
    <2>2. hid_manager' # FALSE
      BY <1>1
    <2> QED BY <1>1, <1>2, <2>1, <2>2 DEF HidParts, HidTypes
  <1>4. HidShown' /\ HidPermits'
    BY <1>1, <1>2 DEF HidParts, HidShown, HidPermits
  <1> DEFINE got == Choosing!List("OnGotDevices", r)
             all == Choosing!List("InitDeviceList", 0)
             P == Choosing!Present
             S == Choosing!Present \cap suitable
  <1>5. /\ got.type = "OnGotDevices" /\ Good(got.list) = S
        /\ all.type = "InitDeviceList" /\ DOMAIN all.list = P /\ Good(all.list) = S
    BY DEF Choosing!List, Good
  <1>6. P' = P /\ S' = S
    BY <1>1 DEF Choosing!Present
  <1> HIDE DEF got, all, P, S
  <1>7. ViewStep(P, S, got, P, S) /\ ViewStep({}, {}, all, P, S)
    BY <1>5 DEF ViewStep
  <1>8. HidPipe' /\ HidFirst'
    <2>1. CASE hid_manager = TRUE
      <3>1. hid_pipe' = Append(hid_pipe, got)
        BY <2>1 DEF got
      <3>2. HidFirst'
        BY <1>1, <1>2, <1>5, <3>1, FirstAppend DEF HidParts
      <3> QED BY <3>2, <1>1, <1>2, <1>6, <1>7, <2>1, <3>1, ViewAppend DEF HidParts, P, S
    <2>2. CASE hid_manager = FALSE
      <3>1. hid_pipe = <<>> /\ DOMAIN hid_devices = {}
        BY <1>2, <2>2 DEF HidParts, HidTypes
      <3> DEFINE one == Append(<<>>, all)
      <3>2. hid_pipe' = Append(Append(<<>>, all), got)
        BY <2>2, <3>1 DEF got, all
      <3>3. one = Append(<<>>, all)
        OBVIOUS
      <3> HIDE DEF one
      <3>5. hid_pipe' = Append(one, got)
        BY <3>2, <3>3
      <3>4. /\ IsSequence(hid_pipe') /\ Len(hid_pipe') = 2 /\ hid_pipe'[1] = all /\ hid_pipe'[2] = got
        <4>1. IsSequence(hid_pipe') /\ Len(hid_pipe') \in {2}
          BY ONLY <3>3, <3>5, SequenceOfTwo
        <4>2. hid_pipe'[1] = all /\ hid_pipe'[2] = got
          BY ONLY <3>3, <3>5, SequenceOfTwo
        <4> QED BY <4>1, <4>2
      <3> DEFINE kn == [i \in 0..2 |-> IF i = 0 THEN {} ELSE P]
                 gd == [i \in 0..2 |-> IF i = 0 THEN {} ELSE S]
      <3>10. kn[0] = {} /\ gd[0] = {} /\ kn[1] = P /\ gd[1] = S /\ kn[2] = P /\ gd[2] = S
        OBVIOUS
      <3> HIDE DEF kn, gd
      <3>6. Good(hid_devices) = {}
        BY <3>1 DEF Good
      <3>7. \A i \in 1..2 : ViewStep(kn[i - 1], gd[i - 1], hid_pipe'[i], kn[i], gd[i])
        <4>1. ViewStep(kn[0], gd[0], hid_pipe'[1], kn[1], gd[1])
          BY <1>7, <3>4, <3>10
        <4>2. ViewStep(kn[1], gd[1], hid_pipe'[2], kn[2], gd[2])
          BY <1>7, <3>4, <3>10
        <4>3. \A i \in 1..2 : (i = 1 /\ i - 1 = 0) \/ (i = 2 /\ i - 1 = 1)
          OBVIOUS
        <4> QED BY <4>1, <4>2, <4>3
      <3>8. Views(kn, gd, hid_devices', hid_pipe')
        BY <1>1, <3>1, <3>4, <3>10, <3>6, <3>7 DEF Views
      <3>9. kn[Len(hid_pipe')] = P' /\ gd[Len(hid_pipe')] = S'
        BY <1>6, <3>4, <3>10
      <3>11. HidFirst'
        <4>1. \A i \in 1..2 : i = 1 \/ i = 2
          OBVIOUS
        <4> QED BY <1>1, <1>5, <3>4, <4>1 DEF HidFirst
      <3> QED BY <3>4, <3>8, <3>9, <3>11 DEF HidPipe, P, S
    <2> QED BY <1>2, <2>1, <2>2 DEF HidParts, HidTypes
  <1> QED BY <1>1, <1>2, <1>3, <1>4, <1>8 DEF HidInvariant, HidParts

LEMMA HidFrameDeleted == ASSUME HidInvariant, Choosing!RenderFrameDeleted PROVE HidInvariant'
  <1>1. /\ controller' = 0 /\ observing' = FALSE /\ DOMAIN chooser' = DOMAIN chooser
        /\ can_choose' = FALSE
        /\ UNCHANGED <<plugged, suitable, hid_manager, hid_pipe, hid_devices, removing, ephemeral,
                       hid_lost, hid_undefined>>
    BY DEF Choosing!RenderFrameDeleted, Choosing!RunCallback, Choosing!NoController
  <1>2. HidParts /\ hid_undefined = FALSE
    BY DEF HidInvariant, Choosing!RenderFrameDeleted, Choosing!Idle
  <1>3. HidTypes'
    <2>1. observing' \in BOOLEAN /\ can_choose' \in BOOLEAN
      BY <1>1
    <2> QED BY <1>1, <1>2, <2>1 DEF HidParts, HidTypes
  <1>4. HidPipe'
    BY <1>1, <1>2, PipeKept DEF HidParts
  <1>5. HidShown' /\ HidPermits'
    BY <1>1, <1>2 DEF HidParts, HidShown, HidPermits
  <1>6. HidFirst'
    BY <1>1, <1>2, FirstKept DEF HidParts
  <1> QED BY <1>1, <1>2, <1>3, <1>4, <1>5, <1>6 DEF HidInvariant, HidParts

LEMMA HidChoose == ASSUME HidInvariant, NEW choice, Choosing!Choose(choice) PROVE HidInvariant'
  <1>1. /\ can_choose = TRUE /\ can_choose' = FALSE
        /\ chooser' = [chooser EXCEPT ![controller] = "done"]
        /\ ephemeral' = ephemeral \cup Choosing!Chosen(device_map, choice)
        /\ UNCHANGED <<plugged, suitable, hid_manager, hid_pipe, hid_devices, removing, controller,
                       observing, device_map, hid_lost, hid_undefined>>
    BY DEF Choosing!Choose, Choosing!RunCallback, HidInvariant, HidParts, HidTypes
  <1>2. HidParts /\ hid_undefined = FALSE
    BY DEF HidInvariant, Choosing!Choose
  <1>3. HidTypes'
    BY <1>1, <1>2 DEF HidParts, HidTypes
  <1>4. HidPipe'
    BY <1>1, <1>2, PipeKept DEF HidParts
  <1>5. HidShown'
    BY <1>1, <1>2 DEF HidParts, HidShown
  <1>6. HidPermits'
    <2>1. observing = TRUE =>
             Choosing!Chosen(device_map, choice) \subseteq DOMAIN hid_devices \cup removing
      BY <1>2, ChosenShown, GoodKnown DEF HidParts, HidShown
    <2>2. hid_lost = TRUE \/ ephemeral' \subseteq DOMAIN hid_devices \cup removing
      BY <1>1, <1>2, <2>1 DEF HidParts, HidPermits
    <2> QED BY <1>1, <2>2 DEF HidPermits
  <1>7. HidFirst'
    BY <1>1, <1>2, FirstKept DEF HidParts
  <1> QED BY <1>1, <1>2, <1>3, <1>4, <1>5, <1>6, <1>7 DEF HidInvariant, HidParts

LEMMA HidForgotten ==
  ASSUME HidInvariant, NEW g \in Guids, Choosing!RevokeDevicePermission(g)
  PROVE  HidInvariant'
  <1>1. /\ ephemeral' \subseteq ephemeral /\ hid_undefined' \in BOOLEAN
        /\ UNCHANGED <<plugged, suitable, hid_manager, hid_pipe, hid_devices, removing, controller,
                       observing, device_map, chooser, can_choose, hid_lost>>
    BY DEF Choosing!RevokeDevicePermission
  <1>2. HidParts
    BY DEF HidInvariant, Choosing!RevokeDevicePermission, Choosing!Idle
  <1>3. HidPipe'
    BY <1>1, <1>2, PipeKept DEF HidParts
  <1>4. HidTypes' /\ HidShown' /\ HidPermits'
    BY <1>1, <1>2 DEF HidParts, HidTypes, HidShown, HidPermits, Choosing!Shown
  <1>5. HidFirst'
    BY <1>1, <1>2, FirstKept DEF HidParts
  <1> QED BY <1>1, <1>3, <1>4, <1>5 DEF HidInvariant, HidParts

\* A message is received: the next one, by a context that is connected.
LEMMA HidReceives ==
  ASSUME HidInvariant, NEW type, Choosing!Receives(type)
  PROVE  /\ HidParts /\ hid_undefined = FALSE /\ hid_manager = TRUE
         /\ hid_pipe # <<>> /\ hid_pipe' = Tail(hid_pipe) /\ Head(hid_pipe).type = type
         /\ removing = {} /\ HidFirst' /\ (type = "InitDeviceList" => observing = FALSE)
  <1>1. /\ hid_undefined = FALSE /\ hid_pipe # <<>> /\ hid_pipe' = Tail(hid_pipe)
        /\ Head(hid_pipe).type = type /\ removing = {}
    BY DEF Choosing!Receives, Choosing!Idle, Choosing!Message, HidInvariant
  <1>2. HidParts /\ hid_manager = TRUE
    BY <1>1 DEF HidInvariant, HidParts, HidTypes
  <1> QED BY <1>1, <1>2, FirstTail DEF HidParts

LEMMA HidInitDeviceList == ASSUME HidInvariant, Choosing!InitDeviceList PROVE HidInvariant'
  <1> DEFINE m == Head(hid_pipe)
  <1>1. /\ hid_devices' = [g \in DOMAIN hid_devices \cup DOMAIN m.list |->
                              IF g \in DOMAIN hid_devices THEN hid_devices[g] ELSE m.list[g]]
        /\ UNCHANGED <<plugged, suitable, hid_manager, removing, ephemeral, controller, observing,
                       device_map, chooser, can_choose, hid_lost, hid_undefined>>
    BY DEF Choosing!InitDeviceList, Choosing!Message
  <1>2. /\ HidParts /\ hid_undefined = FALSE /\ hid_manager = TRUE
        /\ hid_pipe # <<>> /\ hid_pipe' = Tail(hid_pipe) /\ m.type = "InitDeviceList"
        /\ HidFirst' /\ observing = FALSE
    BY HidReceives DEF Choosing!InitDeviceList
  <1> HIDE DEF m
  <1>3. ASSUME NEW known, NEW good, ViewStep(DOMAIN hid_devices, Good(hid_devices), m, known, good)
        PROVE  /\ DOMAIN hid_devices' = known /\ Good(hid_devices') = good
               /\ DOMAIN hid_devices = {} /\ Good(hid_devices) = {}
    <2>1. DOMAIN hid_devices = {} /\ Good(hid_devices) = {} /\ known = DOMAIN m.list /\ good = Good(m.list)
      BY <1>2, <1>3 DEF ViewStep
    <2>2. DOMAIN hid_devices' = DOMAIN m.list /\ \A g \in DOMAIN m.list : hid_devices'[g] = m.list[g]
      BY <1>1, <2>1
    <2>3. Good(hid_devices') = Good(m.list)
      BY <2>2 DEF Good
    <2> QED BY <2>1, <2>2, <2>3
  <1>4. HidPipe'
    <2>1. HidPipe /\ UNCHANGED <<hid_manager, plugged, suitable>>
      BY <1>1, <1>2 DEF HidParts
    <2>2. \A known, good : ViewStep(DOMAIN hid_devices, Good(hid_devices), Head(hid_pipe), known, good)
                               => DOMAIN hid_devices' = known /\ Good(hid_devices') = good
      BY <1>3 DEF m
    <2> QED BY <1>2, <2>1, <2>2, ViewTail
  <1>5. DOMAIN hid_devices = {} /\ Good(hid_devices) = {}
    <2>1. PICK known, good : ViewStep(DOMAIN hid_devices, Good(hid_devices), m, known, good)
      BY <1>2, ViewHead DEF HidParts, m
    <2> QED BY <1>3, <2>1
  <1>6. HidTypes'
    BY <1>1, <1>2 DEF HidParts, HidTypes
  <1>7. HidPermits'
    BY <1>1, <1>2, <1>5 DEF HidParts, HidPermits
  <1>8. HidShown'
    BY <1>1, <1>2 DEF HidShown
  <1> QED BY <1>1, <1>2, <1>4, <1>6, <1>7, <1>8 DEF HidInvariant, HidParts

LEMMA HidGotDevices ==
  ASSUME HidInvariant, NEW prevented \in BOOLEAN, Choosing!OnGotDevices(prevented)
  PROVE  HidInvariant'
  <1> DEFINE m == Head(hid_pipe)
  <1>1. /\ \/ UNCHANGED <<device_map, observing, chooser, can_choose>>
           \/ /\ device_map' = Choosing!Items(Good(m.list)) /\ observing' = TRUE
              /\ DOMAIN chooser' = DOMAIN chooser /\ can_choose' = TRUE
        /\ UNCHANGED <<plugged, suitable, hid_manager, hid_devices, removing, ephemeral, controller,
                       hid_lost, hid_undefined>>
    BY DEF Choosing!OnGotDevices, Choosing!Message, Choosing!RunCallback, Good
  <1>2. /\ HidParts /\ hid_undefined = FALSE /\ hid_manager = TRUE
        /\ hid_pipe # <<>> /\ hid_pipe' = Tail(hid_pipe) /\ m.type = "OnGotDevices" /\ removing = {}
    BY HidReceives DEF Choosing!OnGotDevices
  <1> HIDE DEF m
  <1>3. ASSUME NEW known, NEW good, ViewStep(DOMAIN hid_devices, Good(hid_devices), m, known, good)
        PROVE  /\ DOMAIN hid_devices' = known /\ Good(hid_devices') = good
               /\ Good(m.list) = Good(hid_devices)
    BY <1>1, <1>2, <1>3 DEF ViewStep
  <1>4. HidPipe'
    <2>1. HidPipe /\ UNCHANGED <<hid_manager, plugged, suitable>>
      BY <1>1, <1>2 DEF HidParts
    <2>2. \A known, good : ViewStep(DOMAIN hid_devices, Good(hid_devices), Head(hid_pipe), known, good)
                               => DOMAIN hid_devices' = known /\ Good(hid_devices') = good
      BY <1>3 DEF m
    <2> QED BY <1>2, <2>1, <2>2, ViewTail
  <1>5. Good(m.list) = Good(hid_devices)
    <2>1. PICK known, good : ViewStep(DOMAIN hid_devices, Good(hid_devices), m, known, good)
      BY <1>2, ViewHead DEF HidParts, m
    <2> QED BY <1>3, <2>1
  <1>6. HidTypes'
    <2>1. observing' \in BOOLEAN /\ can_choose' \in BOOLEAN /\ DOMAIN chooser' = DOMAIN chooser
      BY <1>1, <1>2 DEF HidParts, HidTypes
    <2> QED BY <1>1, <1>2, <2>1 DEF HidParts, HidTypes
  <1>7. HidPermits'
    BY <1>1, <1>2 DEF HidParts, HidPermits
  <1>8. HidShown'
    <2>1. CASE UNCHANGED <<device_map, observing, chooser, can_choose>>
      BY <1>1, <1>2, <2>1 DEF HidParts, HidShown
    <2>2. CASE device_map' = Choosing!Items(Good(m.list)) /\ observing' = TRUE
      <3>1. Choosing!Shown(device_map') = Good(m.list)
        BY <2>2, ItemsShown
      <3> QED BY <1>1, <1>2, <1>5, <3>1 DEF HidShown, Choosing!Shown
    <2> QED BY <1>1, <2>1, <2>2
  <1>9. HidFirst'
    <2>1. \A i \in 1..Len(hid_pipe') : hid_pipe'[i].type # "InitDeviceList"
      BY <1>2, FirstTail DEF HidParts
    <2> QED BY <2>1 DEF HidFirst
  <1> QED BY <1>1, <1>2, <1>4, <1>6, <1>7, <1>8, <1>9 DEF HidInvariant, HidParts

\* What the report of a device does, if the controller does with its list what
\* the context does with its devices.
LEMMA HidReport ==
  ASSUME HidInvariant,
         NEW type \in {"DeviceAdded", "DeviceRemoved", "DeviceChanged"}, Choosing!Receives(type),
         UNCHANGED <<plugged, suitable, hid_manager, observing, chooser, can_choose, hid_lost>>,
         HidPermits',
         \A known, good :
            ViewStep(DOMAIN hid_devices, Good(hid_devices), Head(hid_pipe), known, good)
               => DOMAIN hid_devices' = known /\ Good(hid_devices') = good,
         hid_undefined' \in BOOLEAN,
         hid_undefined' = FALSE /\ observing = TRUE
            => Choosing!Shown(device_map') \ removing' = Good(hid_devices')
  PROVE  HidInvariant'
  <1>1. /\ HidParts /\ hid_undefined = FALSE /\ hid_manager = TRUE
        /\ hid_pipe # <<>> /\ hid_pipe' = Tail(hid_pipe) /\ HidFirst'
    BY HidReceives
  <1>2. HidPipe'
    BY <1>1, ViewTail DEF HidParts
  <1>3. HidTypes'
    BY <1>1 DEF HidParts, HidTypes
  <1>4. hid_undefined' = FALSE => HidShown'
    BY DEF HidShown, Choosing!Shown
  <1> QED BY <1>1, <1>2, <1>3, <1>4 DEF HidInvariant, HidParts

LEMMA HidAdded == ASSUME HidInvariant, Choosing!DeviceAdded PROVE HidInvariant'
  <1> DEFINE m == Head(hid_pipe)
  <1>1. /\ hid_devices' = Choosing!Known
        /\ device_map' = (IF observing /\ m.ok THEN Choosing!Items(Choosing!Shown(device_map) \cup {m.guid})
                          ELSE device_map)
        /\ UNCHANGED <<plugged, suitable, hid_manager, removing, ephemeral, controller, observing,
                       chooser, can_choose, hid_lost, hid_undefined>>
    BY DEF Choosing!DeviceAdded, Choosing!Message, Choosing!With
  <1>2. /\ HidParts /\ hid_undefined = FALSE /\ hid_manager = TRUE
        /\ hid_pipe # <<>> /\ hid_pipe' = Tail(hid_pipe) /\ m.type = "DeviceAdded"
        /\ removing = {} /\ Choosing!Receives("DeviceAdded")
    BY HidReceives DEF Choosing!DeviceAdded
  <1> HIDE DEF m
  <1> DEFINE new == DOMAIN hid_devices \cup {m.guid}
             fresh == IF m.ok THEN Good(hid_devices) \cup {m.guid} ELSE Good(hid_devices)
  <1>3. PICK k, l : ViewStep(DOMAIN hid_devices, Good(hid_devices), m, k, l)
    BY <1>2, ViewHead DEF HidParts, m
  <1>4. m.guid \notin DOMAIN hid_devices
    BY <1>2, <1>3 DEF ViewStep
  <1>5. m.guid \notin Good(hid_devices)
    BY <1>4, GoodKnown
  <1>6. DOMAIN hid_devices' = new /\ Good(hid_devices') = fresh
    BY <1>1, <1>5, KnownFacts DEF m
  <1>7. \A known, good : ViewStep(DOMAIN hid_devices, Good(hid_devices), m, known, good)
                             => new = known /\ fresh = good
    BY <1>2 DEF ViewStep
  <1>8. observing = TRUE => Choosing!Shown(device_map') = fresh
    <2> SUFFICES ASSUME observing = TRUE PROVE Choosing!Shown(device_map') = fresh
      OBVIOUS
    <2>1. Choosing!Shown(device_map) = Good(hid_devices)
      BY <1>2 DEF HidParts, HidShown
    <2>2. CASE m.ok
      <3>1. device_map' = Choosing!Items(Good(hid_devices) \cup {m.guid})
        BY <1>1, <2>1, <2>2
      <3> QED BY <2>2, <3>1, ItemsShown
    <2>3. CASE ~m.ok
      BY <1>1, <2>1, <2>3
    <2> QED BY <2>2, <2>3
  <1>9. HidPermits'
    <2>1. DOMAIN hid_devices \subseteq DOMAIN hid_devices'
      BY <1>6
    <2> QED BY <1>1, <1>2, <2>1 DEF HidParts, HidPermits
  <1> HIDE DEF new, fresh
  <1>10. \A known, good : ViewStep(DOMAIN hid_devices, Good(hid_devices), Head(hid_pipe), known, good)
                             => DOMAIN hid_devices' = known /\ Good(hid_devices') = good
    BY <1>6, <1>7 DEF m
  <1>11. hid_undefined' \in BOOLEAN
    BY <1>1, <1>2
  <1>12. observing = TRUE => Choosing!Shown(device_map') \ removing' = Good(hid_devices')
    BY <1>1, <1>2, <1>6, <1>8
  <1> QED BY <1>1, <1>2, <1>9, <1>10, <1>11, <1>12, HidReport

\* The device that is removed is forgotten first.
LEMMA HidRemoved == ASSUME HidInvariant, Choosing!DeviceRemoved PROVE HidInvariant'
  <1> DEFINE m == Head(hid_pipe)
  <1>1. /\ hid_devices' = [h \in DOMAIN hid_devices \ {m.guid} |-> hid_devices[h]]
        /\ removing' = {m.guid}
        /\ UNCHANGED <<plugged, suitable, hid_manager, ephemeral, controller, observing, device_map,
                       chooser, can_choose, hid_lost, hid_undefined>>
    BY DEF Choosing!DeviceRemoved, Choosing!Message
  <1>2. /\ HidParts /\ hid_undefined = FALSE /\ hid_manager = TRUE /\ removing = {}
        /\ hid_pipe # <<>> /\ hid_pipe' = Tail(hid_pipe) /\ m.type = "DeviceRemoved"
        /\ Choosing!Receives("DeviceRemoved")
    BY HidReceives DEF Choosing!DeviceRemoved
  <1> HIDE DEF m
  <1>3. /\ DOMAIN hid_devices' = DOMAIN hid_devices \ {m.guid}
        /\ Good(hid_devices') = Good(hid_devices) \ {m.guid}
    <2>1. DOMAIN hid_devices' = DOMAIN hid_devices \ {m.guid}
          /\ \A h \in DOMAIN hid_devices \ {m.guid} : hid_devices'[h] = hid_devices[h]
      BY <1>1
    <2> QED BY <2>1 DEF Good
  <1>4. observing = TRUE => Choosing!Shown(device_map) = Good(hid_devices)
    BY <1>2 DEF HidParts, HidShown
  <1>5. observing = TRUE => Choosing!Shown(device_map') \ removing' = Good(hid_devices')
    BY <1>1, <1>3, <1>4
  <1>6. HidPermits'
    <2>1. DOMAIN hid_devices \subseteq DOMAIN hid_devices' \cup removing'
      BY <1>1, <1>3
    <2>2. hid_lost' = TRUE \/ ephemeral' \subseteq DOMAIN hid_devices' \cup removing'
      BY <1>1, <1>2, <2>1 DEF HidParts, HidPermits
    <2> QED BY <1>1, <1>2, <2>2 DEF HidParts, HidPermits
  <1>7. \A known, good : ViewStep(DOMAIN hid_devices, Good(hid_devices), Head(hid_pipe), known, good)
                             => DOMAIN hid_devices' = known /\ Good(hid_devices') = good
    BY <1>2, <1>3 DEF ViewStep, m
  <1>8. hid_undefined' \in BOOLEAN
    BY <1>1, <1>2
  <1> QED BY <1>1, <1>2, <1>5, <1>6, <1>7, <1>8, HidReport

\* Then it is taken out of the list, and its permission is revoked.
LEMMA HidRevoked == ASSUME HidInvariant, Choosing!DeviceRevoked PROVE HidInvariant'
  <1> DEFINE left == Choosing!Shown(device_map) \ removing
  <1>1. /\ removing' = {} /\ ephemeral' = ephemeral \ removing
        /\ device_map' = IF observing THEN Choosing!Items(left) ELSE device_map
        /\ UNCHANGED <<plugged, suitable, hid_manager, hid_pipe, hid_devices, controller, observing,
                       chooser, can_choose, hid_lost, hid_undefined>>
    BY DEF Choosing!DeviceRevoked
  <1>2. HidParts /\ hid_undefined = FALSE
    BY DEF HidInvariant, Choosing!DeviceRevoked
  <1>3. HidPipe'
    BY <1>1, <1>2, PipeKept DEF HidParts
  <1>4. HidFirst'
    BY <1>1, <1>2, FirstKept DEF HidParts
  <1>5. HidTypes' /\ HidPermits'
    BY <1>1, <1>2 DEF HidParts, HidTypes, HidPermits
  <1>6. observing = TRUE => left = Good(hid_devices)
    BY <1>2 DEF HidParts, HidShown
  <1> HIDE DEF left
  <1>7. HidShown'
    <2> SUFFICES ASSUME observing = TRUE PROVE Choosing!Shown(device_map') \ removing' = Good(hid_devices')
      BY <1>1 DEF HidShown, Choosing!Shown
    <2>1. Choosing!Shown(Choosing!Items(left)) = left
      BY ItemsShown
    <2> QED BY <1>1, <1>6, <2>1
  <1> QED BY <1>1, <1>2, <1>3, <1>4, <1>5, <1>7 DEF HidInvariant, HidParts

LEMMA HidChanged == ASSUME HidInvariant, Choosing!DeviceChanged PROVE HidInvariant'
  <1> DEFINE m == Head(hid_pipe)
             has_item == Choosing!PhysicalDeviceId(m.guid) \in DOMAIN device_map
  <1>1. /\ hid_devices' = Choosing!Known
        /\ UNCHANGED <<plugged, suitable, hid_manager, removing, ephemeral, controller, observing,
                       chooser, can_choose, hid_lost>>
    BY DEF Choosing!DeviceChanged
  <1>2. /\ device_map' = (CASE observing /\ ~m.ok -> Choosing!Items(Choosing!Shown(device_map) \ {m.guid})
                            [] observing /\ m.ok /\ ~has_item ->
                                  Choosing!Items(Choosing!Shown(device_map) \cup {m.guid})
                            [] OTHER -> device_map)
        /\ hid_undefined' = (observing /\ m.ok /\ has_item /\ m.guid \notin Choosing!Shown(device_map))
    BY DEF Choosing!DeviceChanged, Choosing!Message, Choosing!With, Choosing!Without
  <1>3. /\ HidParts /\ hid_undefined = FALSE /\ hid_manager = TRUE
        /\ hid_pipe # <<>> /\ hid_pipe' = Tail(hid_pipe) /\ m.type = "DeviceChanged"
        /\ removing = {} /\ Choosing!Receives("DeviceChanged")
    BY HidReceives DEF Choosing!DeviceChanged
  <1> HIDE DEF m, has_item
  <1>4. /\ DOMAIN hid_devices' = DOMAIN hid_devices \cup {m.guid}
        /\ m.ok => Good(hid_devices') = Good(hid_devices) \cup {m.guid}
        /\ ~m.ok => Good(hid_devices') = Good(hid_devices) \ {m.guid}
    BY <1>1, KnownFacts DEF m
  <1>5. \A known, good : ViewStep(DOMAIN hid_devices, Good(hid_devices), Head(hid_pipe), known, good)
                             => DOMAIN hid_devices' = known /\ Good(hid_devices') = good
    BY <1>3, <1>4 DEF ViewStep, m
  <1>6. hid_undefined' = FALSE /\ observing = TRUE
           => Choosing!Shown(device_map') \ removing' = Good(hid_devices')
    <2> SUFFICES ASSUME hid_undefined' = FALSE, observing = TRUE
                 PROVE  Choosing!Shown(device_map') = Good(hid_devices')
      BY <1>1, <1>3
    <2>1. Choosing!Shown(device_map) = Good(hid_devices)
      BY <1>3 DEF HidParts, HidShown
    <2>2. CASE ~m.ok
      <3>1. device_map' = Choosing!Items(Good(hid_devices) \ {m.guid})
        BY <1>2, <2>1, <2>2
      <3> QED BY <1>4, <2>2, <3>1, ItemsShown
    <2>3. CASE m.ok /\ ~has_item
      <3>1. device_map' = Choosing!Items(Good(hid_devices) \cup {m.guid})
        BY <1>2, <2>1, <2>3
      <3> QED BY <1>4, <2>3, <3>1, ItemsShown
    <2>4. CASE m.ok /\ has_item
      <3>1. m.guid \in Choosing!Shown(device_map)
        BY <1>2, <2>4
      <3>2. device_map' = device_map
        BY <1>2, <2>4
      <3> QED BY <1>4, <2>1, <2>4, <3>1, <3>2
    <2> QED BY <2>2, <2>3, <2>4
  <1>7. HidPermits'
    BY <1>1, <1>3, <1>4 DEF HidParts, HidPermits
  <1>8. hid_undefined' \in BOOLEAN
    BY <1>2, <1>3 DEF HidParts, HidTypes
  <1> QED BY <1>1, <1>3, <1>5, <1>6, <1>7, <1>8, HidReport

LEMMA HidConnectionLost ==
  ASSUME HidInvariant, Choosing!OnHidManagerConnectionError
  PROVE  HidInvariant'
  <1>1. /\ hid_manager' = FALSE /\ hid_pipe' = <<>> /\ hid_devices' = [g \in {} |-> TRUE]
        /\ ephemeral' = {} /\ observing' = FALSE /\ hid_lost' = TRUE
        /\ UNCHANGED <<plugged, suitable, controller, device_map, chooser, can_choose, hid_undefined>>
    BY DEF Choosing!OnHidManagerConnectionError
  <1>2. HidParts /\ hid_undefined = FALSE
    BY DEF HidInvariant, Choosing!OnHidManagerConnectionError, Choosing!Idle
  <1>3. DOMAIN hid_devices' = {} /\ Good(hid_devices') = {}
    BY <1>1 DEF Good
  <1>4. HidTypes'
    <2>1. hid_manager' \in BOOLEAN /\ observing' \in BOOLEAN /\ hid_lost' \in BOOLEAN
      BY <1>1
    <2> QED BY <1>1, <1>2, <1>3, <2>1 DEF HidParts, HidTypes
  <1>5. HidPipe'
    <2> DEFINE none == [i \in {0} |-> {}]
    <2>1. none[0] = {}
      OBVIOUS
    <2> HIDE DEF none
    <2>2. Views(none, none, hid_devices', hid_pipe')
      BY <1>1, <1>3, <2>1, SequenceEmpty DEF Views
    <2>3. hid_manager' # TRUE
      BY <1>1
    <2> QED BY <1>1, <2>2, <2>3, SequenceEmpty DEF HidPipe
  <1>6. HidFirst'
    BY <1>1 DEF HidFirst
  <1>7. HidShown' /\ HidPermits'
    BY <1>1 DEF HidShown, HidPermits
  <1> QED BY <1>1, <1>2, <1>4, <1>5, <1>6, <1>7 DEF HidInvariant, HidParts

\* A report is sent, of what has become of a device.
LEMMA HidReports ==
  ASSUME HidInvariant, NEW m, Choosing!Reports(m), m.type # "InitDeviceList",
         DOMAIN plugged' = Guids, \A g \in suitable' : g \in Guids /\ plugged'[g] # "no",
         ViewStep(Choosing!Present, Choosing!Present \cap suitable, m,
                  Choosing!Present', Choosing!Present' \cap suitable')
  PROVE  HidInvariant'
  <1>1. /\ hid_undefined = FALSE /\ HidParts
        /\ hid_pipe' = (IF hid_manager THEN Append(hid_pipe, m) ELSE hid_pipe)
        /\ UNCHANGED <<hid_manager, hid_devices, removing, ephemeral, controller, observing,
                       device_map, chooser, can_choose, hid_lost, hid_undefined>>
    BY DEF Choosing!Reports, HidInvariant
  <1>2. hid_manager \in BOOLEAN /\ (hid_manager = FALSE => hid_pipe = <<>>)
    BY <1>1 DEF HidParts, HidTypes
  <1>3. HidTypes'
    BY <1>1, <1>2 DEF HidParts, HidTypes
  <1>4. HidPipe' /\ HidFirst'
    <2>1. CASE hid_manager = TRUE
      <3>1. hid_pipe' = Append(hid_pipe, m)
        BY <1>1, <2>1
      <3> QED BY <1>1, <2>1, <3>1, ViewAppend, FirstAppend DEF HidParts
    <2>2. CASE hid_manager = FALSE
      <3>1. hid_pipe' = hid_pipe /\ hid_manager' # TRUE
        BY <1>1, <2>2
      <3>2. HidPipe'
        BY <1>1, <3>1 DEF HidParts, HidPipe
      <3> QED BY <1>1, <3>1, <3>2, FirstKept DEF HidParts
    <2> QED BY <1>2, <2>1, <2>2
  <1>5. HidShown' /\ HidPermits'
    BY <1>1 DEF HidParts, HidShown, HidPermits
  <1> QED BY <1>1, <1>3, <1>4, <1>5 DEF HidInvariant, HidParts

LEMMA HidPlugged ==
  ASSUME HidInvariant, NEW g \in Guids,
         (\E ok \in BOOLEAN : Choosing!PlugIn(g, ok)) \/ Choosing!Unplug(g) \/ Choosing!Change(g)
  PROVE  HidInvariant'
  <1>1. HidTypes
    BY DEF HidInvariant, HidParts, Choosing!PlugIn, Choosing!Unplug, Choosing!Change, Choosing!Reports
  <1>2. DOMAIN plugged = Guids /\ \A h \in suitable : h \in Guids /\ plugged[h] # "no"
    BY <1>1 DEF HidTypes
  <1> DEFINE P == Choosing!Present
             S == Choosing!Present \cap suitable
  <1>3. ASSUME NEW ok \in BOOLEAN, Choosing!PlugIn(g, ok) PROVE HidInvariant'
    <2> DEFINE m == [Choosing!Device("DeviceAdded", g) EXCEPT !.ok = ok]
    <2>1. m.type = "DeviceAdded" /\ m.guid = g /\ m.ok = ok
      BY DEF Choosing!Device
    <2>2. /\ plugged[g] = "no" /\ plugged' = [plugged EXCEPT ![g] = "yes"]
          /\ suitable' = (IF ok THEN suitable \cup {g} ELSE suitable)
          /\ Choosing!Reports(m)
      BY <1>3 DEF Choosing!PlugIn
    <2> HIDE DEF m
    <2>3. g \notin P /\ P' = P \cup {g} /\ g \notin suitable
      BY <1>2, <2>2 DEF Choosing!Present
    <2>4. S' = (IF ok THEN S \cup {g} ELSE S)
      BY <2>2, <2>3
    <2> HIDE DEF P, S
    <2>5. ViewStep(P, S, m, P', S')
      BY <2>1, <2>3, <2>4 DEF ViewStep
    <2>6. DOMAIN plugged' = Guids /\ \A h \in suitable' : h \in Guids /\ plugged'[h] # "no"
      BY <1>2, <2>2
    <2> QED BY <2>1, <2>2, <2>5, <2>6, HidReports DEF P, S
  <1>4. CASE Choosing!Unplug(g)
    <2> DEFINE m == Choosing!Device("DeviceRemoved", g)
    <2>1. m.type = "DeviceRemoved" /\ m.guid = g
      BY DEF Choosing!Device
    <2>2. /\ plugged' = [plugged EXCEPT ![g] = "gone"] /\ suitable' = suitable
          /\ Choosing!Reports(m)
      BY <1>4 DEF Choosing!Unplug
    <2> HIDE DEF m
    <2>3. P' = P \ {g}
      BY <1>2, <2>2 DEF Choosing!Present
    <2>4. S' = S \ {g}
      BY <2>2, <2>3
    <2> HIDE DEF P, S
    <2>5. ViewStep(P, S, m, P', S')
      BY <2>1, <2>3, <2>4 DEF ViewStep
    <2>6. DOMAIN plugged' = Guids /\ \A h \in suitable' : h \in Guids /\ plugged'[h] # "no"
      BY <1>2, <2>2
    <2> QED BY <2>1, <2>2, <2>5, <2>6, HidReports DEF P, S
  <1>5. CASE Choosing!Change(g)
    <2> DEFINE m == [Choosing!Device("DeviceChanged", g) EXCEPT !.ok = ~@]
    <2>1. m.type = "DeviceChanged" /\ m.guid = g /\ (m.ok <=> g \notin suitable)
      BY DEF Choosing!Device
    <2>2. /\ plugged[g] = "yes" /\ plugged' = plugged
          /\ suitable' = (suitable \cup {g}) \ (suitable \cap {g})
          /\ Choosing!Reports(m)
      BY <1>5 DEF Choosing!Change
    <2> HIDE DEF m
    <2>3. g \in P /\ P' = P
      BY <1>2, <2>2 DEF Choosing!Present
    <2>4. S' = (IF m.ok THEN S \cup {g} ELSE S \ {g})
      <3>1. CASE g \in suitable
        BY <2>1, <2>2, <2>3, <3>1
      <3>2. CASE g \notin suitable
        BY <2>1, <2>2, <2>3, <3>2
      <3> QED BY <3>1, <3>2
    <2> HIDE DEF P, S
    <2>5. ViewStep(P, S, m, P', S')
      BY <2>1, <2>3, <2>4 DEF ViewStep
    <2>6. DOMAIN plugged' = Guids /\ \A h \in suitable' : h \in Guids /\ plugged'[h] # "no"
      <3>1. suitable' \subseteq suitable \cup {g}
        BY <2>2
      <3> QED BY <1>2, <2>2, <3>1
    <2> QED BY <2>1, <2>2, <2>5, <2>6, HidReports DEF P, S
  <1> QED BY <1>3, <1>4, <1>5

LEMMA HidStep == HidInvariant /\ Choosing!Next => HidInvariant'
  BY HidRun, HidFrameDeleted, HidChoose, HidForgotten, HidInitDeviceList, HidGotDevices, HidAdded,
     HidRemoved, HidRevoked, HidChanged, HidConnectionLost, HidPlugged
     DEF Choosing!Next, Choosing!Receive, Choosing!Chooses

LEMMA HidStutter == HidInvariant /\ Choosing!NoStep => HidInvariant'
  <1> SUFFICES ASSUME HidInvariant, Choosing!NoStep PROVE HidInvariant'
    OBVIOUS
  <1>1. UNCHANGED <<plugged, suitable, hid_manager, hid_pipe, hid_devices, removing, ephemeral,
                    controller, observing, device_map, chooser, can_choose, hid_lost, hid_undefined>>
    BY DEF Choosing!NoStep, Choosing!hidVars
  <1>2. HidPipe => HidPipe'
    BY <1>1, PipeKept
  <1>3. (HidTypes => HidTypes') /\ (HidShown => HidShown') /\ (HidPermits => HidPermits')
    BY <1>1 DEF HidTypes, HidShown, HidPermits, Choosing!Shown
  <1>4. HidFirst => HidFirst'
    BY <1>1, FirstKept
  <1> QED BY <1>1, <1>2, <1>3, <1>4 DEF HidInvariant, HidParts

LEMMA HidSafe == HidInvariant => Choosing!ChoicesAreThere
  BY DEF HidInvariant, HidParts, HidTypes, HidShown, HidPermits, Good, Choosing!ChoicesAreThere

-----------------------------------------------------------------------------
\* The client of a Node stream gets all of it before it is told that the body
\* is complete; the network service takes the body of a net request for whole
\* only if it is; and the readers of its response get its chunks in order and
\* its end last (NodeStreamLoader, JSChunkedDataPipeGetter, IncomingMessage).
THEOREM BodiesCorrect == ServicesSpec => []BodyIsComplete
  <1>1. ServicesInit => StreamInvariant /\ UploadInvariant /\ ResponseInvariant
    BY StreamInit, UploadInit, ResponseInit DEF ServicesInit
  <1>2. StreamInvariant /\ [ServicesNext]_serviceVars => StreamInvariant'
    BY StreamStep, StreamStutter DEF ServicesNext, serviceVars, Streaming!NoStep
  <1>3. UploadInvariant /\ [ServicesNext]_serviceVars => UploadInvariant'
    BY UploadStep, UploadStutter DEF ServicesNext, serviceVars, Requesting!NoStep
  <1>4. UploadInvariant /\ ResponseInvariant /\ [ServicesNext]_serviceVars => ResponseInvariant'
    BY ResponseStep, ResponseStutter DEF ServicesNext, serviceVars, Requesting!NoStep
  <1>5. StreamInvariant /\ UploadInvariant /\ ResponseInvariant => BodyIsComplete
    BY StreamSafe, NetSafe DEF BodyIsComplete
  <1> QED BY <1>1, <1>2, <1>3, <1>4, <1>5, PTL DEF ServicesSpec

-----------------------------------------------------------------------------
\* A HID chooser shows the devices that are there, and a permission lasts as
\* long as its device, but for the device whose removal is told (DeviceRemoved of
\* HidChooserContext, HidChooserController).
THEOREM ChoicesCorrect == ServicesSpec => []ChoicesAreThere
  <1>1. ServicesInit => HidInvariant
    BY HidInit DEF ServicesInit
  <1>2. HidInvariant /\ [ServicesNext]_serviceVars => HidInvariant'
    BY HidStep, HidStutter DEF ServicesNext, serviceVars, Choosing!NoStep
  <1>3. HidInvariant => ChoicesAreThere
    BY HidSafe DEF ChoicesAreThere
  <1> QED BY <1>1, <1>2, <1>3, PTL DEF ServicesSpec
=============================================================================
