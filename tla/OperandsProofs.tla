--------------------------- MODULE OperandsProofs ---------------------------
(***************************************************************************)
(* Proofs about Operands: whatever is edited, deleted or restarted, and    *)
(* whichever calls fail while a pass works through them, the operands of a *)
(* DeviceConfig that reports Ready are those of its spec, but for those    *)
(* that somebody deleted and for a labeller that could not be looked up;   *)
(* and nothing is left of one that is gone.                                *)
(*                                                                         *)
(* The argument follows the calls a pass still has to make.  What a pass   *)
(* has dealt with is as its copy of the spec asks; if anything moved since *)
(* the copy was taken, a request is in the queue, so another pass comes.   *)
(***************************************************************************)
EXTENDS Operands, TLAPS

---------------------------------------------------------------------------
\* Sequences of calls

Calls(q) == {q[i] : i \in DOMAIN q}

\* Exactly the last call ends the pass
Ending(q) ==
  /\ q \in Seq(Call) /\ q # <<>>
  /\ \A i \in DOMAIN q : q[i].call \in Last <=> i = Len(q)

LEMMA CallTypes ==
  ASSUME NEW o \in Operand
  PROVE  /\ Put(o) \in Call /\ Remove(o) \in Call
         /\ Put(o).call = "put" /\ Put(o).on = o
         /\ Remove(o).call = "remove" /\ Remove(o).on = o
BY DEF Put, Remove, Call

LEMMA DoTypes ==
  ASSUME NEW c \in {"configmaps", "label"} \cup Last
  PROVE  Do(c) \in Call /\ Do(c).call = c
BY DEF Do, Call, Operand

LEMMA CallsCat ==
  ASSUME NEW p \in Seq(Call), NEW q \in Seq(Call)
  PROVE  /\ p \o q \in Seq(Call) /\ Calls(p \o q) = Calls(p) \cup Calls(q)
         /\ DOMAIN p \subseteq DOMAIN (p \o q)
         /\ \A i \in DOMAIN p : (p \o q)[i] = p[i]
<1>1. /\ p \o q \in Seq(Call) /\ Len(p \o q) = Len(p) + Len(q)
      /\ \A i \in 1 .. Len(p) : (p \o q)[i] = p[i]
      /\ \A i \in 1 .. Len(q) : (p \o q)[i + Len(p)] = q[i]
      /\ DOMAIN p = 1 .. Len(p) /\ DOMAIN q = 1 .. Len(q)
      /\ DOMAIN (p \o q) = 1 .. Len(p) + Len(q) /\ Len(p) \in Nat /\ Len(q) \in Nat
  OBVIOUS
<1>2. Calls(p \o q) \subseteq Calls(p) \cup Calls(q)
  <2> SUFFICES ASSUME NEW i \in 1 .. Len(p) + Len(q)
               PROVE  (p \o q)[i] \in Calls(p) \cup Calls(q)
    BY <1>1 DEF Calls
  <2>1. CASE i <= Len(p)
    BY <1>1, <2>1 DEF Calls
  <2>2. CASE i > Len(p)
    <3>1. i - Len(p) \in 1 .. Len(q) /\ (i - Len(p)) + Len(p) = i
      BY <1>1, <2>2
    <3>2. (p \o q)[i] = q[i - Len(p)]
      BY <1>1, <3>1
    <3> QED BY <1>1, <3>1, <3>2 DEF Calls
  <2> QED BY <1>1, <2>1, <2>2
<1>3. Calls(p) \subseteq Calls(p \o q)
  <2> SUFFICES ASSUME NEW i \in 1 .. Len(p) PROVE p[i] \in Calls(p \o q)
    BY <1>1 DEF Calls
  <2>1. i \in DOMAIN (p \o q) /\ (p \o q)[i] = p[i]
    BY <1>1
  <2> QED BY <2>1 DEF Calls
<1>4. Calls(q) \subseteq Calls(p \o q)
  <2> SUFFICES ASSUME NEW i \in 1 .. Len(q) PROVE q[i] \in Calls(p \o q)
    BY <1>1 DEF Calls
  <2>1. i + Len(p) \in DOMAIN (p \o q) /\ (p \o q)[i + Len(p)] = q[i]
    BY <1>1
  <2> QED BY <2>1 DEF Calls
<1> QED BY <1>1, <1>2, <1>3, <1>4

LEMMA CallsOne ==
  ASSUME NEW a \in Call PROVE <<a>> \in Seq(Call) /\ Calls(<<a>>) = {a}
<1>1. DOMAIN <<a>> = {1}
  OBVIOUS
<1> QED BY <1>1 DEF Calls

LEMMA CallsTwo ==
  ASSUME NEW a \in Call, NEW b \in Call
  PROVE  <<a, b>> \in Seq(Call) /\ Calls(<<a, b>>) = {a, b}
<1>1. DOMAIN <<a, b>> = {1, 2}
  OBVIOUS
<1> QED BY <1>1 DEF Calls

LEMMA CallsThree ==
  ASSUME NEW a \in Call, NEW b \in Call, NEW c \in Call
  PROVE  <<a, b, c>> \in Seq(Call) /\ Calls(<<a, b, c>>) = {a, b, c}
<1>1. DOMAIN <<a, b, c>> = {1, 2, 3}
  OBVIOUS
<1> QED BY <1>1 DEF Calls

LEMMA CallsIf ==
  ASSUME NEW on, NEW q \in Seq(Call)
  PROVE  If(on, q) \in Seq(Call) /\ Calls(If(on, q)) = IF on THEN Calls(q) ELSE {}
BY DEF If, Calls

LEMMA EndingCat ==
  ASSUME NEW p \in Seq(Call), \A c \in Calls(p) : c.call \notin Last, NEW q, Ending(q)
  PROVE  Ending(p \o q) /\ (p \o q)[Len(p \o q)] = q[Len(q)]
<1>1. /\ p \o q \in Seq(Call) /\ Len(p \o q) = Len(p) + Len(q)
      /\ \A i \in 1 .. Len(p) : (p \o q)[i] = p[i]
      /\ \A i \in 1 .. Len(q) : (p \o q)[i + Len(p)] = q[i]
      /\ DOMAIN p = 1 .. Len(p) /\ DOMAIN q = 1 .. Len(q)
      /\ DOMAIN (p \o q) = 1 .. Len(p) + Len(q) /\ Len(p) \in Nat /\ Len(q) \in Nat \ {0}
  BY DEF Ending
<1>2. (p \o q)[Len(p \o q)] = q[Len(q)]
  BY <1>1
<1>3. ASSUME NEW i \in 1 .. Len(p) + Len(q)
      PROVE  (p \o q)[i].call \in Last <=> i = Len(p) + Len(q)
  <2>1. CASE i <= Len(p)
    <3>1. i \in DOMAIN p /\ (p \o q)[i] = p[i] /\ i # Len(p) + Len(q)
      BY <1>1, <2>1
    <3> QED BY <3>1 DEF Calls
  <2>2. CASE i > Len(p)
    <3>1. i - Len(p) \in 1 .. Len(q) /\ (i - Len(p)) + Len(p) = i
      BY <1>1, <2>2
    <3>2. (p \o q)[i] = q[i - Len(p)]
      BY <1>1, <3>1
    <3>3. q[i - Len(p)].call \in Last <=> i - Len(p) = Len(q)
      BY <1>1, <3>1 DEF Ending
    <3> QED BY <1>1, <3>1, <3>2, <3>3
  <2> QED BY <1>1, <2>1, <2>2
<1>4. p \o q # <<>>
  BY <1>1
<1> QED BY <1>1, <1>2, <1>3, <1>4 DEF Ending

---------------------------------------------------------------------------
\* What Reconcile and finalizeDeviceConfig are going to do

\* The calls of handleMetricsExporter
LEMMA ExporterCalls ==
  ASSUME NEW s
  PROVE  /\ handleMetricsExporter(s) \in Seq(Call)
         /\ Calls(handleMetricsExporter(s)) =
              IF ~s.exporter THEN {Remove("monitor"), Remove("service"), Remove("exporter")}
              ELSE (IF s.auth THEN {Put("secret")} ELSE {})
                   \cup {Put("exporter"), Put("service"), PutOrRemove(s.monitor, "monitor")}
<1> DEFINE A == If(s.auth, <<Put("secret")>>)
           B == <<Put("exporter"), Put("service"), PutOrRemove(s.monitor, "monitor")>>
<1>0. "secret" \in Operand /\ "exporter" \in Operand /\ "service" \in Operand
      /\ "monitor" \in Operand
  BY DEF Operand, DaemonSets
<1>1. /\ Put("secret") \in Call /\ Put("exporter") \in Call /\ Put("service") \in Call
      /\ Remove("monitor") \in Call /\ Remove("service") \in Call /\ Remove("exporter") \in Call
      /\ PutOrRemove(s.monitor, "monitor") \in Call
  BY <1>0, CallTypes DEF PutOrRemove
<1>2. /\ finalizeMetricsExporter \in Seq(Call)
      /\ Calls(finalizeMetricsExporter) = {Remove("monitor"), Remove("service"), Remove("exporter")}
  BY <1>1, CallsThree, Zenon DEF finalizeMetricsExporter
<1>3. A \in Seq(Call) /\ Calls(A) = IF s.auth THEN {Put("secret")} ELSE {}
  BY <1>1, CallsOne, CallsIf
<1>4. B \in Seq(Call) /\ Calls(B) = {Put("exporter"), Put("service"), PutOrRemove(s.monitor, "monitor")}
  BY <1>1, CallsThree, Zenon
<1>5. A \o B \in Seq(Call) /\ Calls(A \o B) = Calls(A) \cup Calls(B)
  BY <1>3, <1>4, CallsCat
<1>6. handleMetricsExporter(s) = IF ~s.exporter THEN finalizeMetricsExporter ELSE A \o B
  BY DEF handleMetricsExporter
<1> HIDE DEF A, B
<1> QED BY <1>2, <1>3, <1>4, <1>5, <1>6

\* The calls of Reconcile, and where those of the driver stand
LEMMA ReconcileCalls ==
  ASSUME NEW s
  PROVE  LET kmm == ShouldUseKMM(s) q == Reconcile(s) IN
         /\ Ending(q) /\ q[Len(q)].call = "publish"
         /\ \A o \in Operand :
              /\ Put(o) \in Calls(q) =>
                   o \in Wanted(s) \cup {"secret"}
              /\ Remove(o) \in Calls(q) => o \in Unwanted(s)
              /\ o \in Wanted(s) => Put(o) \in Calls(q)
              /\ o \in Unwanted(s) => Remove(o) \in Calls(q)
         /\ kmm => /\ 1 \in DOMAIN q /\ 2 \in DOMAIN q
                   /\ q[1] = Do("configmaps") /\ q[2] = Put("module")
                   /\ {Do("configmaps"), Do("label")} \subseteq Calls(q)
         /\ ~kmm => (\A c \in Calls(q) : c.call # "label") /\ Put("module") \notin Calls(q)
<1> DEFINE kmm == ShouldUseKMM(s)
           K == If(kmm, <<Do("configmaps"), Put("module")>>)
           P == <<Put("plugin")>>
           L == If(kmm, <<Do("label")>>)
           N == <<PutOrRemove(s.labeller, "labeller")>>
           M == handleMetricsExporter(s)
           R == PutOrRemove(s.runner /\ s.exporter, "runner")
           G == PutOrRemove(s.manager, "manager")
           T == <<R, G, Do("publish")>>
           q == Reconcile(s)
<1>0. \A o \in {"module", "plugin", "labeller", "runner", "manager"} : o \in Operand
  BY DEF Operand, DaemonSets
<1>1. /\ Put("module") \in Call /\ Put("plugin") \in Call
      /\ PutOrRemove(s.labeller, "labeller") \in Call /\ R \in Call /\ G \in Call
  BY <1>0, CallTypes DEF PutOrRemove
<1>2. Do("configmaps") \in Call /\ Do("label") \in Call /\ Do("publish") \in Call
  BY DoTypes DEF Last
<1>3. /\ K \in Seq(Call) /\ Calls(K) = IF kmm THEN {Do("configmaps"), Put("module")} ELSE {}
      /\ P \in Seq(Call) /\ Calls(P) = {Put("plugin")}
      /\ L \in Seq(Call) /\ Calls(L) = IF kmm THEN {Do("label")} ELSE {}
      /\ N \in Seq(Call) /\ Calls(N) = {PutOrRemove(s.labeller, "labeller")}
  <2>1. <<Do("configmaps"), Put("module")>> \in Seq(Call) /\ <<Do("label")>> \in Seq(Call)
        /\ Calls(<<Do("configmaps"), Put("module")>>) = {Do("configmaps"), Put("module")}
        /\ Calls(<<Do("label")>>) = {Do("label")}
    BY <1>1, <1>2, CallsOne, CallsTwo
  <2> QED BY <1>1, <1>2, <2>1, CallsOne, CallsIf
<1>4. T \in Seq(Call) /\ Calls(T) = {R, G, Do("publish")}
  BY <1>1, <1>2, CallsThree, Zenon
<1>5. /\ M \in Seq(Call)
      /\ Calls(M) =
           IF ~s.exporter THEN {Remove("monitor"), Remove("service"), Remove("exporter")}
           ELSE (IF s.auth THEN {Put("secret")} ELSE {})
                \cup {Put("exporter"), Put("service"), PutOrRemove(s.monitor, "monitor")}
  BY ExporterCalls
<1>6. /\ K \o P \o L \o N \o M \in Seq(Call)
      /\ Calls(K \o P \o L \o N \o M) =
           Calls(K) \cup Calls(P) \cup Calls(L) \cup Calls(N) \cup Calls(M)
      /\ DOMAIN K \subseteq DOMAIN (K \o P \o L \o N \o M)
      /\ \A i \in DOMAIN K : (K \o P \o L \o N \o M)[i] = K[i]
  <2> HIDE DEF K, P, L, N, M
  <2>1. /\ K \o P \in Seq(Call) /\ Calls(K \o P) = Calls(K) \cup Calls(P)
        /\ DOMAIN K \subseteq DOMAIN (K \o P) /\ \A i \in DOMAIN K : (K \o P)[i] = K[i]
    BY <1>3, CallsCat
  <2> DEFINE KP == K \o P
             KPL == KP \o L
             KPLN == KPL \o N
  <2> HIDE DEF KP, KPL, KPLN
  <2>2. /\ KPL \in Seq(Call) /\ Calls(KPL) = Calls(KP) \cup Calls(L)
        /\ DOMAIN KP \subseteq DOMAIN KPL /\ \A i \in DOMAIN KP : KPL[i] = KP[i]
    <3>1. KP \in Seq(Call)
      BY <2>1 DEF KP
    <3> QED BY <1>3, <3>1, CallsCat DEF KPL
  <2>3. /\ KPLN \in Seq(Call) /\ Calls(KPLN) = Calls(KPL) \cup Calls(N)
        /\ DOMAIN KPL \subseteq DOMAIN KPLN /\ \A i \in DOMAIN KPL : KPLN[i] = KPL[i]
    BY <1>3, <2>2, CallsCat DEF KPLN
  <2>4. /\ KPLN \o M \in Seq(Call) /\ Calls(KPLN \o M) = Calls(KPLN) \cup Calls(M)
        /\ DOMAIN KPLN \subseteq DOMAIN (KPLN \o M) /\ \A i \in DOMAIN KPLN : (KPLN \o M)[i] = KPLN[i]
    BY <1>5, <2>3, CallsCat
  <2>5. Calls(KP) = Calls(K) \cup Calls(P) /\ DOMAIN K \subseteq DOMAIN KP
        /\ \A i \in DOMAIN K : KP[i] = K[i]
    BY <2>1 DEF KP
  <2>6. KPLN \o M = K \o P \o L \o N \o M
    BY DEF KP, KPL, KPLN
  <2>7. /\ Calls(KPLN \o M) = Calls(K) \cup Calls(P) \cup Calls(L) \cup Calls(N) \cup Calls(M)
        /\ DOMAIN K \subseteq DOMAIN (KPLN \o M)
        /\ \A i \in DOMAIN K : (KPLN \o M)[i] = K[i]
    BY <2>2, <2>3, <2>4, <2>5
  <2> QED BY <2>4, <2>6, <2>7
<1> DEFINE B == K \o P \o L \o N \o M
<1>7. q = B \o T
  BY DEF Reconcile
<1>8. Calls(q) = Calls(B) \cup Calls(T) /\ DOMAIN B \subseteq DOMAIN q
      /\ \A i \in DOMAIN B : q[i] = B[i]
  <2> HIDE DEF B, T, q
  <2> QED BY <1>4, <1>6, <1>7, CallsCat DEF B
<1>9. Ending(q) /\ q[Len(q)].call = "publish"
  <2>1. R.call \notin Last /\ G.call \notin Last /\ Do("publish").call = "publish"
    BY <1>0, CallTypes, DoTypes DEF PutOrRemove, Last
  <2>2. Ending(T) /\ T[Len(T)].call = "publish"
    <3> HIDE DEF R, G
    <3>1. Len(T) = 3 /\ DOMAIN T = {1, 2, 3} /\ T[1] = R /\ T[2] = G /\ T[3] = Do("publish")
      OBVIOUS
    <3> HIDE DEF T
    <3> QED BY <1>4, <2>1, <3>1 DEF Ending, Last
  <2>3. \A c \in Calls(B) : c.call \notin Last
    <3>1. \A c \in Calls(B) : c.call \in {"put", "remove", "configmaps", "label"}
      <4> HIDE DEF K, P, L, N, M, B, kmm
      <4> QED BY <1>3, <1>5, <1>6 DEF B, Put, Remove, PutOrRemove, Do
    <3> QED BY <3>1 DEF Last
  <2> HIDE DEF B, T, q
  <2>4. B \in Seq(Call)
    BY <1>6 DEF B
  <2> QED BY <1>7, <2>2, <2>3, <2>4, EndingCat
<1>10. Calls(q) =
         (IF kmm THEN {Do("configmaps"), Put("module"), Do("label")} ELSE {})
         \cup {Put("plugin"), PutOrRemove(s.labeller, "labeller"), R, G, Do("publish")}
         \cup (IF ~s.exporter THEN {Remove("monitor"), Remove("service"), Remove("exporter")}
               ELSE (IF s.auth THEN {Put("secret")} ELSE {})
                    \cup {Put("exporter"), Put("service"), PutOrRemove(s.monitor, "monitor")})
  <2> HIDE DEF K, P, L, N, M, B, T, R, G, kmm, q
  <2> QED BY <1>3, <1>4, <1>5, <1>6, <1>8 DEF B
<1>11. \A o \in Operand :
         /\ Put(o) \in Calls(q) => o \in Wanted(s) \cup {"secret"}
         /\ Remove(o) \in Calls(q) => o \in Unwanted(s)
  <2> SUFFICES ASSUME NEW o \in Operand
               PROVE  /\ Put(o) \in Calls(q) => o \in Wanted(s) \cup {"secret"}
                      /\ Remove(o) \in Calls(q) => o \in Unwanted(s)
    OBVIOUS
  <2> HIDE DEF q
  <2>1. Put(o) \in Calls(q) => o \in Wanted(s) \cup {"secret"}
    BY <1>10 DEF Put, Remove, PutOrRemove, Do, Wanted
  <2>2. Remove(o) \in Calls(q) => o \in Unwanted(s)
    BY <1>10 DEF Put, Remove, PutOrRemove, Do, Wanted, Unwanted
  <2> QED BY <2>1, <2>2
<1>12. \A o \in Operand :
         /\ o \in Wanted(s) => Put(o) \in Calls(q)
         /\ o \in Unwanted(s) => Remove(o) \in Calls(q)
  <2> HIDE DEF q
  <2> QED BY <1>10 DEF Wanted, Unwanted, Operand, DaemonSets, PutOrRemove
<1>13. kmm => /\ 1 \in DOMAIN q /\ 2 \in DOMAIN q
              /\ q[1] = Do("configmaps") /\ q[2] = Put("module")
  <2>1. kmm => DOMAIN K = {1, 2} /\ K[1] = Do("configmaps") /\ K[2] = Put("module")
    BY DEF If
  <2> HIDE DEF K, P, L, N, M, B, kmm, q
  <2> QED BY <1>6, <1>8, <2>1 DEF B
<1>14. ~kmm => (\A c \in Calls(q) : c.call # "label") /\ Put("module") \notin Calls(q)
  <2> HIDE DEF q, kmm
  <2> QED BY <1>10 DEF Put, Remove, PutOrRemove, Do
<1>15. kmm => {Do("configmaps"), Do("label")} \subseteq Calls(q)
  <2> HIDE DEF q, kmm
  <2> QED BY <1>10
<1> HIDE DEF q, kmm
<1> QED BY <1>9, <1>11, <1>12, <1>13, <1>14, <1>15 DEF q, kmm

\* finalizeDeviceConfig removes every operand but the Module and the Secret
LEMMA FinalizeCalls ==
  LET q == finalizeDeviceConfig IN
  /\ Ending(q) /\ q[Len(q)].call = "release"
  /\ \A c \in Calls(q) : c.call \in {"remove", "release"}
  /\ \A o \in Operand \ {"secret", "module"} : Remove(o) \in Calls(q)
  /\ Remove("module") \notin Calls(q)
<1> DEFINE A == <<Remove("manager"), Remove("runner")>>
           B == finalizeMetricsExporter
           C == <<Remove("plugin"), Remove("labeller"), Do("release")>>
           q == finalizeDeviceConfig
<1>0. \A o \in {"manager", "runner", "monitor", "service", "exporter", "plugin", "labeller"} :
        Remove(o) \in Call /\ Remove(o).call = "remove"
  BY CallTypes DEF Operand, DaemonSets
<1>1. Do("release") \in Call /\ Do("release").call = "release"
  BY DoTypes DEF Last
<1>2. A \in Seq(Call) /\ Calls(A) = {Remove("manager"), Remove("runner")}
  BY <1>0, CallsTwo
<1>3. B \in Seq(Call) /\ Calls(B) = {Remove("monitor"), Remove("service"), Remove("exporter")}
  <2>1. Remove("monitor") \in Call /\ Remove("service") \in Call /\ Remove("exporter") \in Call
    BY <1>0
  <2> QED BY <2>1, CallsThree, Zenon DEF finalizeMetricsExporter
<1>4. C \in Seq(Call) /\ Calls(C) = {Remove("plugin"), Remove("labeller"), Do("release")}
  <2>1. Remove("plugin") \in Call /\ Remove("labeller") \in Call
    BY <1>0
  <2> QED BY <1>1, <2>1, CallsThree, Zenon
<1>5. Ending(C) /\ C[Len(C)].call = "release"
  <2>1. /\ Len(C) = 3 /\ DOMAIN C = {1, 2, 3}
        /\ C[1] = Remove("plugin") /\ C[2] = Remove("labeller") /\ C[3] = Do("release")
    OBVIOUS
  <2>2. Remove("plugin").call = "remove" /\ Remove("labeller").call = "remove"
    BY <1>0
  <2> HIDE DEF C
  <2>3. C # <<>>
    BY <2>1
  <2> QED BY <1>1, <1>4, <2>1, <2>2, <2>3 DEF Ending, Last
<1>6. q = (A \o B) \o C
  BY DEF finalizeDeviceConfig
<1> HIDE DEF A, B, C, q
<1>7. A \o B \in Seq(Call) /\ Calls(A \o B) = Calls(A) \cup Calls(B)
  BY <1>2, <1>3, CallsCat
<1>8. \A c \in Calls(A \o B) : c.call = "remove"
  BY <1>0, <1>2, <1>3, <1>7
<1>9. Ending(q) /\ q[Len(q)].call = "release"
  BY <1>5, <1>6, <1>7, <1>8, EndingCat DEF Last
<1>10. Calls(q) = Calls(A \o B) \cup Calls(C)
  BY <1>4, <1>6, <1>7, CallsCat
<1>11. \A c \in Calls(q) : c.call \in {"remove", "release"}
  BY <1>0, <1>1, <1>4, <1>8, <1>10
<1>12. \A o \in Operand \ {"secret", "module"} : Remove(o) \in Calls(q)
  BY <1>2, <1>3, <1>4, <1>7, <1>10 DEF Operand, DaemonSets
<1>13. Remove("module") \notin Calls(q)
  BY <1>2, <1>3, <1>4, <1>7, <1>10 DEF Remove, Do
<1> QED BY <1>9, <1>11, <1>12, <1>13 DEF q

---------------------------------------------------------------------------
\* One call of a pass

PassRecord ==
  [pc : {"finalizer", "run"}, todo : Seq(Call), spec : Specs, gen : Nat \ {0},
   count : [Counted -> 0 .. 1], nodes : SUBSET NodeSet, host : Hosts]

LEMMA PassInvEnding ==
  PassInv <=> (pass.pc # "idle" => pass \in PassRecord /\ Ending(pass.todo))
BY DEF PassInv, PassRecord, Ending

LEMMA ToComeCalls == ASSUME NEW c PROVE ToCome(c) <=> c \in Calls(pass.todo)
BY DEF ToCome, Calls

\* The call at hand, if it does not end the pass, leaves the others to come
LEMMA TailCalls ==
  ASSUME NEW q, Ending(q), q[1].call \notin Last
  PROVE  /\ Ending(Tail(q)) /\ Tail(q)[Len(Tail(q))] = q[Len(q)]
         /\ Calls(Tail(q)) \subseteq Calls(q) /\ Calls(q) \subseteq Calls(Tail(q)) \cup {q[1]}
         /\ \A i \in DOMAIN Tail(q) : i + 1 \in DOMAIN q /\ Tail(q)[i] = q[i + 1]
<1>1. q \in Seq(Call) /\ Len(q) \in Nat \ {0} /\ DOMAIN q = 1 .. Len(q)
  BY DEF Ending
<1>2. Len(q) # 1
  BY <1>1 DEF Ending
<1>3. /\ Tail(q) \in Seq(Call) /\ Len(Tail(q)) = Len(q) - 1
      /\ DOMAIN Tail(q) = 1 .. Len(q) - 1
      /\ \A i \in 1 .. Len(q) - 1 : Tail(q)[i] = q[i + 1]
  BY <1>1
<1>4. Len(q) - 1 \in 1 .. Len(q) - 1 /\ (Len(q) - 1) + 1 = Len(q) /\ Tail(q) # <<>>
  <2>1. Len(q) - 1 \in 1 .. Len(q) - 1 /\ (Len(q) - 1) + 1 = Len(q)
    BY <1>1, <1>2
  <2>2. Len(Tail(q)) # 0 /\ Len(<<>>) = 0
    BY <1>3, <2>1
  <2>3. Tail(q) # <<>>
    BY <2>2, Zenon
  <2> QED BY <2>1, <2>3
<1>5. \A i \in DOMAIN Tail(q) : i + 1 \in DOMAIN q /\ Tail(q)[i] = q[i + 1]
  BY <1>1, <1>3
<1>6. Tail(q)[Len(Tail(q))] = q[Len(q)]
  BY <1>3, <1>4
<1>7. ASSUME NEW i \in DOMAIN Tail(q) PROVE Tail(q)[i].call \in Last <=> i = Len(Tail(q))
  <2>1. i + 1 \in DOMAIN q /\ Tail(q)[i] = q[i + 1] /\ i \in Nat
    BY <1>3, <1>5
  <2>2. q[i + 1].call \in Last <=> i + 1 = Len(q)
    BY <2>1 DEF Ending
  <2>3. i + 1 = Len(q) <=> i = Len(q) - 1
    BY <1>1, <2>1
  <2> QED BY <1>3, <2>1, <2>2, <2>3
<1>8. Calls(Tail(q)) \subseteq Calls(q)
  BY <1>5 DEF Calls
<1>9. Calls(q) \subseteq Calls(Tail(q)) \cup {q[1]}
  <2> SUFFICES ASSUME NEW i \in 1 .. Len(q), i # 1 PROVE q[i] \in Calls(Tail(q))
    BY <1>1 DEF Calls
  <2>1. i - 1 \in DOMAIN Tail(q) /\ (i - 1) + 1 = i
    BY <1>1, <1>3
  <2>2. Tail(q)[i - 1] = q[i]
    BY <1>5, <2>1
  <2> QED BY <2>1, <2>2 DEF Calls
<1> QED BY <1>3, <1>4, <1>5, <1>6, <1>7, <1>8, <1>9 DEF Ending

\* The last call is the only one left
LEMMA LastCall ==
  ASSUME NEW q, Ending(q), q[1].call \in Last
  PROVE  Calls(q) = {q[1]} /\ Len(q) = 1
<1>1. q \in Seq(Call) /\ Len(q) \in Nat \ {0} /\ DOMAIN q = 1 .. Len(q)
  BY DEF Ending
<1>2. Len(q) = 1
  BY <1>1 DEF Ending
<1> QED BY <1>1, <1>2 DEF Calls

\* A pass that advances keeps its copy and its end
LEMMA AdvanceKeeps ==
  ASSUME PassInv, pass.pc = "run", pass.todo[1].call \notin Last, Advance
  PROVE  /\ PassInv' /\ pass'.pc = "run" /\ pass'.todo = Tail(pass.todo)
         /\ pass'.spec = pass.spec /\ pass'.gen = pass.gen /\ pass'.count = pass.count
         /\ pass'.nodes = pass.nodes /\ pass'.host = pass.host
         /\ \A c : Ends(c)' <=> Ends(c)
         /\ \A c : ToCome(c)' => ToCome(c)
         /\ \A c : ToCome(c) => ToCome(c)' \/ c = pass.todo[1]
         /\ \A i \in DOMAIN pass'.todo :
              i + 1 \in DOMAIN pass.todo /\ pass'.todo[i] = pass.todo[i + 1]
<1>1. pass \in PassRecord /\ Ending(pass.todo)
  BY PassInvEnding
<1>2. /\ pass'.pc = "run" /\ pass'.todo = Tail(pass.todo)
      /\ pass'.spec = pass.spec /\ pass'.gen = pass.gen /\ pass'.count = pass.count
      /\ pass'.nodes = pass.nodes /\ pass'.host = pass.host
      /\ Tail(pass.todo) \in Seq(Call) => pass' \in PassRecord
  BY <1>1 DEF Advance, PassRecord
<1>3. /\ Ending(pass'.todo) /\ pass'.todo[Len(pass'.todo)] = pass.todo[Len(pass.todo)]
      /\ Calls(pass'.todo) \subseteq Calls(pass.todo)
      /\ Calls(pass.todo) \subseteq Calls(pass'.todo) \cup {pass.todo[1]}
      /\ \A i \in DOMAIN pass'.todo :
           i + 1 \in DOMAIN pass.todo /\ pass'.todo[i] = pass.todo[i + 1]
  <2> DEFINE q == pass.todo
  <2>1. Ending(q) /\ q[1].call \notin Last
    BY <1>1
  <2> HIDE DEF q
  <2>2. /\ Ending(Tail(q)) /\ Tail(q)[Len(Tail(q))] = q[Len(q)]
        /\ Calls(Tail(q)) \subseteq Calls(q) /\ Calls(q) \subseteq Calls(Tail(q)) \cup {q[1]}
        /\ \A i \in DOMAIN Tail(q) : i + 1 \in DOMAIN q /\ Tail(q)[i] = q[i + 1]
    BY <2>1, TailCalls
  <2>3. pass'.todo = Tail(q) /\ pass.todo = q
    BY <1>2 DEF q
  <2> QED BY <2>2, <2>3, Zenon
<1>4. PassInv'
  BY <1>2, <1>3 DEF PassInv, PassRecord, Ending
<1>5. \A c : Ends(c)' <=> Ends(c)
  BY <1>2, <1>3 DEF Ends
<1>6. \A c : /\ ToCome(c)' => ToCome(c)
             /\ ToCome(c) => ToCome(c)' \/ c = pass.todo[1]
  BY <1>3 DEF ToCome, Calls
<1> QED BY <1>2, <1>3, <1>4, <1>5, <1>6

---------------------------------------------------------------------------
\* Types

\* TypeOK without what it says of a pass
BaseOK ==
  /\ dc \in DeviceConfig
  /\ DOMAIN obj = Operand
  /\ terminating \in BOOLEAN /\ queued \in BOOLEAN
  /\ DOMAIN label = NodeSet
  /\ host \in Hosts
  /\ exists \subseteq Refs
  /\ pods \in [Counted -> 0 .. 1]
  /\ DOMAIN seen = Counted /\ \A d \in Counted : seen[d].pods \in 0 .. 1
  /\ used \in 0 .. MaxDisturbances
  /\ hist \in [validated : SUBSET Nat, adopted : SUBSET Nat, lost : SUBSET Operand,
               stale : SUBSET Counted, cut : BOOLEAN]

\* The inductive invariant without the types
Rest ==
  /\ PassInv /\ PhaseInv /\ CallsFit /\ Current /\ Removing /\ Untouched
  /\ Unlabelling /\ Served /\ Vetted /\ ReadyValidated /\ NothingLeft

LEMMA Parts == OperandsInv => BaseOK /\ Rest
BY DEF OperandsInv, Rest, BaseOK, TypeOK

LEMMA TypeFromParts ==
  ASSUME BaseOK, PassInv, PhaseInv PROVE TypeOK
<1>1. pass.pc # "idle" => /\ pass \in PassRecord /\ pass.todo # <<>>
  BY DEF PassInv, PassRecord
<1>2. pass.pc \in {"idle", "finalizer", "run"}
  BY <1>1 DEF PassRecord
<1>3. pass.pc = "run" => pass.todo # <<>> /\ pass.nodes \subseteq NodeSet
  BY <1>1 DEF PassRecord
<1> QED BY <1>2, <1>3 DEF BaseOK, PhaseInv, TypeOK

LEMMA Constants ==
  /\ Counted \subseteq Operand /\ Touchable \subseteq Operand \ {"module", "secret"}
  /\ DaemonSets \subseteq Operand \ {"module", "secret"} /\ Counted \subseteq DaemonSets
  /\ MaxDisturbances \in Nat /\ Absent # Edited
  /\ \A s \in Specs : s.selector \subseteq NodeSet
  /\ InitialSpecs \subseteq Specs
BY OperandsAssumption DEF Operand, DaemonSets

LEMMA UsedCounts ==
  ASSUME BaseOK, NEW d, Disturb(d) \/ UNCHANGED used
  PROVE  used' \in 0 .. MaxDisturbances
BY Constants DEF BaseOK, Disturb

LEMMA RolledType ==
  ASSUME BaseOK, NEW o PROVE Rolled(o) \in [Counted -> 0 .. 1]
BY DEF BaseOK, Rolled

\* Every step keeps the types of what is not a pass.
LEMMA StepBase ==
  ASSUME BaseOK, PassInv, [Next]_vars PROVE BaseOK'
<1> USE DEF BaseOK
<1>0. pass.pc # "idle" => pass \in PassRecord
  BY DEF PassInv, PassRecord
<1>1. CASE PassNotFound \/ PassFinalize \/ SetFinalizerNotFound \/ ReleaseModule \/ UNCHANGED vars
  BY <1>1 DEF PassNotFound, PassFinalize, SetFinalizerNotFound, ReleaseModule, vars, TakeRequest,
              Requeued
<1>2. CASE PassAccept
  <2>1. dc.gen \in Nat
    BY DEF DeviceConfig
  <2> QED BY <1>2, <2>1 DEF PassAccept, TakeRequest
<1>3. CASE PassRefuse
  <2>1. dc' \in DeviceConfig
    BY <1>3 DEF PassRefuse, DeviceConfig
  <2>2. used' \in 0 .. MaxDisturbances
    BY <1>3, UsedCounts DEF PassRefuse
  <2> QED BY <1>3, <2>1, <2>2 DEF PassRefuse
<1>4. CASE SetFinalizer
  <2>1. dc' \in DeviceConfig /\ dc.gen \in Nat
    BY <1>4 DEF SetFinalizer, DeviceConfig
  <2> QED BY <1>4, <2>1 DEF SetFinalizer
<1>5. CASE HandleBuildConfigMap \/ HandleKMMVersionLabel
  <2>1. DOMAIN label' = NodeSet /\ queued' \in BOOLEAN
    BY <1>5 DEF HandleBuildConfigMap, HandleKMMVersionLabel, VersionLabels, Requeued
  <2> QED BY <1>5, <2>1 DEF HandleBuildConfigMap, HandleKMMVersionLabel
<1>6. CASE PutOperand \/ RemoveOperand
  <2> DEFINE o == pass.todo[1].on
  <2>1. DOMAIN obj' = Operand /\ queued' \in BOOLEAN
    BY <1>6 DEF PutOperand, RemoveOperand, OwnerTold
  <2>2. pods' = pods \/ pods' = Rolled(o)
    BY <1>6 DEF PutOperand, RemoveOperand
  <2>3. pods' \in [Counted -> 0 .. 1]
    BY <2>2, RolledType
  <2>4. hist' = [hist EXCEPT !.lost = @ \ {o}]
    BY <1>6 DEF PutOperand, RemoveOperand
  <2> QED BY <1>6, <2>1, <2>3, <2>4 DEF PutOperand, RemoveOperand
<1>7. CASE Publish
  <2>1. pass.gen \in Nat /\ pass.count \in [Counted -> 0 .. 1]
    BY <1>0, <1>7 DEF Publish, Running, PassRecord
  <2>2. dc' \in DeviceConfig
    BY <1>7, <2>1 DEF Publish, Published, DeviceConfig
  <2> QED BY <1>7, <2>2 DEF Publish, Done
<1>8. CASE ReleaseLabels
  BY <1>8 DEF ReleaseLabels, Unlabelled
<1>9. CASE RemoveFinalizer
  <2>1. dc' \in DeviceConfig
    BY <1>9 DEF RemoveFinalizer, DeviceConfig
  <2>2. used' \in 0 .. MaxDisturbances
    BY <1>9, UsedCounts DEF RemoveFinalizer
  <2>3. DOMAIN label' = NodeSet
    BY <1>9 DEF RemoveFinalizer, Unlabelled
  <2>4. hist' = hist \/ hist' = [hist EXCEPT !.cut = TRUE]
    BY <1>9 DEF RemoveFinalizer
  <2> QED BY <1>9, <2>1, <2>2, <2>3, <2>4 DEF RemoveFinalizer
<1>10. CASE StepFails \/ UnlabelFails \/ Restart
  <2>1. used' \in 0 .. MaxDisturbances
    BY <1>10, UsedCounts DEF StepFails, UnlabelFails, Restart
  <2>2. queued' \in BOOLEAN
    BY <1>10 DEF StepFails, UnlabelFails, Restart, Requeued, Done
  <2>3. DOMAIN seen' = Counted /\ \A d \in Counted : seen'[d].pods \in 0 .. 1
    BY <1>10 DEF StepFails, UnlabelFails, Restart
  <2>4. hist' = hist \/ hist' = [hist EXCEPT !.cut = TRUE]
        \/ hist' = [hist EXCEPT !.cut = @ \/ Running("unlabel")]
    BY <1>10 DEF StepFails, UnlabelFails, Restart
  <2>5. hist' \in [validated : SUBSET Nat, adopted : SUBSET Nat, lost : SUBSET Operand,
                   stale : SUBSET Counted, cut : BOOLEAN]
    BY <2>4
  <2> QED BY <1>10, <2>1, <2>2, <2>3, <2>5 DEF StepFails, UnlabelFails, Restart
<1>11. ASSUME NEW d \in Counted, DaemonsetEvent(d) PROVE BaseOK'
  <2>1. seen[d].pods \in 0 .. 1 /\ pods[d] \in 0 .. 1
    OBVIOUS
  <2>2. dc' \in DeviceConfig
    <3>1. dc' = dc \/ \E n \in 0 .. 1 : dc' = [dc EXCEPT !.count[d] = n]
      BY <1>11, <2>1 DEF DaemonsetEvent, Counting
    <3> QED BY <3>1 DEF DeviceConfig
  <2>3. DOMAIN seen' = Counted /\ \A e \in Counted : seen'[e].pods \in 0 .. 1
    BY <1>11, <2>1 DEF DaemonsetEvent
  <2>4. used' \in 0 .. MaxDisturbances
    BY <1>11, UsedCounts DEF DaemonsetEvent
  <2>5. hist' = [hist EXCEPT !.stale = @ \ {d}] \/ hist' = [hist EXCEPT !.stale = @ \cup {d}]
    BY <1>11 DEF DaemonsetEvent
  <2> QED BY <1>11, <2>2, <2>3, <2>4, <2>5 DEF DaemonsetEvent
<1>12. ASSUME NEW d \in Counted, PodsAvailable(d) PROVE BaseOK'
  BY <1>12 DEF PodsAvailable
<1>13. CASE KmmUnloaded
  BY <1>13 DEF KmmUnloaded
<1>14. CASE UserDeletes
  <2>1. dc' \in DeviceConfig
    BY <1>14 DEF UserDeletes, DeviceConfig
  <2>2. used' \in 0 .. MaxDisturbances
    BY <1>14, UsedCounts DEF UserDeletes
  <2> QED BY <1>14, <2>1, <2>2 DEF UserDeletes
<1>15. ASSUME NEW s \in Specs, UserEdits(s) PROVE BaseOK'
  <2>0. dc.gen + 1 \in Nat \ {0}
    BY DEF DeviceConfig
  <2>1. dc' \in DeviceConfig
    BY <1>15, <2>0 DEF UserEdits, DeviceConfig
  <2>2. used' \in 0 .. MaxDisturbances
    BY <1>15, UsedCounts DEF UserEdits
  <2> QED BY <1>15, <2>1, <2>2 DEF UserEdits
<1>16. ASSUME NEW o \in Operand, OperandDeleted(o) \/ OperandEdited(o) PROVE BaseOK'
  <2>1. used' \in 0 .. MaxDisturbances
    BY <1>16, UsedCounts DEF OperandDeleted, OperandEdited
  <2>2. pods' \in [Counted -> 0 .. 1]
    BY <1>16, RolledType DEF OperandDeleted, OperandEdited
  <2>3. hist' = hist \/ hist' = [hist EXCEPT !.lost = @ \cup {o}]
    BY <1>16 DEF OperandDeleted, OperandEdited
  <2>4. DOMAIN obj' = Operand /\ queued' \in BOOLEAN
    BY <1>16 DEF OperandDeleted, OperandEdited, OwnerTold
  <2> QED BY <1>16, <2>1, <2>2, <2>3, <2>4 DEF OperandDeleted, OperandEdited
<1>17. ASSUME NEW n \in NodeSet, NEW k \in Kernels, KernelChanges(n, k) PROVE BaseOK'
  <2>1. used' \in 0 .. MaxDisturbances
    BY <1>17, UsedCounts DEF KernelChanges
  <2>2. host' \in Hosts
    BY <1>17 DEF KernelChanges, Hosts
  <2> QED BY <1>17, <2>1, <2>2 DEF KernelChanges
<1>18. ASSUME NEW r \in Refs, RefChanges(r) PROVE BaseOK'
  <2>1. used' \in 0 .. MaxDisturbances
    BY <1>18, UsedCounts DEF RefChanges
  <2> QED BY <1>18, <2>1 DEF RefChanges, SecretRequests
<1>19. ASSUME BuildConfigMapFails \/ \E n \in NodeSet : VersionLabelFails(n) PROVE BaseOK'
  <2>1. used' \in 0 .. MaxDisturbances
    BY <1>19, UsedCounts DEF BuildConfigMapFails, VersionLabelFails
  <2>2. DOMAIN label' = NodeSet /\ queued' \in BOOLEAN
    BY <1>19 DEF BuildConfigMapFails, VersionLabelFails, Requeued
  <2> QED BY <1>19, <2>1, <2>2 DEF BuildConfigMapFails, VersionLabelFails
<1>20. CASE LabellerGetFails
  <2>1. used' \in 0 .. MaxDisturbances
    BY <1>20, UsedCounts DEF LabellerGetFails
  <2>2. hist' = [hist EXCEPT !.lost = @ \cup {"labeller"}] /\ "labeller" \in Operand
    BY <1>20 DEF LabellerGetFails, Operand, DaemonSets
  <2> QED BY <1>20, <2>1, <2>2 DEF LabellerGetFails
<1> QED
  <2> USE <1>1, <1>2, <1>3, <1>4, <1>5, <1>6, <1>7, <1>8, <1>9, <1>10, <1>11, <1>12, <1>13
  <2> QED BY <1>14, <1>15, <1>16, <1>17, <1>18, <1>19, <1>20, Constants DEF Next, PassStep

---------------------------------------------------------------------------
\* The steps of others

LEMMA CallsKept ==
  ASSUME CallsFit, UNCHANGED pass, obj'["module"] = obj["module"] PROVE CallsFit'
<1>1. Ends("publish")' <=> Ends("publish")
  BY DEF Ends
<1>2. CallsServe => CallsServe'
  BY DEF CallsServe, ToCome
<1>3. LabelsLate => LabelsLate'
  BY DEF LabelsLate
<1>4. BuildFirst => BuildFirst'
  BY DEF BuildFirst
<1> QED BY <1>1, <1>2, <1>3, <1>4 DEF CallsFit

\* Neither the operands nor the labels nor what the pass is about change, and no
\* request is lost; or the step leaves a request.
LEMMA QuietStep ==
  ASSUME BaseOK, Rest, UNCHANGED <<obj, terminating, label, pass>>,
         dc'.phase = dc.phase, dc'.spec = dc.spec, dc'.gen = dc.gen,
         dc'.finalizer = dc.finalizer, dc'.observed = dc.observed, dc'.ready => dc.ready,
         hist'.lost = hist.lost, hist'.cut = hist.cut, hist'.validated = hist.validated,
         hist'.adopted = hist.adopted,
         dc.phase = "gone" \/ (queued => queued'), host' = host \/ queued'
  PROVE  Rest'
<1> USE DEF Rest
<1>1. /\ PassInv'
      /\ \A c : (Ends(c)' <=> Ends(c)) /\ (ToCome(c)' <=> ToCome(c)) /\ (Running(c)' <=> Running(c))
  BY DEF PassInv, Ends, ToCome, Running
<1>2. PhaseInv'
  BY <1>1 DEF PhaseInv
<1>3. CallsFit'
  BY CallsKept
<1>4. Current'
  BY <1>1 DEF Current, Pending, Desired
<1>5. Removing' /\ Untouched' /\ Unlabelling'
  BY <1>1 DEF Removing, Untouched, Unlabelling
<1>6. Served'
  BY <1>1 DEF Served, AsDesired, Desired
<1>7. Vetted' /\ ReadyValidated' /\ NothingLeft'
  BY <1>1 DEF Vetted, ReadyValidated, NothingLeft
<1> QED BY <1>1, <1>2, <1>3, <1>4, <1>5, <1>6, <1>7

LEMMA StepQuiet ==
  ASSUME BaseOK, Rest,
         \/ PassNotFound \/ PassRefuse
         \/ \E d \in Counted : DaemonsetEvent(d) \/ PodsAvailable(d)
         \/ \E n \in NodeSet, k \in Kernels : KernelChanges(n, k)
         \/ \E r \in Refs : RefChanges(r)
         \/ UNCHANGED vars
  PROVE  Rest'
<1> USE DEF BaseOK
<1>1. CASE PassNotFound
  BY <1>1, QuietStep DEF PassNotFound
<1>2. CASE PassRefuse
  <2>1. /\ dc'.phase = dc.phase /\ dc'.spec = dc.spec /\ dc'.gen = dc.gen
        /\ dc'.finalizer = dc.finalizer /\ dc'.observed = dc.observed /\ (dc'.ready => dc.ready)
    BY <1>2 DEF PassRefuse, DeviceConfig
  <2> QED BY <1>2, <2>1, QuietStep DEF PassRefuse
<1>3. ASSUME NEW d \in Counted, DaemonsetEvent(d) PROVE Rest'
  <2>1. /\ dc'.phase = dc.phase /\ dc'.spec = dc.spec /\ dc'.gen = dc.gen
        /\ dc'.finalizer = dc.finalizer /\ dc'.observed = dc.observed /\ (dc'.ready => dc.ready)
    BY <1>3 DEF DaemonsetEvent, Counting, DeviceConfig
  <2>2. /\ hist'.lost = hist.lost /\ hist'.cut = hist.cut /\ hist'.validated = hist.validated
        /\ hist'.adopted = hist.adopted
    BY <1>3 DEF DaemonsetEvent
  <2> QED BY <1>3, <2>1, <2>2, QuietStep DEF DaemonsetEvent
<1>4. ASSUME NEW d \in Counted, PodsAvailable(d) PROVE Rest'
  BY <1>4, QuietStep DEF PodsAvailable
<1>5. ASSUME NEW n \in NodeSet, NEW k \in Kernels, KernelChanges(n, k) PROVE Rest'
  BY <1>5, QuietStep DEF KernelChanges
<1>6. ASSUME NEW r \in Refs, RefChanges(r) PROVE Rest'
  BY <1>6, QuietStep DEF RefChanges
<1>7. CASE UNCHANGED vars
  BY <1>7, QuietStep DEF vars
<1> QED BY <1>1, <1>2, <1>3, <1>4, <1>5, <1>6, <1>7

\* The user
LEMMA StepUser ==
  ASSUME BaseOK, Rest, UserDeletes \/ \E s \in Specs : UserEdits(s)
  PROVE  Rest'
<1> USE DEF Rest, BaseOK
<1>0. /\ dc.phase = "present" /\ queued' = TRUE
      /\ UNCHANGED <<obj, terminating, label, host, pass, hist>>
  BY DEF UserDeletes, UserEdits
<1>1. /\ PassInv'
      /\ \A c : (Ends(c)' <=> Ends(c)) /\ (ToCome(c)' <=> ToCome(c)) /\ (Running(c)' <=> Running(c))
  BY <1>0 DEF PassInv, Ends, ToCome, Running
<1>2. ~terminating /\ ~Ends("release") /\ ~Ends("unlabel")
  BY <1>0 DEF PhaseInv, Ends
<1>3. CallsFit' /\ Current' /\ Removing' /\ Served' /\ Vetted'
  BY <1>0, <1>1, <1>2, CallsKept DEF Current, Removing, Served, Vetted
<1>4. CASE UserDeletes
  <2>1. /\ dc'.phase = IF dc.finalizer THEN "deleting" ELSE "gone"
        /\ dc'.spec = dc.spec /\ dc'.finalizer = dc.finalizer /\ dc'.observed = dc.observed
    BY <1>4 DEF UserDeletes, DeviceConfig
  <2>2. dc.spec.selector \subseteq NodeSet
    BY Constants DEF DeviceConfig
  <2>3. PhaseInv'
    BY <1>0, <1>1, <1>2, <2>1 DEF PhaseInv
  <2>4. Untouched' /\ Unlabelling'
    BY <1>0, <1>1, <1>2, <2>1, <2>2 DEF Untouched, Unlabelling
  <2>5. ReadyValidated'
    BY <1>0, <2>1 DEF ReadyValidated
  <2>6. NothingLeft'
    <3> SUFFICES ASSUME ~dc.finalizer PROVE NothingLeft'
      BY <2>1 DEF NothingLeft
    <3>1. \A o \in Operand : obj[o] = Absent
      BY <1>0 DEF Untouched
    <3>2. "module" \in Operand
      BY DEF Operand
    <3>3. \A n \in NodeSet : label[n] = ""
      BY <1>0, <3>1, <3>2 DEF Untouched
    <3> QED BY <1>0, <2>1, <2>2, <3>1, <3>3 DEF NothingLeft
  <2> QED BY <1>1, <1>3, <2>3, <2>4, <2>5, <2>6
<1>5. ASSUME NEW s \in Specs, UserEdits(s) PROVE Rest'
  <2>1. /\ dc'.phase = "present" /\ dc'.finalizer = dc.finalizer /\ dc'.observed = dc.observed
    BY <1>0, <1>5 DEF UserEdits, DeviceConfig
  <2>2. PhaseInv'
    BY <1>0, <1>1, <1>2, <2>1 DEF PhaseInv
  <2>3. Untouched' /\ Unlabelling' /\ ReadyValidated' /\ NothingLeft'
    BY <1>0, <1>1, <2>1 DEF Untouched, Unlabelling, ReadyValidated, NothingLeft
  <2> QED BY <1>1, <1>3, <2>2, <2>3
<1> QED BY <1>4, <1>5

\* Others delete or edit an operand.  Where its owner is not told it counts as lost.
LEMMA StepTamper ==
  ASSUME BaseOK, Rest, NEW o \in Operand \ {"module", "secret"},
         OperandDeleted(o) \/ (o \in DaemonSets /\ OperandEdited(o))
  PROVE  Rest'
<1> USE DEF Rest, BaseOK
<1>0. UNCHANGED <<dc, terminating, label, host, pass>>
  BY DEF OperandDeleted, OperandEdited
<1>1. /\ PassInv'
      /\ \A c : (Ends(c)' <=> Ends(c)) /\ (ToCome(c)' <=> ToCome(c)) /\ (Running(c)' <=> Running(c))
  BY <1>0 DEF PassInv, Ends, ToCome, Running
<1>2. /\ \A p \in Operand : p # o => obj'[p] = obj[p]
      /\ "module" \in Operand /\ obj[o] # Absent
  BY DEF OperandDeleted, OperandEdited, Operand
<1>3. /\ hist.lost \subseteq hist'.lost /\ hist'.cut = hist.cut
      /\ hist'.validated = hist.validated /\ hist'.adopted = hist.adopted
  BY DEF OperandDeleted, OperandEdited
<1>4. (queued => queued') /\ (o \in hist'.lost \/ queued')
  <2>1. CASE OperandDeleted(o)
    BY <2>1 DEF OperandDeleted, OwnerTold, DaemonSets
  <2>2. CASE o \in DaemonSets /\ OperandEdited(o)
    BY <2>2, Constants DEF OperandEdited, OwnerTold
  <2> QED BY <2>1, <2>2
<1>5. PhaseInv' /\ CallsFit'
  BY <1>0, <1>1, <1>2, CallsKept DEF PhaseInv
<1>6. Current' /\ Served'
  <2>1. \A s, nodes, h : \A p \in Operand \ hist'.lost :
          ~queued' => p \in Operand \ hist.lost /\ (Desired(p, s, nodes, h)' <=> Desired(p, s, nodes, h))
    BY <1>2, <1>3, <1>4 DEF Desired
  <2>2. Current'
    BY <1>0, <1>1, <1>4, <2>1 DEF Current, Pending
  <2>3. Served'
    BY <1>0, <1>4, <2>1 DEF Served, AsDesired
  <2> QED BY <2>2, <2>3
<1>7. Removing'
  BY <1>0, <1>1, <1>2 DEF Removing, OperandDeleted, OperandEdited
<1>8. Untouched' /\ Unlabelling'
  BY <1>0, <1>1, <1>2, <1>3 DEF Untouched, Unlabelling
<1>9. Vetted' /\ ReadyValidated' /\ NothingLeft'
  BY <1>0, <1>1, <1>2, <1>3 DEF Vetted, ReadyValidated, NothingLeft
<1> QED BY <1>1, <1>5, <1>6, <1>7, <1>8, <1>9

\* KMM removes a Module only of a DeviceConfig that is being deleted.
LEMMA StepUnloaded ==
  ASSUME BaseOK, Rest, KmmUnloaded PROVE Rest'
<1> USE DEF Rest, BaseOK
<1>0. /\ UNCHANGED <<dc, label, host, pass, hist>> /\ queued' = TRUE /\ terminating' = FALSE
      /\ terminating /\ "module" \in Operand
      /\ obj'["module"] = Absent /\ \A o \in Operand : o # "module" => obj'[o] = obj[o]
  BY DEF KmmUnloaded, Operand
<1>1. /\ PassInv'
      /\ \A c : (Ends(c)' <=> Ends(c)) /\ (ToCome(c)' <=> ToCome(c)) /\ (Running(c)' <=> Running(c))
  BY <1>0 DEF PassInv, Ends, ToCome, Running
<1>2. dc.phase # "present" /\ ~Ends("publish")
  BY <1>0 DEF PhaseInv
<1>3. PhaseInv' /\ CallsFit' /\ Current' /\ Served' /\ Vetted'
  BY <1>0, <1>1, <1>2 DEF PhaseInv, CallsFit, Current, Served, Vetted
<1>4. Removing' /\ Untouched' /\ Unlabelling' /\ ReadyValidated' /\ NothingLeft'
  BY <1>0, <1>1, <1>2 DEF Removing, Untouched, Unlabelling, ReadyValidated, NothingLeft
<1> QED BY <1>1, <1>3, <1>4

---------------------------------------------------------------------------
\* The steps of a pass that end it

\* The call at hand, if it ends the pass, is the only one left
LEMMA AtEnd ==
  ASSUME PassInv, NEW c \in Last, Running(c)
  PROVE  Ends(c) /\ \A o \in Operand : ~Pending(o)
<1>1. pass \in PassRecord /\ Ending(pass.todo) /\ pass.todo[1].call = c
  BY PassInvEnding DEF Running
<1>2. Calls(pass.todo) = {pass.todo[1]} /\ Len(pass.todo) = 1
  BY <1>1, LastCall
<1>3. Ends(c)
  BY <1>1, <1>2 DEF Ends, Running
<1>4. \A o \in Operand : ~ToCome(Put(o)) /\ ~ToCome(Remove(o))
  BY <1>1, <1>2, ToComeCalls, CallTypes DEF Last
<1> QED BY <1>3, <1>4 DEF Pending

LEMMA EndIsOne ==
  ASSUME NEW c, Ends(c) PROVE \A d : Ends(d) => d = c
BY DEF Ends

LEMMA NoPassLeft ==
  ASSUME pass' = NoPass
  PROVE  /\ PassInv' /\ CallsFit' /\ Current' /\ Removing' /\ Vetted'
         /\ pass'.pc = "idle" /\ \A c : ~Ends(c)' /\ ~Running(c)'
<1>1. pass'.pc = "idle"
  BY DEF NoPass
<1>2. \A c : ~Ends(c)' /\ ~Running(c)'
  BY <1>1 DEF Ends, Running
<1> QED BY <1>1, <1>2 DEF PassInv, CallsFit, Current, Removing, Vetted

\* A pass that is given up, or was removing labels in vain
LEMMA StepGivenUp ==
  ASSUME BaseOK, Rest, pass' = NoPass, UNCHANGED <<dc, obj, terminating, label>>,
         queued' \/ dc.phase # "present", hist'.validated = hist.validated,
         hist'.adopted = hist.adopted, hist.cut \/ Running("unlabel") => hist'.cut
  PROVE  Rest'
<1> USE DEF Rest
<1>1. /\ PassInv' /\ CallsFit' /\ Current' /\ Removing' /\ Vetted'
      /\ pass'.pc = "idle" /\ \A c : ~Ends(c)' /\ ~Running(c)'
  BY NoPassLeft
<1>2. PhaseInv'
  BY <1>1 DEF PhaseInv
<1>3. Untouched'
  BY <1>1 DEF Untouched
<1>4. Unlabelling' /\ Served' /\ ReadyValidated' /\ NothingLeft'
  BY <1>1 DEF Unlabelling, Served, ReadyValidated, NothingLeft
<1> QED BY <1>1, <1>2, <1>3, <1>4

LEMMA StepFailing ==
  ASSUME BaseOK, Rest,
         \/ SetFinalizerNotFound \/ StepFails \/ UnlabelFails \/ Restart
         \/ BuildConfigMapFails \/ (HandleBuildConfigMap /\ Requeued)
  PROVE  Rest'
<1> USE DEF BaseOK
<1>1. ASSUME SetFinalizerNotFound \/ StepFails \/ BuildConfigMapFails
             \/ (HandleBuildConfigMap /\ Requeued)
      PROVE  Rest'
  <2>1. ~Running("unlabel")
    BY <1>1 DEF SetFinalizerNotFound, StepFails, BuildConfigMapFails, HandleBuildConfigMap,
                Running
  <2>2. pass' = NoPass /\ queued' /\ UNCHANGED <<dc, obj, terminating, label, hist>>
    BY <1>1 DEF SetFinalizerNotFound, StepFails, BuildConfigMapFails, HandleBuildConfigMap,
                Requeued
  <2> QED BY <2>1, <2>2, StepGivenUp
<1>2. CASE UnlabelFails
  <2>1. Ends("unlabel")
    BY <1>2, AtEnd DEF UnlabelFails, Rest, Last
  <2>2. dc.phase # "present"
    BY <2>1 DEF Rest, PhaseInv, Ends
  <2>3. /\ hist'.validated = hist.validated /\ hist'.adopted = hist.adopted /\ hist'.cut = TRUE
        /\ pass' = NoPass /\ UNCHANGED <<dc, obj, terminating, label>>
    BY <1>2 DEF UnlabelFails, Done
  <2> QED BY <2>2, <2>3, StepGivenUp
<1>3. CASE Restart
  <2>1. /\ hist'.validated = hist.validated /\ hist'.adopted = hist.adopted
        /\ hist'.cut = (hist.cut \/ Running("unlabel"))
        /\ pass' = NoPass /\ queued' = TRUE /\ UNCHANGED <<dc, obj, terminating, label>>
    BY <1>3 DEF Restart
  <2> QED BY <2>1, StepGivenUp
<1> QED BY <1>1, <1>2, <1>3

\* Publishing: without a request in the queue the pass was about the spec and the
\* nodes of now, and has no call left.
LEMMA StepPublish ==
  ASSUME BaseOK, Rest, Publish PROVE Rest'
<1> USE DEF Rest, BaseOK
<1>0. /\ Running("publish") /\ pass' = NoPass /\ UNCHANGED <<obj, terminating, label, host, queued>>
      /\ dc'.phase = dc.phase /\ dc'.spec = dc.spec /\ dc'.gen = dc.gen
      /\ dc'.finalizer = dc.finalizer /\ dc'.observed = pass.gen
  BY DEF Publish, Published, Done, DeviceConfig
<1>1. /\ hist'.lost = hist.lost /\ hist'.cut = hist.cut /\ hist'.validated = hist.validated
      /\ hist'.adopted = hist.adopted
  BY DEF Publish
<1>2. /\ PassInv' /\ CallsFit' /\ Current' /\ Removing' /\ Vetted'
      /\ pass'.pc = "idle" /\ \A c : ~Ends(c)' /\ ~Running(c)'
  BY <1>0, NoPassLeft
<1>3. Ends("publish") /\ (\A o \in Operand : ~Pending(o)) /\ pass.pc # "idle" /\ ~Running("unlabel")
  BY <1>0, AtEnd DEF Last, Running
<1>4. PhaseInv' /\ Untouched' /\ Unlabelling' /\ NothingLeft'
  BY <1>0, <1>1, <1>2, <1>3 DEF PhaseInv, Untouched, Unlabelling, NothingLeft
<1>5. ReadyValidated'
  BY <1>0, <1>1, <1>3 DEF ReadyValidated, Vetted
<1>6. Served'
  <2> SUFFICES ASSUME dc.phase = "present", ~queued, NEW o \in Operand \ hist.lost
               PROVE  Desired(o, dc.spec, GetK8SNodes(dc.spec), host)'
    BY <1>0, <1>1 DEF Served, AsDesired
  <2>1. /\ pass.spec = dc.spec /\ pass.nodes = GetK8SNodes(dc.spec) /\ pass.host = host
        /\ Desired(o, pass.spec, pass.nodes, pass.host)
    BY <1>3 DEF Current
  <2> QED BY <1>0, <2>1 DEF Desired
<1> QED BY <1>2, <1>4, <1>5, <1>6

\* The labels of the selected nodes go after the Module was told to
LEMMA StepReleaseLabels ==
  ASSUME BaseOK, Rest, ReleaseLabels PROVE Rest'
<1> USE DEF Rest, BaseOK
<1>0. /\ Running("unlabel") /\ pass' = NoPass /\ label' = Unlabelled
      /\ UNCHANGED <<dc, obj, terminating, host, hist>>
  BY DEF ReleaseLabels
<1>1. /\ PassInv' /\ CallsFit' /\ Current' /\ Removing' /\ Vetted'
      /\ pass'.pc = "idle" /\ \A c : ~Ends(c)' /\ ~Running(c)'
  BY <1>0, NoPassLeft
<1>2. Ends("unlabel") /\ pass.pc = "run"
  BY <1>0, AtEnd DEF Last, Running
<1>3. dc.phase = "deleting" /\ pass.spec = dc.spec /\ dc.spec.selector \subseteq NodeSet
  BY <1>2, Constants DEF PhaseInv, Ends, DeviceConfig
<1>4. \A n \in dc.spec.selector : label'[n] = ""
  BY <1>0, <1>3 DEF Unlabelled
<1>5. PhaseInv' /\ Untouched' /\ Unlabelling'
  BY <1>0, <1>1, <1>3, <1>4 DEF PhaseInv, Untouched, Unlabelling
<1>6. Served' /\ ReadyValidated' /\ NothingLeft'
  BY <1>0, <1>3 DEF Served, ReadyValidated, NothingLeft
<1> QED BY <1>1, <1>5, <1>6

\* The finalizer goes when nothing is left
LEMMA StepRemoveFinalizer ==
  ASSUME BaseOK, Rest, RemoveFinalizer PROVE Rest'
<1> USE DEF Rest, BaseOK
<1>0. /\ Running("release") /\ obj["module"] = Absent /\ pass' = NoPass
      /\ dc'.phase = "gone" /\ dc'.spec = dc.spec /\ dc'.observed = dc.observed
      /\ UNCHANGED <<obj, terminating>>
      /\ hist'.validated = hist.validated /\ hist'.adopted = hist.adopted
      /\ (hist.cut => hist'.cut) /\ (label' = label \/ label' = Unlabelled)
  BY DEF RemoveFinalizer, DeviceConfig
<1>1. /\ PassInv' /\ CallsFit' /\ Current' /\ Removing' /\ Vetted'
      /\ pass'.pc = "idle" /\ \A c : ~Ends(c)' /\ ~Running(c)'
  BY <1>0, NoPassLeft
<1>2. /\ Ends("release") /\ pass.pc = "run" /\ (\A o \in Operand : ~Pending(o))
      /\ ~Running("unlabel")
  BY <1>0, AtEnd DEF Last, Running
<1>3. dc.phase = "deleting" /\ pass.spec = dc.spec /\ dc.spec.selector \subseteq NodeSet
  BY <1>2, Constants DEF PhaseInv, Ends, DeviceConfig
<1>4. ~terminating
  BY <1>0 DEF PhaseInv
<1>5. \A o \in Operand \ {"secret"} : obj'[o] = Absent
  BY <1>0, <1>2 DEF Removing, Pending
<1>6. hist'.cut \/ \A n \in dc.spec.selector : label'[n] = ""
  <2>1. hist.cut \/ \A n \in dc.spec.selector : label[n] = ""
    BY <1>0, <1>2, <1>3 DEF Unlabelling
  <2>2. CASE label' = Unlabelled
    BY <1>3, <2>2 DEF Unlabelled
  <2>3. CASE label' = label
    BY <1>0, <2>1, <2>3
  <2> QED BY <1>0, <2>2, <2>3
<1>7. PhaseInv' /\ Untouched' /\ Unlabelling'
  BY <1>0, <1>1, <1>4 DEF PhaseInv, Untouched, Unlabelling
<1>8. Served' /\ ReadyValidated' /\ NothingLeft'
  BY <1>0, <1>5, <1>6 DEF Served, ReadyValidated, NothingLeft
<1> QED BY <1>1, <1>7, <1>8

---------------------------------------------------------------------------
\* The steps of a pass that begin it

\* The locals of a pass that takes its copy
LEMMA PassOnFields ==
  ASSUME BaseOK, NEW pc \in {"finalizer", "run"}, NEW q, Ending(q), pass' = PassOn(pc, q)
  PROVE  /\ PassInv' /\ pass'.pc = pc /\ pass'.todo = q
         /\ pass'.spec = dc.spec /\ pass'.gen = dc.gen
         /\ pass'.nodes = GetK8SNodes(dc.spec) /\ pass'.host = host
<1>1. /\ pass'.pc = pc /\ pass'.todo = q
      /\ pass'.spec = dc.spec /\ pass'.gen = dc.gen
      /\ pass'.nodes = GetK8SNodes(dc.spec) /\ pass'.host = host
  BY DEF PassOn
<1>2. pass' \in PassRecord
  BY DEF PassOn, PassRecord, BaseOK, DeviceConfig, GetK8SNodes, Ending
<1> QED BY <1>1, <1>2 DEF PassInv, PassRecord, Ending

\* A pass that sets out to reconcile its copy of the spec has everything to do
LEMMA SetOut ==
  ASSUME pass'.pc # "idle", pass'.todo = Reconcile(pass'.spec)
  PROVE  /\ Ends("publish")' /\ ~Ends("release")' /\ ~Ends("unlabel")' /\ CallsFit'
         /\ \A nodes, h : \A o \in Operand : Pending(o)' \/ Desired(o, pass.spec, nodes, h)'
<1> DEFINE s == pass'.spec
           q == pass'.todo
<1>1. /\ Ending(q) /\ q[Len(q)].call = "publish"
      /\ \A o \in Operand :
           /\ Put(o) \in Calls(q) => o \in Wanted(s) \cup {"secret"}
           /\ Remove(o) \in Calls(q) => o \in Unwanted(s)
           /\ o \in Wanted(s) => Put(o) \in Calls(q)
           /\ o \in Unwanted(s) => Remove(o) \in Calls(q)
      /\ ShouldUseKMM(s) =>
           /\ 1 \in DOMAIN q /\ 2 \in DOMAIN q
           /\ q[1] = Do("configmaps") /\ q[2] = Put("module")
      /\ ~ShouldUseKMM(s) => (\A c \in Calls(q) : c.call # "label") /\ Put("module") \notin Calls(q)
  BY ReconcileCalls
<1>2. \A c : ToCome(c)' <=> c \in Calls(q)
  BY DEF ToCome, Calls
<1>3. Ends("publish")' /\ ~Ends("release")' /\ ~Ends("unlabel")'
  BY <1>1 DEF Ends
<1>4. \A nodes, h : \A o \in Operand : Pending(o)' \/ Desired(o, pass.spec, nodes, h)'
  BY <1>1, <1>2 DEF Pending, Desired
<1>5. CallsServe'
  <2> SUFFICES ASSUME NEW o \in Operand
               PROVE  /\ ToCome(Put(o))' => o \in Wanted(s) \cup {"secret"}
                      /\ ToCome(Remove(o))' => o \in Unwanted(s)
    BY DEF CallsServe
  <2> QED BY <1>1, <1>2
<1>6. ASSUME NEW i \in DOMAIN q, q[i] = Put("module")
      PROVE  \E j \in 1 .. i - 1 : q[j].call = "configmaps"
  <2>1. q[1] = Do("configmaps") /\ Do("configmaps").call = "configmaps"
        /\ Put("module").call = "put"
    BY <1>1, <1>6 DEF Calls, Do, Put
  <2>2. i \in Nat /\ i > 1
    BY <1>1, <1>6, <2>1 DEF Ending
  <2> QED BY <2>1, <2>2
<1>7. ASSUME NEW i \in DOMAIN q, q[i].call = "label"
      PROVE  \E j \in 1 .. i - 1 : q[j] = Put("module")
  <2>0. q[i] \in Calls(q)
    BY DEF Calls
  <2>1. q[1] = Do("configmaps") /\ q[2] = Put("module")
    BY <1>1, <1>7, <2>0
  <2>2. i \in Nat /\ i > 0 /\ i # 1 /\ i # 2
    BY <1>1, <1>7, <2>1 DEF Ending, Do, Put
  <2> QED BY <2>1, <2>2
<1>8. CallsFit'
  <2>1. /\ \A i \in DOMAIN q : q[i].call = "label" => \E j \in 1 .. i - 1 : q[j] = Put("module")
        /\ \A i \in DOMAIN q : q[i] = Put("module") => \E j \in 1 .. i - 1 : q[j].call = "configmaps"
    BY <1>6, <1>7
  <2>2. LabelsLate'
    BY <2>1 DEF LabelsLate
  <2>3. BuildFirst'
    BY <2>1 DEF BuildFirst
  <2> QED BY <1>5, <2>2, <2>3 DEF CallsFit
<1> QED BY <1>3, <1>4, <1>8

LEMMA StepFinalize ==
  ASSUME BaseOK, Rest, PassFinalize PROVE Rest'
<1> USE DEF Rest, BaseOK
<1> DEFINE q == finalizeDeviceConfig
<1>0. /\ dc.phase = "deleting" /\ pass.pc = "idle" /\ pass' = PassOn("run", q)
      /\ UNCHANGED <<dc, obj, terminating, label, host, hist>>
  BY DEF PassFinalize, TakeRequest
<1>1. /\ Ending(q) /\ q[Len(q)].call = "release"
      /\ \A c \in Calls(q) : c.call \in {"remove", "release"}
      /\ \A o \in Operand \ {"secret", "module"} : Remove(o) \in Calls(q)
      /\ Remove("module") \notin Calls(q)
  BY FinalizeCalls
<1> HIDE DEF q
<1>2. PassInv' /\ pass'.pc = "run" /\ pass'.todo = q /\ pass'.spec = dc.spec
  BY <1>0, <1>1, PassOnFields
<1>3. Ends("release")' /\ ~Ends("publish")' /\ ~Ends("unlabel")' /\ ~Running("unlabel")
  BY <1>0, <1>1, <1>2 DEF Ends, Running
<1>4. Removing'
  BY <1>1, <1>2 DEF Removing, ToCome, Calls
<1>5. PhaseInv' /\ CallsFit' /\ Current' /\ Vetted'
  BY <1>0, <1>2, <1>3 DEF PhaseInv, CallsFit, Current, Vetted
<1>6. Untouched' /\ Unlabelling' /\ Served' /\ ReadyValidated' /\ NothingLeft'
  BY <1>0, <1>3 DEF Untouched, Unlabelling, Served, ReadyValidated, NothingLeft
<1> QED BY <1>2, <1>4, <1>5, <1>6

LEMMA StepAccept ==
  ASSUME BaseOK, Rest, PassAccept PROVE Rest'
<1> USE DEF Rest, BaseOK
<1>0. /\ dc.phase = "present" /\ pass.pc = "idle"
      /\ UNCHANGED <<dc, obj, terminating, label, host>>
      /\ hist' = IF NeedsValidation THEN [hist EXCEPT !.validated = @ \cup {dc.gen}] ELSE hist
  BY DEF PassAccept, TakeRequest
<1>1. PICK pc \in {"finalizer", "run"} :
        /\ pass' = PassOn(pc, Reconcile(dc.spec))
        /\ pc = "run" => dc.finalizer
  BY DEF PassAccept
<1>2. Ending(Reconcile(dc.spec))
  BY ReconcileCalls
<1>3. /\ PassInv' /\ pass'.pc = pc /\ pass'.todo = Reconcile(dc.spec) /\ pass'.spec = dc.spec
      /\ pass'.gen = dc.gen /\ pass'.nodes = GetK8SNodes(dc.spec) /\ pass'.host = host
  BY <1>1, <1>2, PassOnFields, Zenon
<1>4. /\ Ends("publish")' /\ ~Ends("release")' /\ ~Ends("unlabel")' /\ CallsFit'
      /\ \A nodes, h : \A o \in Operand : Pending(o)' \/ Desired(o, pass.spec, nodes, h)'
  BY <1>3, SetOut
<1>5. /\ hist'.lost = hist.lost /\ hist'.cut = hist.cut /\ hist'.adopted = hist.adopted
      /\ hist.validated \subseteq hist'.validated
      /\ NeedsValidation => dc.gen \in hist'.validated
  BY <1>0
<1>6. PhaseInv'
  BY <1>0, <1>1, <1>3, <1>4 DEF PhaseInv
<1>7. Current'
  <2>1. \A o \in Operand : Pending(o)' \/ Desired(o, pass.spec, pass.nodes, pass.host)'
    BY <1>4
  <2> QED BY <1>0, <1>3, <2>1 DEF Current
<1>8. Removing' /\ Untouched' /\ Unlabelling' /\ Served' /\ NothingLeft'
  BY <1>0, <1>3, <1>4 DEF Removing, Untouched, Unlabelling, Served, NothingLeft
<1>9. Vetted' /\ ReadyValidated'
  BY <1>0, <1>3, <1>5 DEF Vetted, ReadyValidated, NeedsValidation, DeviceConfig
<1> QED BY <1>3, <1>4, <1>6, <1>7, <1>8, <1>9

\* The answer to setFinalizer brings in the spec of now; the node list is that of
\* the start, but then a request is in the queue.
LEMMA StepSetFinalizer ==
  ASSUME BaseOK, Rest, SetFinalizer PROVE Rest'
<1> USE DEF Rest, BaseOK
<1>0. /\ pass.pc = "finalizer" /\ dc.phase = "present"
      /\ dc'.phase = dc.phase /\ dc'.spec = dc.spec /\ dc'.gen = dc.gen /\ dc'.finalizer = TRUE
      /\ dc'.observed = dc.observed
      /\ UNCHANGED <<obj, terminating, label, host, queued>>
      /\ hist' = IF dc.gen # pass.gen THEN [hist EXCEPT !.adopted = @ \cup {dc.gen}] ELSE hist
  BY DEF SetFinalizer, DeviceConfig
<1>1. pass \in PassRecord
  BY <1>0, PassInvEnding
<1>2. Ending(Reconcile(dc.spec))
  BY ReconcileCalls
<1>3. /\ pass'.pc = "run" /\ pass'.todo = Reconcile(dc.spec) /\ pass'.spec = dc.spec
      /\ pass'.gen = dc.gen /\ pass'.nodes = pass.nodes /\ pass'.host = pass.host
      /\ pass' \in PassRecord
  BY <1>1, <1>2 DEF SetFinalizer, Adopt, PassRecord, DeviceConfig, Ending
<1>4. PassInv'
  BY <1>2, <1>3 DEF PassInv, PassRecord, Ending
<1>5. /\ Ends("publish")' /\ ~Ends("release")' /\ ~Ends("unlabel")' /\ CallsFit'
      /\ \A nodes, h : \A o \in Operand : Pending(o)' \/ Desired(o, pass.spec, nodes, h)'
  BY <1>3, SetOut
<1>6. PhaseInv'
  BY <1>0, <1>3, <1>5 DEF PhaseInv
<1>7. Current'
  <2>1. \A o \in Operand : Pending(o)' \/ Desired(o, pass.spec, pass.nodes, pass.host)'
    BY <1>5
  <2> QED BY <1>0, <1>3, <2>1 DEF Current
<1>8. Removing' /\ Untouched' /\ Unlabelling' /\ Served' /\ NothingLeft'
  BY <1>0, <1>3, <1>5 DEF Removing, Untouched, Unlabelling, Served, NothingLeft
<1>9. /\ hist'.validated = hist.validated /\ hist.adopted \subseteq hist'.adopted
      /\ dc.gen # pass.gen => dc.gen \in hist'.adopted
  BY <1>0
<1>10. Vetted' /\ ReadyValidated'
  BY <1>0, <1>3, <1>9 DEF Vetted, ReadyValidated, PhaseInv
<1> QED BY <1>4, <1>5, <1>6, <1>7, <1>8, <1>10

---------------------------------------------------------------------------
\* The steps of a pass in between

\* The call at hand, and the kinds of passes that make it
LEMMA HeadCall ==
  ASSUME PassInv, pass.pc = "run"
  PROVE  /\ pass \in PassRecord /\ Ending(pass.todo)
         /\ 1 \in DOMAIN pass.todo /\ pass.todo[1].on \in Operand
         /\ Running("put") => pass.todo[1] = Put(pass.todo[1].on)
         /\ Running("remove") => pass.todo[1] = Remove(pass.todo[1].on)
         /\ Ends("publish") \/ Ends("release") \/ Ends("unlabel")
<1>1. pass \in PassRecord /\ Ending(pass.todo)
  BY PassInvEnding
<1>2. 1 \in DOMAIN pass.todo /\ Len(pass.todo) \in DOMAIN pass.todo /\ pass.todo \in Seq(Call)
  BY <1>1 DEF Ending
<1>3. pass.todo[1] \in Call
  BY <1>2
<1>4. pass.todo[1].on \in Operand
      /\ pass.todo[1] = [call |-> pass.todo[1].call, on |-> pass.todo[1].on]
  BY <1>3 DEF Call
<1>5. pass.todo[Len(pass.todo)].call \in Last
  BY <1>1, <1>2 DEF Ending
<1> QED BY <1>1, <1>2, <1>4, <1>5 DEF Running, Put, Remove, Ends, Last

\* What an advance does to the order of the calls that remain
LEMMA LabelsShift ==
  ASSUME PassInv, pass.pc = "run", pass.todo[1].call \notin Last \cup {"label"}, Advance, LabelsLate,
         obj["module"] # Absent => obj'["module"] # Absent,
         pass.todo[1] = Put("module") => obj'["module"] # Absent
  PROVE  LabelsLate'
<1>1. \A i \in DOMAIN pass'.todo : i + 1 \in DOMAIN pass.todo /\ pass'.todo[i] = pass.todo[i + 1]
  BY AdvanceKeeps
<1>2. PICK len \in Nat : DOMAIN pass'.todo = 1 .. len
  <2>1. pass'.todo \in Seq(Call)
    BY AdvanceKeeps DEF PassInv
  <2> QED BY <2>1
<1> SUFFICES ASSUME NEW i \in DOMAIN pass'.todo, pass'.todo[i].call = "label",
                    obj'["module"] = Absent
             PROVE  \E j \in 1 .. i - 1 : pass'.todo[j] = Put("module")
  BY DEF LabelsLate
<1>3. i \in Nat /\ i + 1 \in DOMAIN pass.todo /\ pass.todo[i + 1].call = "label"
  BY <1>1, <1>2
<1>4. PICK j \in 1 .. (i + 1) - 1 : pass.todo[j] = Put("module")
  BY <1>3 DEF LabelsLate
<1>5. j \in Nat /\ j # 1 /\ j <= i /\ j >= 1
  BY <1>3, <1>4
<1>6. j - 1 \in 1 .. i - 1 /\ (j - 1) + 1 = j
  BY <1>3, <1>5
<1>7. j - 1 \in DOMAIN pass'.todo
  BY <1>2, <1>3, <1>6
<1> QED BY <1>1, <1>4, <1>6, <1>7

LEMMA BuildShift ==
  ASSUME PassInv, pass.pc = "run", pass.todo[1].call \notin Last, Advance, BuildFirst,
         pass.todo[1].call = "configmaps" => BuildOK(pass.nodes, pass.host)
  PROVE  BuildFirst'
<1>1. /\ \A i \in DOMAIN pass'.todo : i + 1 \in DOMAIN pass.todo /\ pass'.todo[i] = pass.todo[i + 1]
      /\ pass'.nodes = pass.nodes /\ pass'.host = pass.host
  BY AdvanceKeeps
<1>2. PICK len \in Nat : DOMAIN pass'.todo = 1 .. len
  <2>1. pass'.todo \in Seq(Call)
    BY AdvanceKeeps DEF PassInv
  <2> QED BY <2>1
<1> SUFFICES ASSUME NEW i \in DOMAIN pass'.todo, pass'.todo[i] = Put("module"),
                    ~BuildOK(pass.nodes, pass.host)
             PROVE  \E j \in 1 .. i - 1 : pass'.todo[j].call = "configmaps"
  BY <1>1 DEF BuildFirst
<1>3. i \in Nat /\ i + 1 \in DOMAIN pass.todo /\ pass.todo[i + 1] = Put("module")
  BY <1>1, <1>2
<1>4. PICK j \in 1 .. (i + 1) - 1 : pass.todo[j].call = "configmaps"
  BY <1>3 DEF BuildFirst
<1>5. j \in Nat /\ j # 1 /\ j <= i /\ j >= 1
  BY <1>3, <1>4
<1>6. j - 1 \in 1 .. i - 1 /\ (j - 1) + 1 = j
  BY <1>3, <1>5
<1>7. j - 1 \in DOMAIN pass'.todo
  BY <1>2, <1>3, <1>6
<1> QED BY <1>1, <1>4, <1>6, <1>7

\* What all calls in between have in common
LEMMA StepAdvance ==
  ASSUME BaseOK, Rest, pass.pc = "run", pass.todo[1].call \notin Last, Advance,
         UNCHANGED <<dc, terminating, host>>, hist'.cut = hist.cut,
         hist'.validated = hist.validated, hist'.adopted = hist.adopted,
         obj["module"] # Absent => obj'["module"] # Absent
  PROVE  /\ PassInv' /\ PhaseInv' /\ Served' /\ Vetted' /\ ReadyValidated' /\ NothingLeft'
         /\ CallsServe /\ LabelsLate' /\ BuildFirst' => CallsFit'
         /\ Ends("publish") \/ (Ends("release") /\ Running("remove"))
<1> USE DEF Rest
<1>1. /\ PassInv' /\ pass'.pc = "run" /\ pass'.spec = pass.spec /\ pass'.gen = pass.gen
      /\ \A c : Ends(c)' <=> Ends(c)
      /\ \A c : ToCome(c)' => ToCome(c)
  BY AdvanceKeeps
<1>2. ~Ends("unlabel")
  BY DEF PhaseInv, Running, Last
<1>3. PhaseInv' /\ Served' /\ Vetted' /\ ReadyValidated'
  BY <1>1, <1>2 DEF PhaseInv, Served, Vetted, ReadyValidated
<1>4. NothingLeft'
  BY DEF PhaseInv, NothingLeft
<1>5. Ends("publish") \/ (Ends("release") /\ Running("remove"))
  <2>1. CASE Ends("release")
    BY <2>1, HeadCall DEF Removing, Running, Last
  <2> QED BY <1>2, <2>1, HeadCall
<1>6. CallsServe => CallsServe'
  BY <1>1 DEF CallsServe
<1> QED BY <1>1, <1>3, <1>4, <1>5, <1>6 DEF CallsFit

LEMMA StepConfigMaps ==
  ASSUME BaseOK, Rest, HandleBuildConfigMap, ~Requeued PROVE Rest'
<1> USE DEF Rest
<1>0. /\ pass.pc = "run" /\ pass.todo[1].call = "configmaps" /\ Advance
      /\ BuildOK(pass.nodes, pass.host) /\ UNCHANGED <<dc, obj, terminating, label, host, hist, queued>>
  BY DEF HandleBuildConfigMap, Running
<1>1. /\ PassInv' /\ PhaseInv' /\ Served' /\ Vetted' /\ ReadyValidated' /\ NothingLeft'
      /\ CallsServe /\ LabelsLate' /\ BuildFirst' => CallsFit'
      /\ Ends("publish")
  BY <1>0, StepAdvance DEF Last, Running
<1>2. /\ pass'.spec = pass.spec /\ pass'.gen = pass.gen /\ pass'.pc = "run"
      /\ pass'.nodes = pass.nodes /\ pass'.host = pass.host
      /\ \A c : Ends(c)' <=> Ends(c)
      /\ \A c : ToCome(c) => ToCome(c)' \/ c = pass.todo[1]
  BY <1>0, AdvanceKeeps DEF Last
<1>3. CallsFit'
  <2>1. pass.todo[1] # Put("module")
    BY <1>0 DEF Put
  <2>2. LabelsLate'
    BY <1>0, <1>1, <2>1, LabelsShift DEF Last, CallsFit
  <2>3. BuildFirst'
    BY <1>0, <1>1, BuildShift DEF Last, CallsFit
  <2> QED BY <1>1, <2>2, <2>3 DEF CallsFit
<1>4. Current'
  <2>1. \A o \in Operand : Pending(o) => Pending(o)'
    BY <1>0, <1>2 DEF Pending, Put, Remove
  <2>2. \A o \in Operand : Desired(o, pass.spec, pass.nodes, pass.host)
                             => Desired(o, pass.spec, pass.nodes, pass.host)'
    BY <1>0, <1>2 DEF Desired
  <2> QED BY <1>0, <1>2, <2>1, <2>2 DEF Current
<1>5. ~Ends("release") /\ ~Running("unlabel")
  BY <1>0, <1>1 DEF Ends, Running
<1>6. Removing' /\ Untouched' /\ Unlabelling'
  BY <1>0, <1>2, <1>5 DEF Removing, Untouched, Unlabelling
<1> QED BY <1>1, <1>3, <1>4, <1>6

\* CreateOrPatch serves the spec of the pass
LEMMA StepPut ==
  ASSUME BaseOK, Rest, PutOperand PROVE Rest'
<1> USE DEF Rest, BaseOK
<1> DEFINE o == pass.todo[1].on
<1>0. /\ pass.pc = "run" /\ pass.todo[1].call = "put" /\ Running("put") /\ Advance
      /\ UNCHANGED <<dc, terminating, label, host>>
      /\ obj'[o] \in Rendered(o, pass.spec, pass.nodes, pass.host)
      /\ \A p \in Operand : p # o => obj'[p] = obj[p]
      /\ hist'.lost = hist.lost \ {o} /\ hist'.cut = hist.cut
      /\ hist'.validated = hist.validated /\ hist'.adopted = hist.adopted
      /\ queued => queued'
  <2>1. pass.pc = "run" /\ pass.todo[1].on \in Operand
    BY HeadCall DEF PutOperand, Running
  <2> QED BY <2>1 DEF PutOperand, Running
<1>1. /\ pass \in PassRecord /\ 1 \in DOMAIN pass.todo /\ o \in Operand /\ pass.todo[1] = Put(o)
      /\ "module" \in Operand
  BY <1>0, HeadCall DEF Operand
<1> HIDE DEF o
<1>2. ToCome(Put(o)) /\ (\A p \in Operand : Put(p) = Put(o) => p = o)
      /\ (\A p \in Operand : Remove(p) # Put(o))
  BY <1>1 DEF ToCome, Put, Remove
<1>3. Ends("publish") /\ ~Ends("release") /\ ~Ends("unlabel") /\ ~Running("unlabel")
  <2>1. Ends("publish") \/ Ends("release") \/ Ends("unlabel")
    BY <1>0, HeadCall
  <2>2. ~Running("unlabel") /\ ~Ends("release")
    BY <1>0, <1>1 DEF Running, Removing
  <2> QED BY <2>1, <2>2 DEF PhaseInv
<1>4. o = "module" => obj'["module"] # Absent
  <2> SUFFICES ASSUME o = "module" PROVE obj'["module"] # Absent
    OBVIOUS
  <2>1. BuildOK(pass.nodes, pass.host)
    BY <1>1, <1>3 DEF CallsFit, BuildFirst
  <2>2. obj'["module"] = SetKMMModuleAsDesired(pass.spec, pass.nodes, pass.host)
    BY <1>0 DEF Rendered
  <2> QED BY <1>1, <2>1, <2>2, OperandsAssumption DEF PassRecord
<1>5. /\ obj["module"] # Absent => obj'["module"] # Absent
      /\ obj'["module"] = Absent => obj["module"] = Absent
  BY <1>0, <1>1, <1>4
<1>6. /\ PassInv' /\ PhaseInv' /\ Served' /\ Vetted' /\ ReadyValidated' /\ NothingLeft'
      /\ CallsServe /\ LabelsLate' /\ BuildFirst' => CallsFit'
  BY <1>0, <1>5, StepAdvance DEF Last
<1>7. /\ pass'.spec = pass.spec /\ pass'.gen = pass.gen /\ pass'.pc = "run"
      /\ pass'.nodes = pass.nodes /\ pass'.host = pass.host
      /\ \A c : Ends(c)' <=> Ends(c)
      /\ \A c : ToCome(c) => ToCome(c)' \/ c = Put(o)
  BY <1>0, <1>1, AdvanceKeeps DEF Last
<1>8. CallsFit'
  <2>1. LabelsLate'
    <3>1. pass.todo[1] = Put("module") => o = "module"
      BY <1>1, <1>2
    <3> QED BY <1>0, <1>3, <1>4, <1>5, <3>1, LabelsShift DEF Last, CallsFit
  <2>2. BuildFirst'
    BY <1>0, <1>3, BuildShift DEF Last, CallsFit
  <2> QED BY <1>3, <1>6, <2>1, <2>2 DEF CallsFit
<1>9. Current'
  <2> SUFFICES ASSUME dc.phase = "present", ~queued, NEW p \in Operand \ hist'.lost
               PROVE  /\ pass.gen = dc.gen /\ pass.spec = dc.spec
                      /\ pass.nodes = GetK8SNodes(dc.spec) /\ pass.host = host
                      /\ Pending(p)' \/ Desired(p, pass.spec, pass.nodes, pass.host)'
    <3>1. "secret" \in Operand
      BY DEF Operand
    <3> QED BY <1>0, <1>7, <3>1 DEF Current
  <2>1. /\ pass.gen = dc.gen /\ pass.spec = dc.spec
        /\ pass.nodes = GetK8SNodes(dc.spec) /\ pass.host = host
        /\ p # o => Pending(p) \/ Desired(p, pass.spec, pass.nodes, pass.host)
    BY <1>0 DEF Current
  <2>2. CASE p = o
    <3>1. o \in Wanted(pass.spec) \cup {"secret"}
      BY <1>1, <1>2, <1>3 DEF CallsFit, CallsServe
    <3>2. o \notin Unwanted(pass.spec)
      BY <3>1 DEF Unwanted
    <3> QED BY <1>0, <1>7, <2>1, <2>2, <3>2 DEF Desired
  <2>3. CASE p # o
    <3>1. Pending(p) => Pending(p)'
      BY <1>2, <1>7, <2>3 DEF Pending
    <3>2. Desired(p, pass.spec, pass.nodes, pass.host)
            => Desired(p, pass.spec, pass.nodes, pass.host)'
      BY <1>0, <1>7, <2>3 DEF Desired
    <3> QED BY <2>1, <2>3, <3>1, <3>2
  <2> QED BY <2>1, <2>2, <2>3
<1>10. Removing' /\ Untouched' /\ Unlabelling'
  <2>1. dc.finalizer
    BY <1>0 DEF PhaseInv
  <2> QED BY <1>0, <1>3, <1>5, <1>7, <2>1 DEF Removing, Untouched, Unlabelling
<1> QED BY <1>6, <1>8, <1>9, <1>10

\* A delete call serves the spec of the pass, or finalizes
LEMMA StepRemove ==
  ASSUME BaseOK, Rest, RemoveOperand PROVE Rest'
<1> USE DEF Rest, BaseOK
<1> DEFINE o == pass.todo[1].on
<1>0. /\ pass.pc = "run" /\ pass.todo[1].call = "remove" /\ Running("remove") /\ Advance
      /\ UNCHANGED <<dc, terminating, label, host>>
      /\ obj'[o] = Absent
      /\ \A p \in Operand : p # o => obj'[p] = obj[p]
      /\ hist'.lost = hist.lost \ {o} /\ hist'.cut = hist.cut
      /\ hist'.validated = hist.validated /\ hist'.adopted = hist.adopted
      /\ queued => queued'
  <2>1. pass.pc = "run" /\ pass.todo[1].on \in Operand
    BY HeadCall DEF RemoveOperand, Running
  <2> QED BY <2>1 DEF RemoveOperand, Running
<1>1. /\ pass \in PassRecord /\ 1 \in DOMAIN pass.todo /\ o \in Operand /\ pass.todo[1] = Remove(o)
      /\ "module" \in Operand
  BY <1>0, HeadCall DEF Operand
<1> HIDE DEF o
<1>2. ToCome(Remove(o)) /\ (\A p \in Operand : Remove(p) = Remove(o) => p = o)
      /\ (\A p \in Operand : Put(p) # Remove(o))
  BY <1>1 DEF ToCome, Put, Remove
<1>3. (Ends("publish") \/ Ends("release")) /\ ~Ends("unlabel") /\ ~Running("unlabel")
  <2>1. Ends("publish") \/ Ends("release") \/ Ends("unlabel")
    BY <1>0, HeadCall
  <2>2. ~Running("unlabel")
    BY <1>0 DEF Running
  <2> QED BY <2>1, <2>2 DEF PhaseInv
<1>4. o # "module" /\ (Ends("publish") => o \in Unwanted(pass.spec))
  <2>1. Ends("publish") => o \in Unwanted(pass.spec)
    BY <1>1, <1>2 DEF CallsFit, CallsServe
  <2>2. Ends("release") => o # "module"
    BY <1>2 DEF Removing
  <2> QED BY <1>3, <2>1, <2>2 DEF Unwanted
<1>5. obj'["module"] = obj["module"]
  BY <1>0, <1>1, <1>4
<1>6. /\ PassInv' /\ PhaseInv' /\ Served' /\ Vetted' /\ ReadyValidated' /\ NothingLeft'
      /\ CallsServe /\ LabelsLate' /\ BuildFirst' => CallsFit'
  BY <1>0, <1>5, StepAdvance DEF Last
<1>7. /\ pass'.spec = pass.spec /\ pass'.gen = pass.gen /\ pass'.pc = "run"
      /\ pass'.nodes = pass.nodes /\ pass'.host = pass.host
      /\ \A c : Ends(c)' <=> Ends(c)
      /\ \A c : ToCome(c)' => ToCome(c)
      /\ \A c : ToCome(c) => ToCome(c)' \/ c = Remove(o)
      /\ \A i \in DOMAIN pass'.todo : i + 1 \in DOMAIN pass.todo /\ pass'.todo[i] = pass.todo[i + 1]
  BY <1>0, <1>1, AdvanceKeeps DEF Last
<1>8. CallsFit'
  <2> SUFFICES ASSUME Ends("publish") PROVE CallsFit'
    BY <1>7 DEF CallsFit
  <2>1. LabelsLate'
    <3>1. pass.todo[1] # Put("module")
      BY <1>1, <1>2
    <3> QED BY <1>0, <1>5, <3>1, LabelsShift DEF Last, CallsFit
  <2>2. BuildFirst'
    BY <1>0, BuildShift DEF Last, CallsFit
  <2> QED BY <1>6, <2>1, <2>2 DEF CallsFit
<1>9. Current'
  <2> SUFFICES ASSUME dc.phase = "present", ~queued, NEW p \in Operand \ hist'.lost
               PROVE  /\ pass.gen = dc.gen /\ pass.spec = dc.spec
                      /\ pass.nodes = GetK8SNodes(dc.spec) /\ pass.host = host
                      /\ Pending(p)' \/ Desired(p, pass.spec, pass.nodes, pass.host)'
    <3>1. "secret" \in Operand
      BY DEF Operand
    <3> QED BY <1>0, <1>7, <3>1 DEF Current
  <2>1. /\ pass.gen = dc.gen /\ pass.spec = dc.spec /\ Ends("publish")
        /\ pass.nodes = GetK8SNodes(dc.spec) /\ pass.host = host
        /\ p # o => Pending(p) \/ Desired(p, pass.spec, pass.nodes, pass.host)
    BY <1>0 DEF Current, PhaseInv
  <2>2. CASE p = o
    <3>1. o \notin Wanted(pass.spec)
      BY <1>4, <2>1 DEF Unwanted
    <3> QED BY <1>0, <1>7, <2>1, <2>2, <3>1 DEF Desired
  <2>3. CASE p # o
    <3>1. Pending(p) => Pending(p)'
      BY <1>2, <1>7, <2>3 DEF Pending
    <3>2. Desired(p, pass.spec, pass.nodes, pass.host)
            => Desired(p, pass.spec, pass.nodes, pass.host)'
      BY <1>0, <1>7, <2>3 DEF Desired
    <3> QED BY <2>1, <2>3, <3>1, <3>2
  <2> QED BY <2>1, <2>2, <2>3
<1>10. Removing'
  <2> SUFFICES ASSUME Ends("release") PROVE Removing'
    BY <1>7 DEF Removing
  <2>1. \A i \in DOMAIN pass'.todo : pass'.todo[i].call \in {"remove", "release"}
    BY <1>7 DEF Removing
  <2>2. ~ToCome(Remove("module"))'
    BY <1>7 DEF Removing
  <2>3. ASSUME NEW p \in Operand \ {"secret", "module"}
        PROVE  obj'[p] = Absent \/ ToCome(Remove(p))'
    BY <1>0, <1>2, <1>7 DEF Removing
  <2> QED BY <2>1, <2>2, <2>3 DEF Removing
<1>11. Untouched' /\ Unlabelling'
  <2>1. dc.finalizer
    BY <1>0 DEF PhaseInv
  <2> QED BY <1>0, <1>3, <1>5, <1>7, <2>1 DEF Untouched, Unlabelling
<1> QED BY <1>6, <1>8, <1>9, <1>10, <1>11

\* The version labels follow the Module
LEMMA StepLabel ==
  ASSUME BaseOK, Rest, HandleKMMVersionLabel PROVE Rest'
<1> USE DEF Rest
<1>0. /\ pass.pc = "run" /\ pass.todo[1].call = "label" /\ Advance
      /\ UNCHANGED <<dc, obj, terminating, host, hist>>
      /\ queued => queued'
  BY DEF HandleKMMVersionLabel, Running
<1>1. /\ PassInv' /\ PhaseInv' /\ Served' /\ Vetted' /\ ReadyValidated' /\ NothingLeft'
      /\ CallsServe /\ LabelsLate' /\ BuildFirst' => CallsFit'
      /\ Ends("publish")
  BY <1>0, StepAdvance DEF Last, Running
<1>2. /\ pass'.spec = pass.spec /\ pass'.gen = pass.gen /\ pass'.pc = "run"
      /\ pass'.nodes = pass.nodes /\ pass'.host = pass.host
      /\ \A c : Ends(c)' <=> Ends(c)
      /\ \A c : ToCome(c) => ToCome(c)' \/ c = pass.todo[1]
  BY <1>0, AdvanceKeeps DEF Last
<1>3. obj["module"] # Absent /\ ~terminating /\ dc.finalizer
  BY <1>0, <1>1, HeadCall DEF CallsFit, LabelsLate, PhaseInv
<1>4. CallsFit'
  <2>1. LabelsLate'
    BY <1>0, <1>3 DEF LabelsLate
  <2>2. BuildFirst'
    BY <1>0, <1>1, BuildShift DEF Last, CallsFit
  <2> QED BY <1>1, <2>1, <2>2 DEF CallsFit
<1>5. Current'
  <2>1. \A o \in Operand : Pending(o) => Pending(o)'
    BY <1>0, <1>2 DEF Pending, Put, Remove
  <2>2. \A o \in Operand : Desired(o, pass.spec, pass.nodes, pass.host)
                             => Desired(o, pass.spec, pass.nodes, pass.host)'
    BY <1>0, <1>2 DEF Desired
  <2> QED BY <1>0, <1>2, <2>1, <2>2 DEF Current
<1>6. ~Ends("release")
  BY <1>1 DEF Ends
<1>7. Removing' /\ Untouched' /\ Unlabelling'
  BY <1>0, <1>2, <1>3, <1>6 DEF Removing, Untouched, Unlabelling
<1> QED BY <1>1, <1>4, <1>5, <1>7

\* A patch of a version label fails: the pass ends, the Module is there
LEMMA StepLabelFails ==
  ASSUME BaseOK, Rest, NEW n \in NodeSet, VersionLabelFails(n) PROVE Rest'
<1> USE DEF Rest
<1>0. /\ Running("label") /\ pass.pc = "run" /\ pass.todo[1].call = "label"
      /\ pass' = NoPass /\ queued' = TRUE /\ UNCHANGED <<dc, obj, terminating, host, hist>>
  BY DEF VersionLabelFails, Running, Requeued
<1>1. Ends("publish")
  <2>1. Ends("publish") \/ Ends("release") \/ Ends("unlabel")
    BY <1>0, HeadCall
  <2>2. ~Ends("release")
    BY <1>0, HeadCall DEF Removing
  <2>3. ~Ends("unlabel")
    BY <1>0 DEF PhaseInv, Running
  <2> QED BY <2>1, <2>2, <2>3
<1>2. obj["module"] # Absent /\ ~terminating
  BY <1>0, <1>1, HeadCall DEF CallsFit, LabelsLate, PhaseInv
<1>3. /\ PassInv' /\ CallsFit' /\ Current' /\ Removing' /\ Vetted'
      /\ pass'.pc = "idle" /\ \A c : ~Ends(c)' /\ ~Running(c)'
  BY <1>0, NoPassLeft
<1>4. dc.phase # "gone" /\ dc.finalizer
  BY <1>0 DEF PhaseInv
<1>5. PhaseInv' /\ Untouched' /\ Unlabelling'
  BY <1>0, <1>2, <1>3, <1>4 DEF PhaseInv, Untouched, Unlabelling
<1>6. Served' /\ ReadyValidated' /\ NothingLeft'
  BY <1>0, <1>3, <1>4 DEF Served, ReadyValidated, NothingLeft
<1> QED BY <1>3, <1>5, <1>6

\* The labeller to remove could not be looked up: the pass goes on without it
LEMMA StepLabellerLeft ==
  ASSUME BaseOK, Rest, LabellerGetFails PROVE Rest'
<1> USE DEF Rest
<1>0. /\ pass.pc = "run" /\ pass.todo[1].call = "remove" /\ pass.todo[1] = Remove("labeller")
      /\ Advance /\ Ends("publish") /\ UNCHANGED <<dc, obj, terminating, label, host, queued>>
      /\ hist'.lost = hist.lost \cup {"labeller"} /\ hist'.cut = hist.cut
      /\ hist'.validated = hist.validated /\ hist'.adopted = hist.adopted
  BY DEF LabellerGetFails, Running, BaseOK
<1>1. /\ PassInv' /\ PhaseInv' /\ Served' /\ Vetted' /\ ReadyValidated' /\ NothingLeft'
      /\ CallsServe /\ LabelsLate' /\ BuildFirst' => CallsFit'
  BY <1>0, StepAdvance DEF Last
<1>2. /\ pass'.spec = pass.spec /\ pass'.gen = pass.gen /\ pass'.pc = "run"
      /\ pass'.nodes = pass.nodes /\ pass'.host = pass.host
      /\ \A c : Ends(c)' <=> Ends(c)
      /\ \A c : ToCome(c) => ToCome(c)' \/ c = pass.todo[1]
  BY <1>0, AdvanceKeeps DEF Last
<1>3. CallsFit'
  <2>1. pass.todo[1] # Put("module")
    BY <1>0 DEF Put
  <2>2. LabelsLate'
    BY <1>0, <2>1, LabelsShift DEF Last, CallsFit
  <2>3. BuildFirst'
    BY <1>0, BuildShift DEF Last, CallsFit
  <2> QED BY <1>0, <1>1, <2>2, <2>3 DEF CallsFit
<1>4. Current'
  <2>1. \A o \in Operand : o # "labeller" /\ Pending(o) => Pending(o)'
    BY <1>0, <1>2 DEF Pending, Put, Remove
  <2>2. \A o \in Operand : Desired(o, pass.spec, pass.nodes, pass.host)
                             => Desired(o, pass.spec, pass.nodes, pass.host)'
    BY <1>0, <1>2 DEF Desired
  <2> QED BY <1>0, <1>2, <2>1, <2>2 DEF Current
<1>5. ~Ends("release") /\ ~Running("unlabel")
  BY <1>0 DEF Ends, Running
<1>6. Removing' /\ Untouched' /\ Unlabelling'
  BY <1>0, <1>2, <1>5 DEF Removing, Untouched, Unlabelling
<1> QED BY <1>1, <1>3, <1>4, <1>6

\* The Module is told to go once everything else is gone
LEMMA StepReleaseModule ==
  ASSUME BaseOK, Rest, ReleaseModule PROVE Rest'
<1> USE DEF Rest
<1>0. /\ Running("release") /\ pass.pc = "run" /\ obj["module"] # Absent /\ terminating' = TRUE
      /\ pass' = [pass EXCEPT !.todo = <<Do("unlabel")>>]
      /\ UNCHANGED <<dc, obj, label, host, hist>>
  BY DEF ReleaseModule, Running
<1>1. Ends("release") /\ pass \in PassRecord
  BY <1>0, AtEnd, PassInvEnding DEF Last
<1>2. dc.phase = "deleting" /\ pass.spec = dc.spec /\ dc.finalizer
  BY <1>0, <1>1 DEF PhaseInv, Ends, BaseOK, DeviceConfig
<1>3. Do("unlabel") \in Call /\ Do("unlabel").call = "unlabel"
  BY DoTypes DEF Last
<1>4. Ending(<<Do("unlabel")>>)
  BY <1>3 DEF Ending, Last
<1>5. /\ pass'.pc = "run" /\ pass'.todo = <<Do("unlabel")>> /\ pass'.spec = dc.spec
      /\ pass' \in PassRecord
  BY <1>0, <1>1, <1>2, <1>4 DEF PassRecord, Ending
<1>6. PassInv'
  BY <1>4, <1>5 DEF PassInv, PassRecord, Ending
<1>7. Ends("unlabel")' /\ ~Ends("release")' /\ ~Ends("publish")' /\ Running("unlabel")'
  BY <1>3, <1>5 DEF Ends, Running
<1>8. PhaseInv' /\ CallsFit' /\ Current' /\ Removing' /\ Vetted'
  BY <1>0, <1>2, <1>5, <1>7 DEF PhaseInv, CallsFit, Current, Removing, Vetted
<1>9. Untouched' /\ Unlabelling' /\ Served' /\ ReadyValidated' /\ NothingLeft'
  BY <1>0, <1>2, <1>7 DEF Untouched, Unlabelling, Served, ReadyValidated, NothingLeft
<1> QED BY <1>6, <1>8, <1>9

---------------------------------------------------------------------------
\* The theorems

LEMMA InitInv == Init => BaseOK /\ Rest
<1> SUFFICES ASSUME Init PROVE BaseOK /\ Rest
  OBVIOUS
<1>0. /\ dc.phase = "present" /\ dc.finalizer = FALSE /\ dc.observed = 0 /\ dc.ready = FALSE
      /\ pass = NoPass /\ terminating = FALSE /\ obj = [o \in Operand |-> Absent]
      /\ label = [n \in NodeSet |-> ""] /\ queued = TRUE
  BY DEF Init
<1>1. BaseOK
  <2>0. [o \in Counted |-> 0] \in [Counted -> 0 .. 1] /\ InitialSpecs \subseteq Specs
    BY OperandsAssumption
  <2>1. dc \in DeviceConfig
    <3>1. dc \in [phase : {"present"}, finalizer : {FALSE}, gen : {1},
                  spec : InitialSpecs, observed : {0}, ready : {FALSE},
                  error : {FALSE}, count : {[o \in Counted |-> 0]}]
      BY DEF Init
    <3>2. 1 \in Nat \ {0} /\ 0 \in Nat
      OBVIOUS
    <3> DEFINE Zero == [o \in Counted |-> 0]
    <3>3. Zero \in [Counted -> 0 .. 1]
      BY <2>0
    <3>4. dc \in [phase : {"present"}, finalizer : {FALSE}, gen : {1},
                  spec : InitialSpecs, observed : {0}, ready : {FALSE},
                  error : {FALSE}, count : {Zero}]
      BY <3>1
    <3> HIDE DEF Zero
    <3> QED BY <2>0, <3>2, <3>3, <3>4 DEF DeviceConfig
  <2>2. host \in Hosts
    BY OperandsAssumption DEF Init, Hosts
  <2>3. pods \in [Counted -> 0 .. 1] /\ used \in 0 .. MaxDisturbances /\ exists \subseteq Refs
    <3>1. pods = [d \in Counted |-> 0] /\ used = 0 /\ exists = Refs
      BY DEF Init
    <3>2. 0 \in 0 .. MaxDisturbances
      BY OperandsAssumption
    <3> QED BY <2>0, <3>1, <3>2
  <2>4. DOMAIN seen = Counted /\ \A d \in Counted : seen[d].pods \in 0 .. 1
    <3>1. seen = [d \in Counted |-> [obj |-> Absent, pods |-> 0]]
      BY DEF Init
    <3> QED BY <3>1
  <2>5. hist \in [validated : SUBSET Nat, adopted : SUBSET Nat, lost : SUBSET Operand,
                  stale : SUBSET Counted, cut : BOOLEAN]
    BY DEF Init, NoHistory
  <2> QED BY <1>0, <2>1, <2>2, <2>3, <2>4, <2>5 DEF BaseOK
<1>2. pass.pc = "idle" /\ "module" \in Operand
  BY <1>0 DEF NoPass, Operand
<1>3. \A c : ~Ends(c)
  BY <1>2 DEF Ends
<1>4. PassInv /\ PhaseInv /\ CallsFit /\ Current /\ Removing /\ Vetted
  BY <1>0, <1>2, <1>3 DEF PassInv, PhaseInv, CallsFit, Current, Removing, Vetted
<1>5. Untouched /\ Unlabelling /\ Served /\ ReadyValidated /\ NothingLeft
  BY <1>0, <1>2 DEF Untouched, Unlabelling, Served, ReadyValidated, NothingLeft
<1> QED BY <1>1, <1>4, <1>5 DEF Rest

LEMMA StepInv == BaseOK /\ Rest /\ [Next]_vars => (BaseOK /\ Rest)'
<1> SUFFICES ASSUME BaseOK, Rest, [Next]_vars PROVE (BaseOK /\ Rest)'
  OBVIOUS
<1>1. BaseOK'
  BY StepBase DEF Rest
<1>2. Rest'
  <2>1. CASE PassStep
    <3>1. CASE HandleBuildConfigMap
      BY <3>1, StepConfigMaps, StepFailing
    <3>2. CASE PassNotFound \/ PassRefuse
      BY <3>2, StepQuiet
    <3>3. CASE SetFinalizerNotFound
      BY <3>3, StepFailing
    <3>4. CASE PutOperand \/ RemoveOperand \/ HandleKMMVersionLabel \/ Publish
      BY <3>4, StepPut, StepRemove, StepLabel, StepPublish
    <3>5. CASE PassFinalize \/ PassAccept \/ SetFinalizer
      BY <3>5, StepFinalize, StepAccept, StepSetFinalizer
    <3>6. CASE ReleaseModule \/ ReleaseLabels \/ RemoveFinalizer
      BY <3>6, StepReleaseModule, StepReleaseLabels, StepRemoveFinalizer
    <3> QED BY <2>1, <3>1, <3>2, <3>3, <3>4, <3>5, <3>6 DEF PassStep
  <2>2. CASE StepFails \/ BuildConfigMapFails \/ UnlabelFails \/ Restart
    BY <2>2, StepFailing
  <2>3. CASE \/ \E d \in Counted : DaemonsetEvent(d) \/ PodsAvailable(d)
             \/ \E n \in NodeSet, k \in Kernels : KernelChanges(n, k)
             \/ \E r \in Refs : RefChanges(r)
             \/ UNCHANGED vars
    BY <2>3, StepQuiet
  <2>4. CASE \/ \E d \in DaemonSets \cap Touchable : OperandEdited(d)
             \/ \E o \in Touchable : OperandDeleted(o)
    BY <2>4, StepTamper, Constants
  <2>5. CASE KmmUnloaded
    BY <2>5, StepUnloaded
  <2>6. CASE UserDeletes \/ \E s \in Specs : UserEdits(s)
    BY <2>6, StepUser
  <2>7. CASE LabellerGetFails \/ \E n \in NodeSet : VersionLabelFails(n)
    BY <2>7, StepLabellerLeft, StepLabelFails
  <2> QED BY <2>1, <2>2, <2>3, <2>4, <2>5, <2>6, <2>7 DEF Next
<1> QED BY <1>1, <1>2

LEMMA PartsAlways == Spec => [](BaseOK /\ Rest)
BY InitInv, StepInv, PTL DEF Spec

\* For any specs, nodes and operands: a pass keeps its locals and always has a call
\* left that ends it, a Module that terminates is there, and operands are applied
\* only under the finalizer, whatever happens between the calls of a pass.
THEOREM OperandsTypeCorrect == Spec => []TypeOK
<1>1. BaseOK /\ Rest => TypeOK
  BY TypeFromParts DEF Rest
<1> QED BY <1>1, PartsAlways, PTL

\* The inductive invariant of Reconcile and finalizeDeviceConfig: what a pass has
\* dealt with is as its copy of the spec asks, what it has not is among its calls,
\* and where the copy is out of date a request waits in the queue.  Current and Served
\* say so of every operand but those in hist.lost: one that somebody deleted, and the
\* labeller that handleNodeLabeller passes over when its lookup fails.
THEOREM OperandsInvariant == Spec => []OperandsInv
<1>1. BaseOK /\ Rest => OperandsInv
  BY TypeFromParts DEF Rest, OperandsInv
<1> QED BY <1>1, PartsAlways, PTL

\* For any specs, nodes, kernels, faults and edits: when Reconcile has reported Ready
\* for the current generation and no request waits, every operand is what the spec and
\* the nodes of now render to, unless somebody deleted it, or it is a labeller that is
\* switched off and that handleNodeLabeller passed over because its lookup failed.
THEOREM ReadyMeansReconciled == Spec => []ReadyMatches
<1>1. BaseOK /\ Rest => ReadyMatches
  BY DEF Rest, Served, ReadyMatches, Settled
<1> QED BY <1>1, PartsAlways, PTL

\* For any spec, ports and schemes: once Reconcile has settled, the Service, the
\* ServiceMonitor and the exporter were rendered from one spec, so they agree on port and
\* scheme, and the exporter keeps off the port of its proxy.
THEOREM MetricsReachable == Spec => []ScrapeReaches
<1>1. ASSUME NEW s \in Specs, s.rbac PROVE InternalPort(s) # MetricsPort(s)
  <2>1. CASE MetricsPort(s) = servicePort
    BY <1>1, <2>1 DEF InternalPort, servicePort
  <2>2. CASE MetricsPort(s) # servicePort
    BY <1>1, <2>2 DEF InternalPort
  <2> QED BY <2>1, <2>2
<1>2. BaseOK /\ Rest => ScrapeReaches
  <2> SUFFICES ASSUME BaseOK, Rest, Settled, dc.spec.exporter, hist.lost = {}
               PROVE  ScrapeReaches
    BY DEF ScrapeReaches
  <2> DEFINE s == dc.spec
             nodes == GetK8SNodes(s)
  <2>1. AsDesired /\ s \in Specs
    BY DEF Rest, Served, Settled, BaseOK, DeviceConfig
  <2>2. {"exporter", "service", "monitor"} \subseteq Operand
    BY DEF Operand, DaemonSets
  <2>3. /\ "exporter" \in Wanted(s) /\ "service" \in Wanted(s)
        /\ s.monitor => "monitor" \in Wanted(s)
    BY DEF Wanted
  <2>4. \A o \in {"exporter", "service", "monitor"} : o \in Wanted(s) => obj[o] \in Rendered(o, s, nodes, host)
    BY <2>1, <2>2 DEF AsDesired, Desired
  <2>5. obj["exporter"] = SetMetricsExporterAsDesired(s)
    BY <2>3, <2>4 DEF Rendered
  <2>6. obj["service"] = SetMetricsServiceAsDesired(s)
    BY <2>3, <2>4 DEF Rendered
  <2>7. s.monitor => obj["monitor"] = SetServiceMonitorAsDesired(s)
    BY <2>3, <2>4 DEF Rendered
  <2>8. /\ obj["exporter"].port = MetricsPort(s) /\ obj["exporter"].https = Https(s)
        /\ obj["exporter"].internal = InternalPort(s) /\ obj["exporter"].proxied = s.rbac
    BY <2>5 DEF SetMetricsExporterAsDesired
  <2>9. /\ obj["service"].port = MetricsPort(s)
        /\ s.monitor => obj["monitor"].port = MetricsPort(s) /\ obj["monitor"].https = Https(s)
    BY <2>6, <2>7 DEF SetMetricsServiceAsDesired, SetServiceMonitorAsDesired
  <2> QED BY <1>1, <2>1, <2>8, <2>9 DEF ScrapeReaches
<1> QED BY <1>2, PartsAlways, PTL

\* For any specs and any order of edits: updateDeviceConfigStatus reports no generation
\* as processed that validateDeviceConfig did not accept, but for one that the answer of
\* setFinalizer brought in.
THEOREM ReadyMeansValidated == Spec => []ReadyValidated
<1>1. BaseOK /\ Rest => ReadyValidated
  BY DEF Rest
<1> QED BY <1>1, PartsAlways, PTL

\* For any specs and nodes: the finalizer of a DeviceConfig goes only after all its
\* operands but the Secret are gone, and with the version labels of its nodes unless
\* their removal failed, which is only logged (finalizeDeviceConfig).
THEOREM FinalizedLeavesNothing == Spec => []NothingLeft
<1>1. BaseOK /\ Rest => NothingLeft
  BY DEF Rest
<1> QED BY <1>1, PartsAlways, PTL

\* For any specs and nodes: finalizeDeviceConfig asks for the deletion of the Module
\* only when every DaemonSet that uses the driver is gone.
THEOREM DriverReleasedLast == Spec => DriverUsersGoneFirst
<1>1. BaseOK /\ Rest /\ [Next]_vars
        => [~terminating /\ terminating' => \A d \in DaemonSets : obj[d] = Absent]_vars
  <2> SUFFICES ASSUME BaseOK, Rest, [Next]_vars, ~terminating, terminating'
               PROVE  \A d \in DaemonSets : obj[d] = Absent
    OBVIOUS
  <2>1. ReleaseModule
    BY DEF Next, PassStep, PassNotFound, PassFinalize, PassAccept, PassRefuse, SetFinalizer,
           SetFinalizerNotFound, HandleBuildConfigMap, PutOperand, RemoveOperand,
           HandleKMMVersionLabel, Publish, ReleaseLabels, RemoveFinalizer, StepFails,
           UnlabelFails, Restart, DaemonsetEvent, PodsAvailable, OperandEdited, KmmUnloaded,
           UserDeletes, UserEdits, OperandDeleted, KernelChanges, RefChanges, vars,
           BuildConfigMapFails, LabellerGetFails, VersionLabelFails
  <2>2. Ends("release") /\ \A o \in Operand : ~Pending(o)
    BY <2>1, AtEnd DEF ReleaseModule, Rest, Last
  <2> QED BY <2>2, Constants DEF Rest, Removing, Pending
<1> QED BY <1>1, PartsAlways, PTL DEF Spec, DriverUsersGoneFirst
====
