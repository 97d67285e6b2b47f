------------------------- MODULE LogPipeline_proofs -------------------------
(***************************************************************************)
(* Proofs about the configuration of the logs and their shipping.          *)
(* PasswordInv looks at the setup or deletion under way.  ShipInv follows  *)
(* a line through the buffer of its task to ClickHouse, the cursor and the *)
(* file.                                                                   *)
(***************************************************************************)
EXTENDS LogPipeline, WellFoundedInduction, SequenceTheorems, TLAPS

-----------------------------------------------------------------------------
(* Sets of numbers and sequences *)

(* The least number of a set, and the greatest of a bounded one, exist.     *)
LEMMA LeastNat ==
  ASSUME NEW S \in SUBSET Nat, S # {}
  PROVE  \E m \in S : \A n \in S : m <= n
<1> DEFINE R == OpToRel(<, Nat)
<1>1. IsWellFoundedOn(R, Nat)
  BY NatLessThanWellFounded
<1>2. PICK m \in S : \A n \in S : ~ (<<n, m>> \in R)
  <2> HIDE DEF R
  <2> QED BY <1>1, WFMin
<1>3. \A n \in S : <<n, m>> \in R <=> n < m
  BY DEF OpToRel
<1>4. \A n \in S : ~ (n < m)
  <2> HIDE DEF R
  <2> QED BY <1>2, <1>3
<1> HIDE DEF R
<1> QED BY <1>4

LEMMA MinIsLeast ==
  ASSUME NEW S \in SUBSET Nat, S # {}
  PROVE  Min(S) \in S /\ \A n \in S : Min(S) <= n
<1>1. PICK m \in S : \A n \in S : m <= n
  BY LeastNat
<1>2. Min(S) \in S /\ \A n \in S : Min(S) =< n
  BY <1>1 DEF Min
<1> QED BY <1>2

LEMMA MaxIsGreatest ==
  ASSUME NEW S \in SUBSET Nat, S # {}, NEW b \in Nat, \A n \in S : n <= b
  PROVE  Max(S) \in S /\ \A n \in S : n <= Max(S)
<1> DEFINE T == {b - n : n \in S}
<1>1. T \in SUBSET Nat /\ T # {}
  <2>1. \A n \in S : b - n \in Nat
    OBVIOUS
  <2> QED BY <2>1
<1>2. PICK t \in T : \A u \in T : t <= u
  <2> HIDE DEF T
  <2> QED BY <1>1, LeastNat
<1>3. PICK m \in S : t = b - m
  OBVIOUS
<1>4. \A n \in S : b - m <= b - n
  BY <1>2, <1>3
<1>5. \A n \in S : m >= n
  BY <1>4
<1>6. Max(S) \in S /\ \A n \in S : Max(S) >= n
  BY <1>5 DEF Max
<1> QED BY <1>6

(* The elements of a buffer, of one with more lines and of the rest of one. *)
LEMMA ToSetElements ==
  ASSUME NEW S, NEW s \in Seq(S)
  PROVE  /\ ToSet(s) = {s[n] : n \in 1 .. Len(s)}
         /\ ToSet(s) \subseteq S
         /\ s # <<>> => ToSet(s) # {}
<1>1. DOMAIN s = 1 .. Len(s) /\ \A n \in 1 .. Len(s) : s[n] \in S
  OBVIOUS
<1>2. ToSet(s) = {s[n] : n \in 1 .. Len(s)}
  BY <1>1 DEF ToSet
<1>3. s # <<>> => 1 \in 1 .. Len(s)
  OBVIOUS
<1> QED BY <1>1, <1>2, <1>3

LEMMA ToSetConcat ==
  ASSUME NEW S, NEW s \in Seq(S), NEW t \in Seq(S)
  PROVE  /\ s \o t \in Seq(S) /\ Len(s \o t) = Len(s) + Len(t)
         /\ ToSet(s \o t) = ToSet(s) \cup ToSet(t)
<1>1. /\ s \o t \in Seq(S) /\ Len(s \o t) = Len(s) + Len(t)
      /\ \A n \in 1 .. Len(s) + Len(t) :
           (s \o t)[n] = IF n <= Len(s) THEN s[n] ELSE t[n - Len(s)]
  BY ConcatProperties
<1>2. PICK u : u = s \o t
  OBVIOUS
<1>3. /\ ToSet(u) = {u[n] : n \in 1 .. Len(s) + Len(t)}
      /\ ToSet(s) = {s[n] : n \in 1 .. Len(s)} /\ ToSet(t) = {t[n] : n \in 1 .. Len(t)}
  <2>1. u \in Seq(S) /\ Len(u) = Len(s) + Len(t)
    BY <1>1, <1>2
  <2>2. ToSet(u) = {u[n] : n \in 1 .. Len(u)}
    BY <2>1, ToSetElements
  <2>3. ToSet(s) = {s[n] : n \in 1 .. Len(s)}
    BY ToSetElements
  <2>4. ToSet(t) = {t[n] : n \in 1 .. Len(t)}
    BY ToSetElements
  <2> QED BY <2>1, <2>2, <2>3, <2>4
<1>4. Len(s) \in Nat /\ Len(t) \in Nat
  OBVIOUS
<1>5. ASSUME NEW n \in 1 .. Len(s) + Len(t)
      PROVE  u[n] \in ToSet(s) \cup ToSet(t)
  <2>1. CASE n <= Len(s)
    BY <1>1, <1>2, <1>3, <1>4, <2>1
  <2>2. CASE ~ (n <= Len(s))
    <3>1. n - Len(s) \in 1 .. Len(t) /\ u[n] = t[n - Len(s)]
      BY <1>1, <1>2, <1>4, <2>2
    <3> QED BY <1>3, <3>1
  <2> QED BY <2>1, <2>2
<1>6. ASSUME NEW n \in 1 .. Len(s)
      PROVE  s[n] \in ToSet(u)
  <2>1. n \in 1 .. Len(s) + Len(t) /\ u[n] = s[n]
    BY <1>1, <1>2, <1>4
  <2> QED BY <1>3, <2>1
<1>7. ASSUME NEW n \in 1 .. Len(t)
      PROVE  t[n] \in ToSet(u)
  <2>1. Len(s) + n \in 1 .. Len(s) + Len(t) /\ ~ (Len(s) + n <= Len(s)) /\ Len(s) + n - Len(s) = n
    BY <1>4
  <2>2. u[Len(s) + n] = t[n]
    BY <1>1, <1>2, <2>1
  <2> QED BY <1>3, <2>1, <2>2
<1>8. ToSet(u) = ToSet(s) \cup ToSet(t)
  BY <1>3, <1>5, <1>6, <1>7
<1> QED BY <1>1, <1>2, <1>8

LEMMA ToSetCut ==
  ASSUME NEW S, NEW s \in Seq(S), NEW cut \in 0 .. Len(s)
  PROVE  LET rest == SubSeq(s, cut + 1, Len(s)) IN
         /\ rest \in Seq(S)
         /\ Len(rest) = Len(s) - cut
         /\ ToSet(s) = {s[n] : n \in 1 .. cut} \cup ToSet(rest)
<1> DEFINE rest == SubSeq(s, cut + 1, Len(s))
<1>1. /\ rest \in Seq(S)
      /\ Len(rest) = Len(s) - cut
      /\ \A n \in 1 .. Len(s) - cut : rest[n] = s[cut + n]
  <2>1. \A n \in cut + 1 .. Len(s) : s[n] \in S
    OBVIOUS
  <2>2. /\ rest \in Seq(S)
        /\ Len(rest) = IF cut + 1 <= Len(s) THEN Len(s) - (cut + 1) + 1 ELSE 0
        /\ \A n \in 1 .. Len(s) - (cut + 1) + 1 : rest[n] = s[cut + 1 + n - 1]
    BY <2>1, SubSeqProperties
  <2> HIDE DEF rest
  <2> QED BY <2>2
<1> HIDE DEF rest
<1>2. ToSet(rest) = {rest[n] : n \in 1 .. Len(s) - cut}
  BY <1>1, ToSetElements
<1>3. \A n \in 1 .. Len(s) - cut : cut + n \in 1 .. Len(s)
  OBVIOUS
<1>4. ToSet(rest) \subseteq {s[n] : n \in 1 .. Len(s)}
  BY <1>1, <1>2, <1>3
<1>5. ASSUME NEW n \in cut + 1 .. Len(s)
      PROVE  n - cut \in 1 .. Len(s) - cut /\ s[n] = rest[n - cut]
  <2>1. n - cut \in 1 .. Len(s) - cut /\ cut + (n - cut) = n
    OBVIOUS
  <2> QED BY <1>1, <2>1
<1>6. \A n \in 1 .. Len(s) : n \in 1 .. cut \/ n \in cut + 1 .. Len(s)
  OBVIOUS
<1>7. ToSet(s) = {s[n] : n \in 1 .. Len(s)}
  BY ToSetElements
<1>8. ToSet(s) = {s[n] : n \in 1 .. cut} \cup ToSet(rest)
  <2>1. {s[n] : n \in 1 .. cut} \subseteq ToSet(s) /\ ToSet(rest) \subseteq ToSet(s)
    BY <1>4, <1>7
  <2>2. ASSUME NEW n \in 1 .. Len(s)
        PROVE  s[n] \in {s[k] : k \in 1 .. cut} \cup ToSet(rest)
    <3>1. CASE n \in 1 .. cut BY <3>1
    <3>2. CASE n \in cut + 1 .. Len(s) BY <1>2, <1>5, <3>2
    <3> QED BY <1>6, <3>1, <3>2
  <2> QED BY <1>7, <2>1, <2>2
<1> QED BY <1>1, <1>8 DEF rest

-----------------------------------------------------------------------------
(* The configuration *)

LEMMA ConfigInitInv == ConfigInit => ConfigTypeOK /\ PasswordInv
<1> SUFFICES ASSUME ConfigInit PROVE ConfigTypeOK /\ PasswordInv
  OBVIOUS
<1>1. 0 \in 0 .. MaxSetups /\ 0 \in 0 .. MaxSetups + 1 /\ 0 \in 0 .. MaxFaults
  BY LogsConfigAssumption
<1>2. ConfigTypeOK
  BY <1>1 DEF ConfigInit, ConfigTypeOK, Password
<1>3. PasswordInv
  BY DEF ConfigInit, PasswordInv, SamePassword, Writers
<1> QED BY <1>2, <1>3

(* Steps of the collector, and what it reads, leave the configuration alone. *)
LEMMA ConfigFrame ==
  ASSUME ConfigTypeOK, PasswordInv, UNCHANGED configVars, faults' \in 0 .. MaxFaults
  PROVE  ConfigTypeOK' /\ PasswordInv'
BY DEF ConfigTypeOK, PasswordInv, SamePassword, Writers, configVars

LEMMA ConfigType ==
  ASSUME ConfigTypeOK, ConfigStep
  PROVE  ConfigTypeOK'
<1> USE LogsConfigAssumption DEF ConfigTypeOK, Password, Call, Caller
<1>1. CASE PutManifest BY <1>1 DEF PutManifest, Begin
<1>2. ASSUME NEW c \in calls, PutConfig(c) PROVE ConfigTypeOK'
  BY <1>2 DEF PutConfig
<1>3. CASE DeleteManifest BY <1>3 DEF DeleteManifest, Begin
<1>4. ASSUME NEW c \in calls, ClearConfig(c) PROVE ConfigTypeOK'
  BY <1>4 DEF ClearConfig
<1>5. ASSUME NEW by \in Readers, ReadConfig(by) PROVE ConfigTypeOK'
  BY <1>5 DEF ReadConfig, Begin
<1>6. ASSUME NEW c \in calls, NotFound(c) PROVE ConfigTypeOK'
  BY <1>6 DEF NotFound
<1>7. ASSUME NEW c \in calls, ClearStale(c) PROVE ConfigTypeOK'
  BY <1>7 DEF ClearStale
<1>8. CASE Deploy BY <1>8 DEF Deploy
<1>9. ASSUME NEW p \in schema, CreateTable(p) PROVE ConfigTypeOK'
  BY <1>9 DEF CreateTable
<1>10. ASSUME NEW p \in schema, GiveUpTable(p) PROVE ConfigTypeOK'
  BY <1>10 DEF GiveUpTable
<1>11. CASE MasterRestart BY <1>11 DEF MasterRestart, Fault
<1>12. ASSUME NEW c \in calls, SetupFails(c) PROVE ConfigTypeOK'
  <2>1. c.pw \in 0 .. MaxSetups + 1
    OBVIOUS
  <2>2. config' \in 0 .. MaxSetups + 1
    BY <1>12, <2>1 DEF SetupFails
  <2>3. crossed' \in BOOLEAN
    BY <1>12 DEF SetupFails
  <2>4. calls' \subseteq Call /\ faults' \in 0 .. MaxFaults
    BY <1>12 DEF SetupFails, Fault
  <2> QED BY <1>12, <2>2, <2>3, <2>4 DEF SetupFails
<1>13. ASSUME NEW pw \in Password, UpsertManifest(pw) PROVE ConfigTypeOK'
  BY <1>13 DEF UpsertManifest
<1>14. ASSUME NEW c \in calls, DeleteFails(c) PROVE ConfigTypeOK'
  BY <1>14 DEF DeleteFails, Fault
<1>15. ASSUME NEW c \in calls, LoadFails(c) PROVE ConfigTypeOK'
  BY <1>15 DEF LoadFails, Fault
<1> QED
  BY <1>1, <1>2, <1>3, <1>4, <1>5, <1>6, <1>7, <1>8, <1>9, <1>10, <1>11, <1>12, <1>13,
     <1>14, <1>15 DEF ConfigStep

(* A setup or deletion that begins alone is the one under way; it ends with *)
(* the passwords equal, or with none in the manifest, or crossed.  Loads    *)
(* change neither the manifest nor those under way.                         *)
LEMMA PasswordStep ==
  ASSUME ConfigTypeOK, PasswordInv, ConfigStep
  PROVE  PasswordInv'
<1> SUFFICES ASSUME ~crossed' PROVE PasswordInv'
  BY DEF PasswordInv
<1> USE DEF Writers
<1>0. ASSUME NEW op \in {"setup", "delete"}, NEW pw, Begin(op, pw, "user"), manifest' = pw,
             op = "delete" => pw = 0, crossed' = (Writers # {})
      PROVE  PasswordInv'
  <2>1. \A c \in calls : c.op \notin {"setup", "delete"}
    BY <1>0
  <2>2. Writers' = {[op |-> op, pw |-> pw, by |-> "user"]}
    BY <1>0, <2>1 DEF Begin
  <2>3. /\ (\A c, d \in Writers : c = d)'
        /\ (\A c \in Writers : c.pw = manifest /\ (c.op = "delete" => manifest = 0))'
    BY <1>0, <2>2
  <2>4. Writers' # {}
    BY <2>2
  <2> QED BY <2>3, <2>4 DEF PasswordInv, SamePassword
<1>1. CASE PutManifest
  <2>1. Begin("setup", setups + 1, "user") /\ manifest' = setups + 1
    BY <1>1 DEF PutManifest
  <2> QED BY <1>0, <1>1, <2>1 DEF PutManifest
<1>2. ASSUME NEW c \in calls, PutConfig(c) PROVE PasswordInv'
  BY <1>2 DEF PutConfig, PasswordInv, SamePassword
<1>3. CASE DeleteManifest
  BY <1>0, <1>3 DEF DeleteManifest
<1>4. ASSUME NEW c \in calls, ClearConfig(c) PROVE PasswordInv'
  BY <1>4 DEF ClearConfig, PasswordInv, SamePassword
<1>5. ASSUME NEW by \in Readers, ReadConfig(by) PROVE PasswordInv'
  BY <1>5 DEF ReadConfig, Begin, PasswordInv, SamePassword
<1>6. ASSUME NEW c \in calls, NotFound(c) PROVE PasswordInv'
  <2>1. c.op = "load" /\ [c EXCEPT !.op = "clear"].op = "clear"
    BY <1>6 DEF NotFound, ConfigTypeOK, Call
  <2> QED BY <1>6, <2>1 DEF NotFound, PasswordInv, SamePassword
<1>7. ASSUME NEW c \in calls, ClearStale(c) PROVE PasswordInv'
  BY <1>7 DEF ClearStale, PasswordInv, SamePassword
<1>8. CASE Deploy BY <1>8 DEF Deploy, PasswordInv, SamePassword
<1>9. ASSUME NEW p \in schema, CreateTable(p) PROVE PasswordInv'
  BY <1>9 DEF CreateTable, PasswordInv, SamePassword
<1>10. ASSUME NEW p \in schema, GiveUpTable(p) PROVE PasswordInv'
  BY <1>10 DEF GiveUpTable, PasswordInv, SamePassword
<1>11. CASE MasterRestart
  <2>1. /\ ~crossed /\ \A c \in calls : c.op # "setup"
        /\ UNCHANGED <<manifest, config>>
    BY <1>11 DEF MasterRestart
  <2>2. \A c \in Writers : manifest = 0
    BY <2>1 DEF PasswordInv
  <2>3. Writers' = {}
    BY <1>11 DEF MasterRestart
  <2>4. CASE Writers = {} BY <2>1, <2>3, <2>4 DEF PasswordInv, SamePassword
  <2>5. CASE Writers # {}
    <3>1. manifest = 0
      BY <2>2, <2>5
    <3> QED BY <2>1, <2>3, <3>1 DEF PasswordInv, SamePassword
  <2> QED BY <2>4, <2>5
<1>12. ASSUME NEW c \in calls, SetupFails(c) PROVE PasswordInv'
  BY <1>12 DEF SetupFails, PasswordInv, SamePassword
<1>13. ASSUME NEW pw \in Password, UpsertManifest(pw) PROVE PasswordInv'
  BY <1>13 DEF UpsertManifest
<1>14. ASSUME NEW c \in calls, DeleteFails(c) PROVE PasswordInv'
  <2>1. ~crossed /\ c \in Writers /\ c.op = "delete" /\ UNCHANGED <<manifest, config>>
    BY <1>14 DEF DeleteFails
  <2>2. manifest = 0
    BY <2>1 DEF PasswordInv
  <2> QED BY <1>14, <2>1, <2>2 DEF DeleteFails, PasswordInv, SamePassword
<1>15. ASSUME NEW c \in calls, LoadFails(c) PROVE PasswordInv'
  BY <1>15 DEF LoadFails, PasswordInv, SamePassword
<1> QED
  BY <1>1, <1>2, <1>3, <1>4, <1>5, <1>6, <1>7, <1>8, <1>9, <1>10, <1>11, <1>12, <1>13,
     <1>14, <1>15 DEF ConfigStep

(* What is found is returned: a load less.                                  *)
LEMMA FoundKeeps ==
  ASSUME ConfigTypeOK, PasswordInv, NEW c \in calls, Found(c)
  PROVE  ConfigTypeOK' /\ PasswordInv' /\ c.pw \in Password
BY DEF Found, ConfigTypeOK, PasswordInv, SamePassword, Writers, Call

-----------------------------------------------------------------------------
(* The collector *)

LEMMA TaskFields ==
  ASSUME ShipTypeOK, NEW i \in Ids
  PROVE  /\ task[i] \in Task
         /\ task[i].phase \in {"none", "follow", "ship", "last"}
         /\ task[i].stored \in BOOLEAN
         /\ task[i].from \in Nat /\ task[i].next \in Nat \ {0}
         /\ task[i].buf \in Seq(Line)
BY DEF ShipTypeOK, Task

LEMMA LineFields ==
  ASSUME ShipTypeOK, LinesInv
  PROVE  /\ Len(lines) \in Nat
         /\ \A l \in 1 .. Len(lines) : /\ l \in Line /\ copies[l] \in Nat
                                       /\ lines[l].ts \in Nat /\ lines[l].id \in Ids
<1>1. Len(lines) \in Nat
  BY DEF ShipTypeOK
<1>2. ASSUME NEW l \in 1 .. Len(lines)
      PROVE  l \in Line /\ copies[l] \in Nat /\ lines[l].ts \in Nat /\ lines[l].id \in Ids
  <2> DEFINE Rec == [id : Ids, ts : Nat]
  <2>1. lines \in Seq(Rec)
    BY DEF ShipTypeOK
  <2>2. lines[l] \in Rec
    <3> HIDE DEF Rec
    <3> QED BY <2>1
  <2>3. lines[l].ts \in Nat /\ lines[l].id \in Ids
    BY <2>2
  <2>4. l \in Line
    BY <1>1, LogShipperAssumption DEF LinesInv, Line
  <2> QED BY <2>3, <2>4 DEF ShipTypeOK
<1> QED BY <1>1, <1>2

LEMMA NoTaskFields ==
  /\ NoTask \in Task
  /\ NoTask.phase = "none" /\ ~NoTask.stored /\ NoTask.from = 0 /\ NoTask.next = 1
  /\ NoTask.buf = <<>> /\ ToSet(NoTask.buf) = {}
<1>1. NoTask \in Task
  BY LogsConfigAssumption DEF NoTask, Task, Password
<1>2. ToSet(<<>>) = {}
  BY DEF ToSet
<1> QED BY <1>1, <1>2 DEF NoTask

(* What was written, stored or dropped stays so.                            *)
Grows ==
    /\ Len(lines) <= Len(lines')
    /\ \A k \in 1 .. Len(lines) : lines'[k] = lines[k]
    /\ \A k \in 1 .. Len(lines) : copies[k] > 0 => copies'[k] > 0
    /\ dropped \subseteq dropped'

LEMMA AccountedStays ==
  ASSUME ShipTypeOK, ShipTypeOK', Grows,
         NEW l \in 1 .. Len(lines), Accounted(l)
  PROVE  Accounted(l)'
<1>1. Len(lines) \in Nat /\ Len(lines') \in Nat
  BY DEF ShipTypeOK
<1>2. \A k \in 1 .. Len(lines) : k \in 1 .. Len(lines')
  BY <1>1 DEF Grows
<1> QED BY <1>2 DEF Grows, Accounted, SharesTime

LEMMA StoredTimesStay ==
  ASSUME ShipTypeOK, ShipTypeOK', Grows
  PROVE  /\ StoredTime(cursor) /\ cursor' = cursor => StoredTime(cursor)'
         /\ StoredTime(file) /\ file' = file => StoredTime(file)'
         /\ \A j \in Ids : StoredTime(task[j].from) /\ task'[j].from = task[j].from
                           => StoredTime(task[j].from)'
<1>1. Len(lines) \in Nat /\ Len(lines') \in Nat
  BY DEF ShipTypeOK
<1>2. \A k \in 1 .. Len(lines) :
        /\ k \in 1 .. Len(lines') /\ lines'[k] = lines[k]
        /\ copies[k] > 0 => copies'[k] > 0
  BY <1>1 DEF Grows
<1>3. StoredTime(cursor) /\ cursor' = cursor => StoredTime(cursor)'
  BY <1>2 DEF StoredTime
<1>4. StoredTime(file) /\ file' = file => StoredTime(file)'
  BY <1>2 DEF StoredTime
<1>5. ASSUME NEW j \in Ids, StoredTime(task[j].from), task'[j].from = task[j].from
      PROVE  StoredTime(task[j].from)'
  BY <1>2, <1>5 DEF StoredTime
<1> QED BY <1>3, <1>4, <1>5

(* The times of a buffer have a greatest, for lines come in order of time.  *)
LEMMA MaxTimes ==
  ASSUME ShipTypeOK, LinesInv, TaskInv, NEW i \in Ids, task[i].buf # <<>>
  PROVE  /\ Max(Times(i)) \in Nat
         /\ \E m \in ToSet(task[i].buf) : lines[m].ts = Max(Times(i))
         /\ \A m \in ToSet(task[i].buf) : lines[m].ts <= Max(Times(i))
<1>1. ToSet(task[i].buf) \subseteq 1 .. Len(lines) /\ ToSet(task[i].buf) # {}
  BY TaskFields, ToSetElements DEF TaskInv
<1>2. Len(lines) \in 1 .. Len(lines)
  BY <1>1, LineFields
<1>3. Times(i) \in SUBSET Nat /\ Times(i) # {}
  BY <1>1, LineFields DEF Times
<1>4. \A n \in Times(i) : n <= lines[Len(lines)].ts
  BY <1>1, <1>2, LineFields DEF LinesInv, Times
<1>5. Max(Times(i)) \in Times(i) /\ \A n \in Times(i) : n <= Max(Times(i))
  BY <1>2, <1>3, <1>4, LineFields, MaxIsGreatest
<1> QED BY <1>3, <1>5 DEF Times

(* The next line to read is the first of its container not read yet.        *)
LEMMA NextUnread ==
  ASSUME ShipTypeOK, LinesInv, NEW i \in Ids, Unread(i) # {}
  PROVE  LET l == Min(Unread(i)) IN
         /\ i = live /\ l \in 1 .. Len(lines) /\ lines[l].id = i /\ l >= task[i].next
         /\ \A k \in 1 .. Len(lines) : lines[k].id = i /\ k >= task[i].next => l <= k
<1>1. task[i].next \in Nat \ {0} /\ Len(lines) \in Nat
  BY TaskFields, LineFields
<1>2. i = live /\ Unread(i) = {l \in task[i].next .. Len(lines) : lines[l].id = i}
  BY DEF Unread
<1>3. Unread(i) \in SUBSET Nat
  BY <1>1, <1>2
<1>4. PICK l : l = Min(Unread(i)) /\ l \in Unread(i) /\ \A k \in Unread(i) : l <= k
  BY <1>3, MinIsLeast
<1>5. i = live /\ l \in 1 .. Len(lines) /\ lines[l].id = i /\ l >= task[i].next
  BY <1>1, <1>2, <1>4
<1>6. ASSUME NEW k \in 1 .. Len(lines), lines[k].id = i, k >= task[i].next
      PROVE  l <= k
  BY <1>1, <1>2, <1>4, <1>6
<1> QED BY <1>4, <1>5, <1>6

(* What a task may turn into when it ships nothing: its buffer holds lines   *)
(* that were read, all but accounted ones are kept, and it will store only   *)
(* lines that it would have stored before or that the cursor has not passed. *)
Turns(i, t) ==
    /\ i > live \/ t.phase = "none" => t = NoTask
    /\ ~t.stored
    /\ t.next <= Len(lines) + 1
    /\ ToSet(t.buf) \subseteq {l \in 1 .. Len(lines) : l < t.next /\ lines[l].id = i}
    /\ t.phase \in {"ship", "last"} => t.buf # <<>>
    /\ Len(t.buf) <= (IF t.phase = "ship" THEN MaxBuf + MaxItem ELSE MaxBuf)
    /\ StoredTime(t.from)
    /\ i = live =>
         \A l \in 1 .. Len(lines) :
            lines[l].id = i /\ ~Accounted(l) =>
                lines[l].ts > t.from /\ (l < t.next => l \in ToSet(t.buf))
    /\ \A l \in 1 .. Len(lines) :
         /\ lines[l].id = i
         /\ \/ l \in ToSet(t.buf)
            \/ t.phase # "none" /\ i = live /\ l >= t.next /\ lines[l].ts > t.from
         => ToStore(l) \/ lines[l].ts > cursor

LEMMA TaskTurns ==
  ASSUME ShipTypeOK, ShipInv, NEW i \in Ids, NEW t \in Task, Turns(i, t),
         ~task[i].stored, task' = [task EXCEPT ![i] = t],
         UNCHANGED <<lines, live, cursor, file, copies, dropped, doubts>>,
         doubts <= faults'
  PROVE  ShipInv'
<1>1. task'[i] = t /\ \A j \in Ids \ {i} : task'[j] = task[j]
  BY DEF ShipTypeOK
<1>2. \A l \in 1 .. Len(lines) : /\ SharesTime(l)' = SharesTime(l)
                                 /\ Accounted(l)' = Accounted(l)
                                 /\ Unsaved(l)' = Unsaved(l)
  BY DEF SharesTime, Accounted, Unsaved
<1>3. LinesInv'
  BY DEF ShipInv, LinesInv
<1>4. TaskInv'
  <2> SUFFICES ASSUME NEW j \in Ids
               PROVE  LET u == task'[j] IN
                      /\ j > live \/ u.phase = "none" => u = NoTask
                      /\ u.next <= Len(lines) + 1
                      /\ ToSet(u.buf) \subseteq {l \in 1 .. Len(lines) : l < u.next /\ lines[l].id = j}
                      /\ u.phase \in {"ship", "last"} => u.buf # <<>>
                      /\ u.stored => u.phase \in {"ship", "last"} /\ \A l \in ToSet(u.buf) : copies[l] > 0
    BY DEF TaskInv, Posting
  <2>1. CASE j = i BY <1>1, <2>1 DEF Turns
  <2>2. CASE j # i BY <1>1, <2>2 DEF ShipInv, TaskInv, Posting
  <2> QED BY <2>1, <2>2
<1>5. BufferInv'
  BY <1>1 DEF ShipInv, BufferInv, Turns
<1>6. CursorInv'
  BY <1>1 DEF ShipInv, CursorInv, StoredTime, Turns
<1>7. ReadInv'
  <2> SUFFICES ASSUME NEW l \in 1 .. Len(lines), lines[l].id = live, ~Accounted(l)
               PROVE  /\ lines[l].ts > cursor
                      /\ lines[l].ts > task'[live].from
                      /\ l < task'[live].next => l \in ToSet(task'[live].buf)
    BY <1>2 DEF ReadInv
  <2>1. CASE live = i BY <1>1, <2>1 DEF ShipInv, ReadInv, Turns
  <2>2. CASE live # i BY <1>1, <2>2 DEF ShipInv, ReadInv, ShipTypeOK
  <2> QED BY <2>1, <2>2
<1>8. DoubtInv'
  <2>1. \A l \in 1 .. Len(lines) : ~Stored(l)' \/ Stored(l)
    <3> SUFFICES ASSUME NEW l \in 1 .. Len(lines), Stored(l)' PROVE Stored(l)
      OBVIOUS
    <3>1. lines[l].id # i /\ lines[l].id \in Ids
      BY <1>1, LineFields DEF Stored, Turns, ShipInv
    <3> QED BY <1>1, <3>1 DEF Stored
  <2>2. \A l \in 1 .. Len(lines) : Stored(l) => Stored(l)'
    <3> SUFFICES ASSUME NEW l \in 1 .. Len(lines), Stored(l) PROVE Stored(l)'
      OBVIOUS
    <3>1. lines[l].id # i /\ lines[l].id \in Ids
      BY LineFields DEF Stored, ShipInv
    <3> QED BY <1>1, <3>1 DEF Stored
  <2>3. ASSUME NEW l \in 1 .. Len(lines), ToStore(l)'
        PROVE  ToStore(l) \/ (lines[l].ts > cursor /\ ~Stored(l))
    <3>1. CASE lines[l].id = i
      BY <1>1, <2>3, <3>1 DEF ToStore, Turns, Stored
    <3>2. CASE lines[l].id # i
      <4>1. lines[l].id \in Ids
        BY LineFields DEF ShipInv
      <4> QED BY <1>1, <2>3, <3>2, <4>1 DEF ToStore
    <3> QED BY <3>1, <3>2
  <2>4. ASSUME NEW l \in 1 .. Len(lines), lines[l].ts > cursor, ~Stored(l)
        PROVE  ~Unsaved(l) /\ copies[l] <= doubts
    BY <2>4, LineFields DEF ShipInv, DoubtInv, Unsaved, CursorInv, ShipTypeOK
  <2>5. ASSUME NEW l \in 1 .. Len(lines), ToStore(l)'
        PROVE  copies[l] + (IF Unsaved(l) THEN 1 ELSE 0) <= doubts
    <3>1. CASE ToStore(l) BY <3>1 DEF ShipInv, DoubtInv
    <3>2. CASE lines[l].ts > cursor /\ ~Stored(l)
      <4>1. ~Unsaved(l) /\ copies[l] <= doubts /\ copies[l] \in Nat
        BY <2>4, <3>2, LineFields DEF ShipInv
      <4> QED BY <4>1
    <3> QED BY <2>3, <2>5, <3>1, <3>2
  <2> QED BY <1>2, <2>1, <2>2, <2>5 DEF ShipInv, DoubtInv
<1> QED BY <1>3, <1>4, <1>5, <1>6, <1>7, <1>8 DEF ShipInv

(* A scan starts a task at the cursor.                                      *)
LEMMA TrackStep ==
  ASSUME ShipTypeOK, ShipInv, Track
  PROVE  ShipTypeOK' /\ ShipInv'
<1>1. PICK t : t = [NoTask EXCEPT !.phase = "follow", !.from = cursor]
  OBVIOUS
<1>2. /\ t.phase = "follow" /\ t.from = cursor /\ t.next = 1 /\ t.buf = <<>>
      /\ ~t.stored /\ ToSet(t.buf) = {} /\ Len(t.buf) = 0
  BY <1>1, NoTaskFields DEF NoTask
<1>3. t \in Task
  BY <1>1, NoTaskFields DEF Task, ShipTypeOK
<1>4. task' = [task EXCEPT ![live] = t] /\ live \in Ids
  BY <1>1 DEF Track, ShipTypeOK
<1>5. ~task[live].stored
  BY <1>4, NoTaskFields DEF Track, ShipInv, TaskInv
<1>6. Turns(live, t)
  <2>1. StoredTime(t.from)
    BY <1>2 DEF ShipInv, CursorInv
  <2>2. \A l \in 1 .. Len(lines) :
          lines[l].id = live /\ ~Accounted(l) => lines[l].ts > t.from /\ ~ (l < t.next)
    BY <1>2 DEF ShipInv, ReadInv
  <2>3. 0 <= MaxBuf /\ t.next <= Len(lines) + 1 /\ ~ (live > live)
    BY <1>2, LineFields, LogShipperAssumption DEF ShipInv, ShipTypeOK, Ids
  <2> QED BY <1>2, <2>1, <2>2, <2>3 DEF Turns
<1>7. ShipInv'
  BY <1>3, <1>4, <1>5, <1>6, TaskTurns DEF Track, dockerVars, ShipInv, DoubtInv
<1>8. ShipTypeOK'
  BY <1>3, <1>4 DEF Track, dockerVars, ShipTypeOK
<1> QED BY <1>7, <1>8

(* The next item holds lines of the container and of one time, from the     *)
(* first that was not read.                                                 *)
LEMMA ItemLines ==
  ASSUME ShipTypeOK, LinesInv, NEW i \in Ids, NEW last \in Unread(i), IsItem(i, last),
         NEW first, first = Min(Unread(i))
  PROVE  /\ i = live /\ last \in 1 .. Len(lines)
         /\ first \in 1 .. last /\ first >= task[i].next
         /\ \A k \in 1 .. Len(lines) : lines[k].id = i /\ k >= task[i].next => first <= k
         /\ \A k \in first .. last : /\ k \in 1 .. Len(lines) /\ lines[k].id = i
                                     /\ lines[k].ts = lines[last].ts
         /\ Item(i, last) \in Seq(Line)
         /\ Len(Item(i, last)) <= MaxItem /\ Len(Item(i, last)) > 0
         /\ ToSet(Item(i, last)) = first .. last
<1>1. /\ i = live /\ first \in 1 .. Len(lines) /\ lines[first].id = i /\ first >= task[i].next
      /\ \A k \in 1 .. Len(lines) : lines[k].id = i /\ k >= task[i].next => first <= k
  BY NextUnread
<1>2. task[i].next \in Nat \ {0} /\ Len(lines) \in Nat
  BY TaskFields, LineFields
<1>3. last \in task[i].next .. Len(lines) /\ lines[last].id = i
  BY <1>1 DEF Unread
<1>4. last \in 1 .. Len(lines) /\ first \in 1 .. last
  BY <1>1, <1>2, <1>3
<1>5. lines[last].ts = lines[first].ts /\ last - first < MaxItem
  BY DEF IsItem
<1>6. ASSUME NEW k \in first .. last
      PROVE  k \in 1 .. Len(lines) /\ lines[k].id = i /\ lines[k].ts = lines[last].ts
  <2>1. k \in 1 .. Len(lines) /\ first <= k /\ k <= last
    BY <1>1, <1>4
  <2>2. /\ lines[first].id <= lines[k].id /\ lines[k].id <= lines[last].id
        /\ lines[first].ts <= lines[k].ts /\ lines[k].ts <= lines[last].ts
    BY <1>1, <1>4, <2>1 DEF LinesInv
  <2>3. lines[k].id \in Nat /\ lines[k].ts \in Nat /\ i \in Nat /\ lines[last].ts \in Nat
    BY <1>4, <2>1, LineFields DEF Ids
  <2>4. lines[k].id = i
    BY <1>1, <1>3, <2>2, <2>3
  <2>5. lines[k].ts = lines[last].ts
    BY <1>5, <2>2, <2>3
  <2> QED BY <2>1, <2>4, <2>5
<1>7. PICK size : size = last - first + 1
  OBVIOUS
<1>8. size \in Nat /\ size > 0 /\ size <= MaxItem
  BY <1>1, <1>4, <1>5, <1>7, LogShipperAssumption
<1>9. Item(i, last) = [n \in 1 .. size |-> first + n - 1]
  BY <1>7 DEF Item
<1>10. \A n \in 1 .. size : first + n - 1 \in Line /\ first + n - 1 \in first .. last
  <2>1. ASSUME NEW n \in 1 .. size PROVE first + n - 1 \in first .. last
    <3>1. /\ n \in Int /\ 1 <= n /\ n <= last - first + 1
          /\ first \in Int /\ last \in Int
      BY <1>4, <1>7
    <3> QED BY <3>1
  <2>2. ASSUME NEW k \in first .. last PROVE k \in Line
    <3>1. k \in 1 .. Len(lines)
      BY <1>6
    <3> QED BY <3>1, LineFields
  <2> QED BY <2>1, <2>2
<1>11. Item(i, last) \in Seq(Line) /\ Len(Item(i, last)) = size
  BY <1>8, <1>9, <1>10
<1>12. ToSet(Item(i, last)) = {first + n - 1 : n \in 1 .. size}
  <2>1. ToSet(Item(i, last)) = {Item(i, last)[n] : n \in 1 .. size}
    BY <1>11, ToSetElements
  <2>2. \A n \in 1 .. size : Item(i, last)[n] = first + n - 1
    BY <1>9
  <2> QED BY <2>1, <2>2
<1>13. ASSUME NEW k \in first .. last
       PROVE  k \in {first + n - 1 : n \in 1 .. size}
  <2>1. k \in Int /\ first <= k /\ k <= last /\ first \in Int /\ last \in Int
    BY <1>4
  <2>2. PICK n : n = k - first + 1
    OBVIOUS
  <2>3. n \in 1 .. size /\ first + n - 1 = k
    BY <1>7, <2>1, <2>2
  <2> QED BY <2>3
<1>14. ToSet(Item(i, last)) = first .. last
  BY <1>10, <1>12, <1>13
<1> QED BY <1>1, <1>4, <1>6, <1>8, <1>11, <1>14

(* The lines of the next item are passed over if the cursor of the start was *)
(* past them, and else go from what is to be read into the buffer.           *)
LEMMA ReadStep ==
  ASSUME ShipTypeOK, ShipInv, NEW i \in Ids, Read(i)
  PROVE  ShipTypeOK' /\ ShipInv'
<1>1. PICK last \in Unread(i) :
        /\ IsItem(i, last)
        /\ task' = [task EXCEPT ![i] =
                      IF lines[last].ts <= task[i].from THEN [@ EXCEPT !.next = last + 1]
                      ELSE IF Len(Buffered(i, last).buf) >= MaxBatch THEN Ship(Buffered(i, last))
                      ELSE Buffered(i, last)]
  BY DEF Read
<1>2. PICK first : first = Min(Unread(i))
  OBVIOUS
<1>3. PICK item : item = Item(i, last)
  OBVIOUS
<1>4. /\ i = live /\ last \in 1 .. Len(lines)
      /\ first \in 1 .. last /\ first >= task[i].next
      /\ \A k \in 1 .. Len(lines) : lines[k].id = i /\ k >= task[i].next => first <= k
      /\ \A k \in first .. last : /\ k \in 1 .. Len(lines) /\ lines[k].id = i
                                  /\ lines[k].ts = lines[last].ts
      /\ item \in Seq(Line) /\ Len(item) <= MaxItem /\ Len(item) > 0
      /\ ToSet(item) = first .. last
  BY <1>1, <1>2, <1>3, ItemLines DEF ShipInv
<1>5. task[i] \in Task /\ task[i].buf \in Seq(Line) /\ task[i].phase = "follow"
      /\ task[i].from \in Nat /\ task[i].next \in Nat \ {0}
  BY TaskFields DEF Read
<1>6. PICK more : more = task[i].buf \o item
  OBVIOUS
<1>7. /\ more \in Seq(Line) /\ Len(more) = Len(task[i].buf) + Len(item)
      /\ ToSet(more) = ToSet(task[i].buf) \cup (first .. last)
      /\ Len(task[i].buf) \in Nat /\ Len(item) \in Nat
  BY <1>4, <1>5, <1>6, ToSetConcat
<1>8. PICK t : t = IF lines[last].ts <= task[i].from THEN [task[i] EXCEPT !.next = last + 1]
                   ELSE IF Len(more) >= MaxBatch
                   THEN [task[i] EXCEPT !.next = last + 1, !.buf = more, !.phase = "ship", !.to = target]
                   ELSE [task[i] EXCEPT !.next = last + 1, !.buf = more]
  OBVIOUS
<1>9. task' = [task EXCEPT ![i] = t]
  <2>1. PICK r : r = [task[i] EXCEPT !.next = last + 1, !.buf = more]
    OBVIOUS
  <2>2. r = Buffered(i, last) /\ r.buf = more
    BY <1>3, <1>5, <1>6, <2>1 DEF Buffered, Task
  <2>3. Ship(r) = [task[i] EXCEPT !.next = last + 1, !.buf = more, !.phase = "ship", !.to = target]
    BY <1>5, <2>1 DEF Ship, Task
  <2> QED BY <1>1, <1>8, <2>1, <2>2, <2>3
<1>10. /\ last \in Nat \ {0} /\ first \in Nat \ {0} /\ Len(lines) \in Nat
       /\ \A k \in 1 .. Len(lines) : lines[k].ts \in Nat
  BY <1>4, LineFields DEF ShipInv
<1>11. t \in Task
  <2>1. last + 1 \in Nat \ {0} /\ target \in Password
    BY <1>10 DEF ShipTypeOK
  <2>2. [task[i] EXCEPT !.next = last + 1] \in Task
    BY <1>5, <2>1 DEF Task
  <2>3. [task[i] EXCEPT !.next = last + 1, !.buf = more] \in Task
    BY <1>5, <1>7, <2>1 DEF Task
  <2>4. [task[i] EXCEPT !.next = last + 1, !.buf = more, !.phase = "ship", !.to = target] \in Task
    BY <1>5, <1>7, <2>1 DEF Task
  <2> QED BY <1>8, <2>2, <2>3, <2>4
<1>12. ~task[i].stored
  BY <1>5 DEF ShipInv, TaskInv, Posting
<1>13. /\ t.next = last + 1 /\ t.from = task[i].from /\ ~t.stored
       /\ t.phase \in {"follow", "ship"}
       /\ \/ /\ lines[last].ts <= t.from /\ t.phase = "follow" /\ t.buf = task[i].buf
          \/ /\ lines[last].ts > t.from /\ t.buf = more
             /\ t.phase = "follow" => Len(t.buf) < MaxBatch
  <2>0. lines[last].ts \in Nat /\ Len(more) \in Nat /\ MaxBatch \in Nat
    BY <1>4, <1>7, <1>10, LogShipperAssumption
  <2>1. CASE lines[last].ts <= task[i].from
    BY <1>5, <1>8, <1>12, <2>1 DEF Task
  <2>2. CASE lines[last].ts > task[i].from /\ Len(more) >= MaxBatch
    <3>1. t = [task[i] EXCEPT !.next = last + 1, !.buf = more, !.phase = "ship", !.to = target]
      BY <1>5, <1>8, <2>0, <2>2
    <3> QED BY <1>5, <1>12, <2>2, <3>1 DEF Task
  <2>3. CASE lines[last].ts > task[i].from /\ Len(more) < MaxBatch
    <3>1. t = [task[i] EXCEPT !.next = last + 1, !.buf = more]
      BY <1>5, <1>8, <2>0, <2>3
    <3> QED BY <1>5, <1>12, <2>3, <3>1 DEF Task
  <2> QED BY <1>5, <2>0, <2>1, <2>2, <2>3
<1>14. /\ ToSet(t.buf) \subseteq ToSet(task[i].buf) \cup (first .. last)
       /\ ToSet(task[i].buf) \subseteq ToSet(t.buf)
       /\ \A l \in first .. last :
            /\ l \in ToSet(t.buf) => l \in ToSet(task[i].buf) \/ lines[l].ts > t.from
            /\ l \notin ToSet(t.buf) => lines[l].ts <= t.from
       /\ t.phase = "ship" => t.buf = more
  BY <1>4, <1>7, <1>13
<1>15. Turns(i, t)
  <2>1. ToSet(t.buf) \subseteq {k \in 1 .. Len(lines) : k < t.next /\ lines[k].id = i}
    <3>1. ToSet(task[i].buf) \subseteq {k \in 1 .. Len(lines) : k < task[i].next /\ lines[k].id = i}
      BY DEF ShipInv, TaskInv
    <3>2. task[i].next <= last + 1 /\ \A k \in first .. last : k < last + 1
      BY <1>4, <1>5, <1>10
    <3>3. \A k \in 1 .. Len(lines) : k < task[i].next => k < last + 1
      BY <1>5, <1>10, <3>2
    <3> QED BY <1>4, <1>13, <1>14, <3>1, <3>2, <3>3
  <2>2. t.phase \in {"ship", "last"} => t.buf # <<>>
    BY <1>4, <1>7, <1>13, <1>14
  <2>3. Len(t.buf) <= (IF t.phase = "ship" THEN MaxBuf + MaxItem ELSE MaxBuf)
    <3>1. Len(task[i].buf) <= MaxBuf
      BY <1>5 DEF ShipInv, BufferInv
    <3>2. Len(more) <= MaxBuf + MaxItem /\ Len(more) \in Nat
      BY <1>4, <1>7, <3>1, LogShipperAssumption
    <3> QED BY <1>7, <1>13, <3>1, <3>2, LogShipperAssumption
  <2>4. StoredTime(t.from)
    BY <1>13 DEF ShipInv, CursorInv
  <2>5. ASSUME NEW k \in 1 .. Len(lines), lines[k].id = i, ~Accounted(k)
        PROVE  lines[k].ts > t.from /\ (k < t.next => k \in ToSet(t.buf))
    <3>1. /\ lines[k].ts > task[i].from
          /\ k < task[i].next => k \in ToSet(task[i].buf)
      BY <1>4, <2>5 DEF ShipInv, ReadInv
    <3>2. CASE k \in first .. last
      BY <1>5, <1>10, <1>13, <1>14, <3>1, <3>2
    <3>3. CASE k \notin first .. last
      <4>1. k < t.next => k < task[i].next
        BY <1>4, <1>5, <1>10, <1>13, <2>5, <3>3
      <4> QED BY <1>13, <1>14, <3>1, <4>1
    <3> QED BY <3>2, <3>3
  <2>6. ASSUME NEW k \in 1 .. Len(lines), lines[k].id = i,
               k \in ToSet(t.buf) \/ (k >= t.next /\ lines[k].ts > t.from)
        PROVE  ToStore(k)
    <3>1. k \in ToSet(task[i].buf) \/ (k >= task[i].next /\ lines[k].ts > task[i].from)
      <4>1. k \in ToSet(t.buf) => k \in ToSet(task[i].buf) \/ (k \in first .. last /\ lines[k].ts > t.from)
        BY <1>14
      <4>2. k \in first .. last => k >= task[i].next
        BY <1>4, <1>5, <1>10
      <4>3. k >= t.next => k >= task[i].next
        BY <1>4, <1>5, <1>10, <1>13
      <4> QED BY <1>13, <2>6, <4>1, <4>2, <4>3
    <3> QED BY <1>4, <1>5, <1>12, <2>6, <3>1 DEF ToStore
  <2> QED
    <3>1. t.next <= Len(lines) + 1 /\ ~ (i > live) /\ t.phase # "none"
      BY <1>4, <1>10, <1>13 DEF ShipTypeOK, Ids
    <3> QED BY <1>13, <2>1, <2>2, <2>3, <2>4, <2>5, <2>6, <3>1 DEF Turns
<1>16. ShipInv'
  BY <1>9, <1>11, <1>12, <1>15, TaskTurns DEF Read, dockerVars, ShipInv, DoubtInv
<1>17. ShipTypeOK'
  BY <1>9, <1>11 DEF Read, dockerVars, ShipTypeOK
<1> QED BY <1>16, <1>17

(* A task that posts what it has buffered has read the same lines.          *)
LEMMA PostTurns ==
  ASSUME ShipTypeOK, ShipInv, NEW i \in Ids, task[i].phase = "follow", task[i].buf # <<>>,
         NEW t, NEW phase \in {"ship", "last"},
         t = [task[i] EXCEPT !.phase = phase, !.to = target]
  PROVE  t \in Task /\ Turns(i, t) /\ ~task[i].stored
<1>1. task[i] \in Task /\ target \in Password
  BY TaskFields DEF ShipTypeOK
<1>2. /\ t \in Task /\ t.phase = phase /\ t.stored = task[i].stored
      /\ t.from = task[i].from /\ t.next = task[i].next /\ t.buf = task[i].buf
  BY <1>1 DEF Task
<1>3. ~task[i].stored
  BY DEF ShipInv, TaskInv, Posting
<1>4. ~ (i > live)
  BY NoTaskFields DEF ShipInv, TaskInv
<1>5. Len(t.buf) <= (IF t.phase = "ship" THEN MaxBuf + MaxItem ELSE MaxBuf)
  <2>1. Len(t.buf) <= MaxBuf /\ Len(t.buf) \in Nat
    BY <1>2, TaskFields DEF ShipInv, BufferInv
  <2> QED BY <2>1, LogShipperAssumption
<1>6. StoredTime(t.from)
  BY <1>2 DEF ShipInv, CursorInv
<1>7. t.next <= Len(lines) + 1
      /\ ToSet(t.buf) \subseteq {l \in 1 .. Len(lines) : l < t.next /\ lines[l].id = i}
  BY <1>2 DEF ShipInv, TaskInv
<1>8. i = live =>
        \A l \in 1 .. Len(lines) :
           lines[l].id = i /\ ~Accounted(l) =>
               lines[l].ts > t.from /\ (l < t.next => l \in ToSet(t.buf))
  BY <1>2 DEF ShipInv, ReadInv
<1>9. \A l \in 1 .. Len(lines) :
        /\ lines[l].id = i
        /\ \/ l \in ToSet(t.buf)
           \/ t.phase # "none" /\ i = live /\ l >= t.next /\ lines[l].ts > t.from
        => ToStore(l)
  BY <1>2, <1>3 DEF ToStore
<1> QED BY <1>2, <1>3, <1>4, <1>5, <1>6, <1>7, <1>8, <1>9 DEF Turns

LEMMA FlushStep ==
  ASSUME ShipTypeOK, ShipInv, NEW i \in Ids, Flush(i)
  PROVE  ShipTypeOK' /\ ShipInv'
<1>1. PICK t : t = [task[i] EXCEPT !.phase = "ship", !.to = target]
  OBVIOUS
<1>2. task' = [task EXCEPT ![i] = t]
  BY <1>1 DEF Flush, Ship
<1>3. t \in Task /\ Turns(i, t) /\ ~task[i].stored
  BY <1>1, PostTurns DEF Flush
<1>4. ShipInv'
  BY <1>2, <1>3, TaskTurns DEF Flush, dockerVars, ShipInv, DoubtInv
<1>5. ShipTypeOK'
  BY <1>2, <1>3 DEF Flush, dockerVars, ShipTypeOK
<1> QED BY <1>4, <1>5

(* A task that is over holds and will store nothing.                        *)
LEMMA NoTaskTurns ==
  ASSUME ShipTypeOK, ShipInv, NEW i \in Ids
  PROVE  Turns(i, NoTask)
<1>1. \A l \in 1 .. Len(lines) : lines[l].ts > 0 /\ ~ (l < 1)
  BY LineFields DEF ShipInv, LinesInv
<1>2. 0 <= MaxBuf /\ 1 <= Len(lines) + 1 /\ Len(<<>>) = 0
  BY LineFields, LogShipperAssumption DEF ShipInv
<1> QED BY <1>1, <1>2, NoTaskFields DEF Turns, StoredTime

LEMMA EndStep ==
  ASSUME ShipTypeOK, ShipInv, faults \in Nat, NEW i \in Ids, End(i)
  PROVE  ShipTypeOK' /\ ShipInv'
<1>1. PICK t : t = IF task[i].buf = <<>> THEN NoTask
                   ELSE [task[i] EXCEPT !.phase = "last", !.to = target]
  OBVIOUS
<1>2. task' = [task EXCEPT ![i] = t]
  <2>1. [[task[i] EXCEPT !.phase = "ship", !.to = target] EXCEPT !.phase = "last"]
          = [task[i] EXCEPT !.phase = "last", !.to = target]
    BY TaskFields DEF Task
  <2> QED BY <1>1, <2>1 DEF End, Ship
<1>3. t \in Task /\ Turns(i, t)
  <2>1. CASE task[i].buf = <<>> BY <1>1, <2>1, NoTaskTurns, NoTaskFields
  <2>2. CASE task[i].buf # <<>> BY <1>1, <2>2, PostTurns DEF End
  <2> QED BY <2>1, <2>2
<1>4. ~task[i].stored
  BY DEF End, ShipInv, TaskInv, Posting
<1>5. doubts <= faults'
  <2>1. faults' = faults \/ faults' = faults + 1
    BY DEF End, Fault
  <2> QED BY <2>1 DEF ShipInv, DoubtInv, ShipTypeOK
<1>6. ShipInv'
  BY <1>2, <1>3, <1>4, <1>5, TaskTurns DEF End, dockerVars
<1>7. ShipTypeOK'
  BY <1>2, <1>3 DEF End, dockerVars, ShipTypeOK
<1> QED BY <1>6, <1>7

(* ClickHouse inserts a batch.  Its lines were to be stored, so that each had *)
(* a doubt for all its rows; now there is one more, and the answer to come.   *)
LEMMA InsertStep ==
  ASSUME ShipTypeOK, ShipInv, NEW i \in Ids, Insert(i)
  PROVE  ShipTypeOK' /\ ShipInv'
<1> DEFINE B == ToSet(task[i].buf)
<1>1. B \subseteq {l \in 1 .. Len(lines) : l < task[i].next /\ lines[l].id = i}
  BY DEF ShipInv, TaskInv
<1>2. /\ task' = [task EXCEPT ![i] = [task[i] EXCEPT !.stored = TRUE]]
      /\ ~task[i].stored /\ Posting(i)
      /\ UNCHANGED <<lines, live, running, target, cursor, file, dropped, doubts, faults>>
  BY DEF Insert, dockerVars
<1>3. /\ \A l \in Line : copies'[l] = IF l \in B THEN copies[l] + 1 ELSE copies[l]
      /\ copies' \in [Line -> Nat]
  BY DEF Insert, ShipTypeOK
<1> HIDE DEF B
<1>4. /\ [task[i] EXCEPT !.stored = TRUE] \in Task
      /\ \A j \in Ids \ {i} : task'[j] = task[j]
      /\ task'[i].stored /\ task'[i].phase = task[i].phase /\ task'[i].buf = task[i].buf
      /\ task'[i].from = task[i].from /\ task'[i].next = task[i].next
  BY <1>2, TaskFields DEF ShipTypeOK, Task
<1>5. ShipTypeOK'
  BY <1>2, <1>3, <1>4 DEF ShipTypeOK
<1>6. \A l \in 1 .. Len(lines) : /\ l \in Line /\ copies[l] \in Nat
                                 /\ lines[l].ts \in Nat /\ lines[l].id \in Ids
  BY LineFields DEF ShipInv
<1>7. Grows
  BY <1>2, <1>3, <1>6, LineFields DEF Grows, ShipInv
<1>8. LinesInv'
  BY <1>2 DEF ShipInv, LinesInv
<1>9. TaskInv'
  <2> SUFFICES ASSUME NEW j \in Ids
               PROVE  LET u == task'[j] IN
                      /\ j > live \/ u.phase = "none" => u = NoTask
                      /\ u.next <= Len(lines) + 1
                      /\ ToSet(u.buf) \subseteq {l \in 1 .. Len(lines) : l < u.next /\ lines[l].id = j}
                      /\ u.phase \in {"ship", "last"} => u.buf # <<>>
                      /\ u.stored => u.phase \in {"ship", "last"} /\ \A l \in ToSet(u.buf) : copies'[l] > 0
    BY <1>2 DEF TaskInv, Posting
  <2>1. CASE j = i
    <3>1. ~ (i > live) /\ task[i].phase \in {"ship", "last"}
      BY <1>2, NoTaskFields DEF ShipInv, TaskInv, Posting
    <3>2. \A l \in B : copies'[l] > 0
      BY <1>1, <1>3, <1>6
    <3> QED BY <1>4, <2>1, <3>1, <3>2 DEF B, ShipInv, TaskInv, Posting
  <2>2. CASE j # i
    <3>1. task[j].stored => \A l \in ToSet(task[j].buf) : copies'[l] > 0
      BY <1>3, <1>6 DEF ShipInv, TaskInv
    <3> QED BY <1>4, <2>2, <3>1 DEF ShipInv, TaskInv, Posting
  <2> QED BY <2>1, <2>2
<1>10. BufferInv'
  BY <1>4 DEF ShipInv, BufferInv
<1>11. CursorInv'
  <2>1. \A j \in Ids : task'[j].from = task[j].from
    BY <1>4
  <2>2. StoredTime(cursor)' /\ StoredTime(file)' /\ \A j \in Ids : StoredTime(task[j].from)'
    BY <1>2, <1>5, <1>7, <2>1, StoredTimesStay DEF ShipInv, CursorInv
  <2> QED BY <1>2, <2>2 DEF ShipInv, CursorInv
<1>12. ReadInv'
  <2> SUFFICES ASSUME NEW l \in 1 .. Len(lines), lines[l].id = live, ~Accounted(l)'
               PROVE  /\ lines[l].ts > cursor
                      /\ lines[l].ts > task'[live].from
                      /\ l < task'[live].next => l \in ToSet(task'[live].buf)
    BY <1>2 DEF ReadInv
  <2>1. ~Accounted(l)
    BY <1>5, <1>7, AccountedStays
  <2>2. live \in Ids
    BY DEF ShipTypeOK
  <2> QED BY <1>4, <2>1, <2>2 DEF ShipInv, ReadInv
<1>13. DoubtInv'
  <2>1. ASSUME NEW l \in 1 .. Len(lines), l \in B
        PROVE  ToStore(l) /\ lines[l].id = i /\ Unsaved(l)' = Unsaved(l)
    BY <1>1, <1>2, <2>1 DEF B, ToStore, Unsaved
  <2>2. ASSUME NEW l \in 1 .. Len(lines), l \notin B
        PROVE  /\ ToStore(l)' => ToStore(l)
               /\ Stored(l)' <=> Stored(l)
               /\ Unsaved(l)' = Unsaved(l)
               /\ copies'[l] = copies[l]
    <3>1. CASE lines[l].id = i
      BY <1>2, <1>3, <1>4, <1>6, <2>2, <3>1 DEF B, ToStore, Stored, Unsaved
    <3>2. CASE lines[l].id # i
      BY <1>2, <1>3, <1>4, <1>6, <2>2, <3>2 DEF ToStore, Stored, Unsaved
    <3> QED BY <3>1, <3>2
  <2>3. ASSUME NEW l \in 1 .. Len(lines), l \in B
        PROVE  ~ToStore(l)' /\ Stored(l)' /\ copies'[l] = copies[l] + 1
    BY <1>1, <1>2, <1>3, <1>4, <1>6, <2>3, TaskFields DEF B, ToStore, Stored
  <2>4. ASSUME NEW l \in Line
        PROVE  copies'[l] <= (IF l <= Len(lines) THEN 1 + doubts ELSE 0)
    <3>1. CASE l \in B
      <4>1. copies[l] + (IF Unsaved(l) THEN 1 ELSE 0) <= doubts /\ l \in 1 .. Len(lines)
        BY <1>1, <2>1, <3>1 DEF ShipInv, DoubtInv
      <4> QED BY <1>3, <1>6, <4>1, <3>1 DEF ShipTypeOK
    <3>2. CASE l \notin B BY <1>3, <3>2 DEF ShipInv, DoubtInv
    <3> QED BY <3>1, <3>2
  <2>5. ASSUME NEW l \in 1 .. Len(lines)
        PROVE  LET spare == IF Unsaved(l)' THEN 1 ELSE 0 IN
               /\ ToStore(l)' => copies'[l] + spare <= doubts
               /\ Stored(l)' => copies'[l] + spare <= 1 + doubts
               /\ lines[l].ts > file /\ ~Stored(l)' => copies'[l] <= doubts
    <3>1. CASE l \in B
      <4>1. copies[l] + (IF Unsaved(l) THEN 1 ELSE 0) <= doubts
        BY <2>1, <3>1 DEF ShipInv, DoubtInv
      <4> QED BY <1>6, <2>1, <2>3, <3>1, <4>1 DEF ShipTypeOK
    <3>2. CASE l \notin B BY <2>2, <3>2 DEF ShipInv, DoubtInv
    <3> QED BY <3>1, <3>2
  <2> QED BY <1>2, <2>4, <2>5 DEF ShipInv, DoubtInv
<1> QED BY <1>5, <1>8, <1>9, <1>10, <1>11, <1>12, <1>13 DEF ShipInv

(* The answer to a batch: its lines are no longer expected, and the cursor is *)
(* past them; so is the file, or a doubt is added.                            *)
LEMMA AcknowledgedStep ==
  ASSUME ShipTypeOK, ShipInv, faults \in 0 .. MaxFaults, NEW i \in Ids, Acknowledged(i)
  PROVE  ShipTypeOK' /\ ShipInv'
<1> DEFINE B == ToSet(task[i].buf)
<1>1. /\ B \subseteq {l \in 1 .. Len(lines) : l < task[i].next /\ lines[l].id = i}
      /\ task[i].stored /\ task[i].buf # <<>> /\ \A l \in B : copies[l] > 0
  BY DEF Acknowledged, ShipInv, TaskInv
<1>2. PICK top : top = Max(Times(i))
  OBVIOUS
<1>3. /\ top \in Nat
      /\ \E m \in B : lines[m].ts = top
      /\ \A m \in B : lines[m].ts <= top
  BY <1>1, <1>2, MaxTimes DEF ShipInv
<1> HIDE DEF B
<1>4. PICK t : t = IF task[i].phase = "last" THEN NoTask
                   ELSE [task[i] EXCEPT !.phase = "follow", !.stored = FALSE, !.buf = <<>>, !.to = 0]
  OBVIOUS
<1>5. /\ task' = [task EXCEPT ![i] = t]
      /\ UNCHANGED <<lines, live, running, target, copies, dropped>>
      /\ Advance(top) /\ task[i].phase \in {"ship", "last"}
  BY <1>2, <1>4 DEF Acknowledged, After, dockerVars, Posting
<1>6. /\ t \in Task /\ t.buf = <<>> /\ ToSet(t.buf) = {} /\ ~t.stored
      /\ t.phase \in {"none", "follow"} /\ (t.phase = "none" => t = NoTask)
      /\ t.phase = "follow" => t.next = task[i].next /\ t.from = task[i].from
  <2>1. CASE task[i].phase = "last" BY <1>4, <2>1, NoTaskFields
  <2>2. CASE task[i].phase # "last"
    <3>1. 0 \in Password /\ <<>> \in Seq(Line) /\ ToSet(<<>>) = {}
      BY LogsConfigAssumption DEF Password, ToSet
    <3>2. t = [task[i] EXCEPT !.phase = "follow", !.stored = FALSE, !.buf = <<>>, !.to = 0]
      BY <1>4, <2>2
    <3> QED BY <3>1, <3>2, TaskFields DEF Task
  <2> QED BY <2>1, <2>2
<1>7. task'[i] = t /\ \A j \in Ids \ {i} : task'[j] = task[j]
  BY <1>5 DEF ShipTypeOK
<1>8. \A l \in 1 .. Len(lines) : /\ l \in Line /\ copies[l] \in Nat
                                 /\ lines[l].ts \in Nat /\ lines[l].id \in Ids
  BY LineFields DEF ShipInv
<1>9. /\ cursor \in Nat /\ file \in Nat /\ doubts \in Nat /\ faults \in Nat
      /\ file <= cursor /\ doubts <= faults
  BY DEF ShipTypeOK, ShipInv, CursorInv, DoubtInv
<1>10. \/ /\ top <= cursor /\ UNCHANGED <<cursor, file, doubts, faults>>
       \/ /\ top > cursor /\ cursor' = top /\ file' = top
          /\ UNCHANGED <<doubts, faults>>
       \/ /\ top > cursor /\ cursor' = top /\ file' \in {file, 0}
          /\ doubts' = doubts + 1 /\ faults' = faults + 1 /\ faults < MaxFaults
  BY <1>5 DEF Advance, SaveFails, Fault
<1>11. ShipTypeOK'
  <2>1. cursor' \in Nat /\ file' \in Nat /\ doubts' \in 0 .. MaxFaults
    BY <1>3, <1>9, <1>10, LogsConfigAssumption DEF ShipTypeOK
  <2> QED BY <1>5, <1>6, <2>1 DEF ShipTypeOK
<1>12. Grows
  BY <1>5, LineFields DEF Grows, ShipInv
<1>13. \A l \in 1 .. Len(lines) : Accounted(l)' = Accounted(l)
  BY <1>5 DEF Accounted, SharesTime
<1>14. LinesInv'
  BY <1>5 DEF ShipInv, LinesInv
<1>15. TaskInv'
  <2> SUFFICES ASSUME NEW j \in Ids
               PROVE  LET u == task'[j] IN
                      /\ j > live \/ u.phase = "none" => u = NoTask
                      /\ u.next <= Len(lines) + 1
                      /\ ToSet(u.buf) \subseteq {l \in 1 .. Len(lines) : l < u.next /\ lines[l].id = j}
                      /\ u.phase \in {"ship", "last"} => u.buf # <<>>
                      /\ u.stored => u.phase \in {"ship", "last"} /\ \A l \in ToSet(u.buf) : copies[l] > 0
    BY <1>5 DEF TaskInv, Posting
  <2>1. CASE j = i
    <3>1. ~ (i > live) /\ task[i].next <= Len(lines) + 1 /\ 1 <= Len(lines) + 1
      BY <1>5, NoTaskFields, LineFields DEF ShipInv, TaskInv
    <3> QED BY <1>6, <1>7, <2>1, <3>1, NoTaskFields
  <2>2. CASE j # i BY <1>7, <2>2 DEF ShipInv, TaskInv, Posting
  <2> QED BY <2>1, <2>2
<1>16. BufferInv'
  BY <1>6, <1>7, LogShipperAssumption DEF ShipInv, BufferInv
<1>17. CursorInv'
  <2>1. top = cursor' => StoredTime(cursor)'
    BY <1>1, <1>3, <1>5 DEF StoredTime
  <2>2. top = file' => StoredTime(file)'
    BY <1>1, <1>3, <1>5 DEF StoredTime
  <2>3. StoredTime(cursor)' /\ StoredTime(file)'
    <3>1. file' = 0 => StoredTime(file)'
      BY DEF StoredTime
    <3> QED BY <1>10, <1>11, <1>12, <2>1, <2>2, <3>1, StoredTimesStay DEF ShipInv, CursorInv
  <2>4. ASSUME NEW j \in Ids PROVE StoredTime(task[j].from)'
    <3>1. task'[j].from = task[j].from \/ task'[j].from = 0
      BY <1>6, <1>7, NoTaskFields
    <3>2. task'[j].from = 0 => StoredTime(task[j].from)'
      BY DEF StoredTime
    <3> QED BY <1>11, <1>12, <3>1, <3>2, StoredTimesStay DEF ShipInv, CursorInv
  <2>5. file' <= cursor'
    BY <1>3, <1>9, <1>10
  <2> QED BY <2>3, <2>4, <2>5 DEF CursorInv
<1>18. ReadInv'
  <2> SUFFICES ASSUME NEW l \in 1 .. Len(lines), lines[l].id = live, ~Accounted(l)
               PROVE  /\ lines[l].ts > cursor'
                      /\ lines[l].ts > task'[live].from
                      /\ l < task'[live].next => l \in ToSet(task'[live].buf)
    BY <1>5, <1>13 DEF ReadInv
  <2>1. /\ lines[l].ts > cursor
        /\ lines[l].ts > task[live].from
        /\ l < task[live].next => l \in ToSet(task[live].buf)
    BY DEF ShipInv, ReadInv
  <2>2. l \notin B /\ (live = i => ~ (l < task[i].next))
    BY <1>1, <2>1 DEF Accounted, B
  <2>3. lines[l].ts > top
    <3>1. PICK m \in B : lines[m].ts = top
      BY <1>3
    <3>2. m \in 1 .. Len(lines) /\ copies[m] > 0 /\ m < task[i].next /\ lines[m].id = i
      BY <1>1
    <3>3. lines[l].ts # top
      BY <3>1, <3>2 DEF Accounted, SharesTime
    <3>4. m <= l
      <4>1. CASE live = i BY <2>2, <3>2, <4>1, TaskFields
      <4>2. CASE live # i
        <5>1. ~ (i > live)
          BY <1>5, NoTaskFields DEF ShipInv, TaskInv
        <5>2. l <= m => lines[l].id <= lines[m].id
          BY <3>2 DEF ShipInv, LinesInv
        <5> QED BY <3>2, <4>2, <5>1, <5>2 DEF ShipTypeOK, Ids
      <4> QED BY <4>1, <4>2
    <3>5. lines[m].ts <= lines[l].ts
      BY <3>2, <3>4 DEF ShipInv, LinesInv
    <3> QED BY <1>8, <3>1, <3>2, <3>3, <3>5
  <2>4. CASE live = i
    <3>1. lines[l].ts > 0 /\ ~ (l < 1)
      BY <1>8 DEF ShipInv, LinesInv
    <3> QED BY <1>6, <1>7, <1>10, <2>1, <2>2, <2>3, <2>4, <3>1, NoTaskFields
  <2>5. CASE live # i
    BY <1>7, <1>10, <2>1, <2>3, <2>5 DEF ShipTypeOK
  <2> QED BY <2>4, <2>5
<1>19. DoubtInv'
  <2>1. ASSUME NEW l \in 1 .. Len(lines)
        PROVE  /\ ToStore(l)' => ToStore(l)
               /\ Stored(l)' => Stored(l)
               /\ Stored(l) /\ ~Stored(l)' => lines[l].ts <= top
    <3>1. CASE lines[l].id = i
      <4>1. ~Stored(l)' /\ (Stored(l) => l \in B)
        BY <1>5, <1>6, <1>7, <3>1 DEF Stored, B
      <4>2. ToStore(l)' => ToStore(l)
        BY <1>5, <1>6, <1>7, <3>1 DEF ToStore
      <4> QED BY <1>3, <4>1, <4>2
    <3>2. CASE lines[l].id # i
      BY <1>5, <1>7, <1>8, <3>2 DEF ToStore, Stored
    <3> QED BY <3>1, <3>2
  <2>2. ASSUME NEW l \in Line
        PROVE  copies'[l] <= (IF l <= Len(lines) THEN 1 + doubts' ELSE 0)
    <3>1. copies[l] <= (IF l <= Len(lines) THEN 1 + doubts ELSE 0) /\ copies[l] \in Nat
      BY DEF ShipInv, DoubtInv, ShipTypeOK
    <3> QED BY <1>5, <1>9, <1>10, <3>1
  <2>3. ASSUME NEW l \in 1 .. Len(lines)
        PROVE  LET spare == IF Unsaved(l)' THEN 1 ELSE 0 IN
               /\ ToStore(l)' => copies[l] + spare <= doubts'
               /\ Stored(l)' => copies[l] + spare <= 1 + doubts'
               /\ lines[l].ts > file' /\ ~Stored(l)' => copies[l] <= doubts'
    <3>1. LET spare == IF Unsaved(l) THEN 1 ELSE 0 IN
               /\ ToStore(l) => copies[l] + spare <= doubts
               /\ Stored(l) => copies[l] + spare <= 1 + doubts
               /\ lines[l].ts > file /\ ~Stored(l) => copies[l] <= doubts
               /\ copies[l] <= 1 + doubts
      BY <1>8 DEF ShipInv, DoubtInv
    <3>2. /\ Unsaved(l) <=> file < lines[l].ts /\ lines[l].ts <= cursor
          /\ Unsaved(l)' <=> file' < lines[l].ts /\ lines[l].ts <= cursor'
      BY <1>5 DEF Unsaved
    <3>3. CASE UNCHANGED <<cursor, file, doubts>> /\ top <= cursor
      <4>1. Unsaved(l)' <=> Unsaved(l)
        BY <3>2, <3>3
      <4>2. Stored(l) /\ ~Stored(l)' /\ lines[l].ts > file => Unsaved(l)
        BY <1>3, <1>8, <1>9, <2>1, <3>2, <3>3
      <4>3. ASSUME Stored(l), Unsaved(l) PROVE copies[l] <= doubts
        BY <1>8, <1>9, <3>1, <4>3
      <4> QED BY <2>1, <3>1, <3>3, <4>1, <4>2, <4>3
    <3>4. CASE cursor' = top /\ file' = top /\ doubts' = doubts /\ top > cursor
      BY <1>3, <1>8, <1>9, <2>1, <3>1, <3>2, <3>4
    <3>5. CASE cursor' = top /\ file' \in {file, 0} /\ doubts' = doubts + 1
      BY <1>3, <1>8, <1>9, <2>1, <3>1, <3>2, <3>5
    <3> QED BY <1>10, <3>3, <3>4, <3>5
  <2>4. doubts' <= faults' /\ (file' < cursor' => doubts' > 0)
    BY <1>3, <1>9, <1>10 DEF ShipInv, DoubtInv
  <2> QED BY <1>5, <2>2, <2>3, <2>4 DEF DoubtInv
<1> QED BY <1>11, <1>14, <1>15, <1>16, <1>17, <1>18, <1>19 DEF ShipInv

(* No answer: the lines go back into the buffer, or are lost with a task that *)
(* was posting its last.  If they were stored, a doubt is added.              *)
LEMMA FailedStep ==
  ASSUME ShipTypeOK, ShipInv, faults \in 0 .. MaxFaults, NEW i \in Ids, Failed(i)
  PROVE  ShipTypeOK' /\ ShipInv'
<1> DEFINE B == ToSet(task[i].buf)
<1>1. /\ B \subseteq {l \in 1 .. Len(lines) : l < task[i].next /\ lines[l].id = i}
      /\ Len(task[i].buf) <= MaxBuf + MaxItem /\ task[i].buf \in Seq(Line)
      /\ Len(task[i].buf) \in Nat /\ MaxBuf \in Nat /\ MaxItem \in Nat
  BY TaskFields, LogShipperAssumption DEF ShipInv, TaskInv, BufferInv
<1>2. PICK cut : cut = IF Len(task[i].buf) > MaxBuf THEN Len(task[i].buf) - MaxBuf ELSE 0
  OBVIOUS
<1>3. PICK rest : rest = SubSeq(task[i].buf, cut + 1, Len(task[i].buf))
  OBVIOUS
<1>4. PICK gone : gone = {task[i].buf[n] : n \in 1 .. cut}
  OBVIOUS
<1>5. cut \in 0 .. Len(task[i].buf)
  BY <1>1, <1>2
<1>6. rest \in Seq(Line) /\ Len(rest) = Len(task[i].buf) - cut /\ B = gone \cup ToSet(rest)
  BY <1>1, <1>3, <1>4, <1>5, ToSetCut
<1>7. Len(rest) <= MaxBuf
  BY <1>1, <1>2, <1>6
<1> HIDE DEF B
<1>8. PICK t : t = IF task[i].phase = "last" THEN NoTask
                   ELSE [task[i] EXCEPT !.phase = "follow", !.stored = FALSE, !.buf = rest, !.to = 0]
  OBVIOUS
<1>9. /\ task' = [task EXCEPT ![i] = t]
      /\ dropped' = IF task[i].phase = "last" THEN dropped ELSE dropped \cup gone
      /\ UNCHANGED <<lines, live, running, target, cursor, file, copies>>
      /\ Unanswered(i)
  BY <1>2, <1>3, <1>4, <1>8 DEF Failed, After, dockerVars
<1>10. /\ t \in Task /\ ~t.stored
       /\ t.phase \in {"none", "follow"} /\ (t.phase = "none" => t = NoTask)
       /\ t.phase = "follow" => /\ t.next = task[i].next /\ t.from = task[i].from
                                /\ t.buf = rest /\ task[i].phase # "last"
  <2>1. CASE task[i].phase = "last" BY <1>8, <2>1, NoTaskFields
  <2>2. CASE task[i].phase # "last"
    <3>1. 0 \in Password
      BY LogsConfigAssumption DEF Password
    <3>2. t = [task[i] EXCEPT !.phase = "follow", !.stored = FALSE, !.buf = rest, !.to = 0]
      BY <1>8, <2>2
    <3> QED BY <1>6, <2>2, <3>1, <3>2, TaskFields DEF Task
  <2> QED BY <2>1, <2>2
<1>11. ToSet(t.buf) \subseteq B /\ Len(t.buf) <= MaxBuf
  <2>1. CASE t.phase = "follow" BY <1>6, <1>7, <1>10, <2>1
  <2>2. CASE t.phase = "none" BY <1>1, <1>10, <2>2, NoTaskFields
  <2> QED BY <1>10, <2>1, <2>2
<1>12. task'[i] = t /\ \A j \in Ids \ {i} : task'[j] = task[j]
  BY <1>9 DEF ShipTypeOK
<1>13. \A l \in 1 .. Len(lines) : /\ l \in Line /\ copies[l] \in Nat
                                  /\ lines[l].ts \in Nat /\ lines[l].id \in Ids
  BY LineFields DEF ShipInv
<1>14. doubts \in Nat /\ faults \in Nat /\ doubts <= faults
  BY DEF ShipTypeOK, ShipInv, DoubtInv
<1>15. /\ task[i].phase \in {"ship", "last"}
       /\ faults' = faults \/ (faults' = faults + 1 /\ faults < MaxFaults)
       /\ \/ /\ task[i].stored /\ doubts' = doubts + 1
             /\ faults' = faults + 1 /\ faults < MaxFaults
          \/ ~task[i].stored /\ doubts' = doubts
  BY <1>9 DEF Unanswered, Posting, Fault
<1>16. ShipTypeOK'
  <2>1. doubts' \in 0 .. MaxFaults
    BY <1>14, <1>15, LogsConfigAssumption DEF ShipTypeOK
  <2>2. dropped' \subseteq Line
    BY <1>1, <1>6, <1>9, <1>13 DEF ShipTypeOK
  <2> QED BY <1>9, <1>10, <2>1, <2>2 DEF ShipTypeOK
<1>17. Grows
  BY <1>9, LineFields DEF Grows, ShipInv
<1>18. LinesInv'
  BY <1>9 DEF ShipInv, LinesInv
<1>19. TaskInv'
  <2> SUFFICES ASSUME NEW j \in Ids
               PROVE  LET u == task'[j] IN
                      /\ j > live \/ u.phase = "none" => u = NoTask
                      /\ u.next <= Len(lines) + 1
                      /\ ToSet(u.buf) \subseteq {l \in 1 .. Len(lines) : l < u.next /\ lines[l].id = j}
                      /\ u.phase \in {"ship", "last"} => u.buf # <<>>
                      /\ u.stored => u.phase \in {"ship", "last"} /\ \A l \in ToSet(u.buf) : copies[l] > 0
    BY <1>9 DEF TaskInv, Posting
  <2>1. CASE j = i
    <3>1. ~ (i > live) /\ task[i].next <= Len(lines) + 1 /\ 1 <= Len(lines) + 1
      BY <1>15, NoTaskFields, LineFields DEF ShipInv, TaskInv
    <3>2. CASE t.phase = "follow"
      BY <1>1, <1>10, <1>11, <1>12, <2>1, <3>1, <3>2
    <3>3. CASE t.phase = "none"
      BY <1>10, <1>12, <2>1, <3>1, <3>3, NoTaskFields
    <3> QED BY <1>10, <3>2, <3>3
  <2>2. CASE j # i BY <1>9, <1>12, <2>2 DEF ShipInv, TaskInv, Posting
  <2> QED BY <2>1, <2>2
<1>20. BufferInv'
  BY <1>10, <1>11, <1>12 DEF ShipInv, BufferInv
<1>21. CursorInv'
  <2>1. ASSUME NEW j \in Ids PROVE StoredTime(task[j].from)'
    <3>1. task'[j].from = task[j].from \/ task'[j].from = 0
      BY <1>10, <1>12, NoTaskFields
    <3>2. task'[j].from = 0 => StoredTime(task[j].from)'
      BY DEF StoredTime
    <3> QED BY <1>16, <1>17, <3>1, <3>2, StoredTimesStay DEF ShipInv, CursorInv
  <2> QED BY <1>9, <1>16, <1>17, <2>1, StoredTimesStay DEF ShipInv, CursorInv
<1>22. ReadInv'
  <2> SUFFICES ASSUME NEW l \in 1 .. Len(lines), lines[l].id = live, ~Accounted(l)'
               PROVE  /\ lines[l].ts > cursor
                      /\ lines[l].ts > task'[live].from
                      /\ l < task'[live].next => l \in ToSet(task'[live].buf)
    BY <1>9 DEF ReadInv
  <2>1. ~Accounted(l)
    BY <1>16, <1>17, AccountedStays
  <2>2. /\ lines[l].ts > cursor
        /\ lines[l].ts > task[live].from
        /\ l < task[live].next => l \in ToSet(task[live].buf)
    BY <2>1 DEF ShipInv, ReadInv
  <2>3. CASE live = i /\ t.phase = "none"
    <3>1. lines[l].ts > 0 /\ ~ (l < 1)
      BY <1>13 DEF ShipInv, LinesInv
    <3> QED BY <1>10, <1>12, <2>2, <2>3, <3>1, NoTaskFields
  <2>4. CASE live = i /\ t.phase = "follow"
    <3>1. l \notin gone
      BY <1>9, <1>10, <2>4 DEF Accounted
    <3>2. l < task[i].next => l \in ToSet(rest)
      BY <1>6, <2>2, <2>4, <3>1 DEF B
    <3> QED BY <1>10, <1>12, <2>2, <2>4, <3>2
  <2>5. CASE live # i
    BY <1>12, <2>2, <2>5 DEF ShipTypeOK
  <2> QED BY <1>10, <2>3, <2>4, <2>5
<1>23. DoubtInv'
  <2>1. ASSUME NEW l \in 1 .. Len(lines)
        PROVE  /\ ToStore(l)' => ToStore(l) \/ Stored(l)
               /\ Stored(l)' => Stored(l)
               /\ ~task[i].stored => (ToStore(l)' => ToStore(l)) /\ (Stored(l) => Stored(l)')
               /\ Unsaved(l)' = Unsaved(l)
    <3>1. CASE lines[l].id = i
      <4>1. task[i].stored \in BOOLEAN
        BY TaskFields
      <4>2. ~Stored(l)' /\ (Stored(l) <=> task[i].stored /\ l \in B)
        BY <1>9, <1>10, <1>12, <3>1, <4>1 DEF Stored, B
      <4>3. ToStore(l)' => \/ l \in B
                           \/ t.phase = "follow" /\ i = live /\ l >= task[i].next /\ lines[l].ts > task[i].from
        BY <1>9, <1>10, <1>11, <1>12, <3>1 DEF ToStore
      <4>4. l \in B /\ ~task[i].stored => ToStore(l)
        BY <3>1 DEF ToStore, B
      <4>5. i = live /\ l >= task[i].next /\ lines[l].ts > task[i].from => ToStore(l)
        BY <1>15, <3>1 DEF ToStore
      <4> QED BY <1>9, <4>1, <4>2, <4>3, <4>4, <4>5 DEF Unsaved
    <3>2. CASE lines[l].id # i
      BY <1>9, <1>12, <1>13, <3>2 DEF ToStore, Stored, Unsaved
    <3> QED BY <3>1, <3>2
  <2>2. ASSUME NEW l \in Line
        PROVE  copies'[l] <= (IF l <= Len(lines) THEN 1 + doubts' ELSE 0)
    <3>1. copies[l] <= (IF l <= Len(lines) THEN 1 + doubts ELSE 0) /\ copies[l] \in Nat
      BY DEF ShipInv, DoubtInv, ShipTypeOK
    <3> QED BY <1>9, <1>14, <1>15, <3>1
  <2>3. ASSUME NEW l \in 1 .. Len(lines)
        PROVE  LET spare == IF Unsaved(l)' THEN 1 ELSE 0 IN
               /\ ToStore(l)' => copies[l] + spare <= doubts'
               /\ Stored(l)' => copies[l] + spare <= 1 + doubts'
               /\ lines[l].ts > file /\ ~Stored(l)' => copies[l] <= doubts'
    <3>1. LET spare == IF Unsaved(l) THEN 1 ELSE 0 IN
               /\ ToStore(l) => copies[l] + spare <= doubts
               /\ Stored(l) => copies[l] + spare <= 1 + doubts
               /\ lines[l].ts > file /\ ~Stored(l) => copies[l] <= doubts
               /\ copies[l] <= 1 + doubts
      BY <1>13 DEF ShipInv, DoubtInv
    <3>2. CASE task[i].stored /\ doubts' = doubts + 1
      BY <1>13, <1>14, <2>1, <3>1, <3>2
    <3>3. CASE ~task[i].stored /\ doubts' = doubts
      BY <2>1, <3>1, <3>3
    <3> QED BY <1>15, <3>2, <3>3
  <2>4. doubts' <= faults' /\ (file' < cursor' => doubts' > 0)
    BY <1>9, <1>14, <1>15 DEF ShipInv, DoubtInv
  <2> QED BY <1>9, <2>2, <2>3, <2>4 DEF DoubtInv
<1> QED BY <1>16, <1>18, <1>19, <1>20, <1>21, <1>22, <1>23 DEF ShipInv

(* The agent is started again with the cursor of the file: no task stores,   *)
(* and a stored batch whose answer was to come adds a doubt.                 *)
LEMMA AgentRestartStep ==
  ASSUME ShipTypeOK, ShipInv, faults \in 0 .. MaxFaults, AgentRestart
  PROVE  ShipTypeOK' /\ ShipInv'
<1>1. /\ \A j \in Ids : task'[j] = NoTask
      /\ task' = [j \in Ids |-> NoTask] /\ target' = 0 /\ cursor' = file'
      /\ UNCHANGED <<lines, live, running, copies, dropped>>
      /\ faults' = faults + 1 /\ faults < MaxFaults
      /\ file' = file \/ file' = 0
      /\ \/ doubts' = doubts + 1
         \/ doubts' = doubts /\ file' = file /\ ~ \E j \in Ids : task[j].stored
  BY DEF AgentRestart, Fault, dockerVars
<1>2. \A l \in 1 .. Len(lines) : /\ l \in Line /\ copies[l] \in Nat
                                 /\ lines[l].ts \in Nat /\ lines[l].id \in Ids
  BY LineFields DEF ShipInv
<1>3. /\ doubts \in Nat /\ faults \in Nat /\ doubts <= faults
      /\ file \in Nat /\ cursor \in Nat /\ file <= cursor /\ file' \in Nat /\ file' <= file
  BY <1>1 DEF ShipTypeOK, ShipInv, DoubtInv, CursorInv
<1>4. ShipTypeOK'
  <2>1. doubts' \in 0 .. MaxFaults /\ 0 \in Password
    BY <1>1, <1>3, LogsConfigAssumption DEF ShipTypeOK, Password
  <2> QED BY <1>1, <1>3, <2>1, NoTaskFields DEF ShipTypeOK
<1>5. Grows
  BY <1>1, LineFields DEF Grows, ShipInv
<1>6. \A l \in 1 .. Len(lines) : Accounted(l)' = Accounted(l)
  BY <1>1 DEF Accounted, SharesTime
<1>7. LinesInv'
  BY <1>1 DEF ShipInv, LinesInv
<1>8. TaskInv' /\ BufferInv'
  <2>1. 1 <= Len(lines) + 1 /\ Len(<<>>) <= MaxBuf
    BY LineFields, LogShipperAssumption DEF ShipInv
  <2> QED BY <1>1, <2>1, NoTaskFields DEF TaskInv, BufferInv, Posting
<1>9. CursorInv'
  <2>1. StoredTime(file)'
    <3>1. CASE file' = file BY <1>4, <1>5, <3>1, StoredTimesStay DEF ShipInv, CursorInv
    <3>2. CASE file' = 0 BY <3>2 DEF StoredTime
    <3> QED BY <1>1, <3>1, <3>2
  <2>2. StoredTime(cursor)'
    BY <1>1, <2>1 DEF StoredTime
  <2>3. \A j \in Ids : StoredTime(task[j].from)'
    BY <1>1, NoTaskFields DEF StoredTime
  <2> QED BY <1>1, <1>3, <2>1, <2>2, <2>3 DEF CursorInv
<1>10. ReadInv'
  <2> SUFFICES ASSUME NEW l \in 1 .. Len(lines), lines[l].id = live, ~Accounted(l)
               PROVE  lines[l].ts > cursor' /\ lines[l].ts > 0 /\ ~ (l < 1)
    BY <1>1, <1>6, NoTaskFields DEF ReadInv, ShipTypeOK
  <2>1. lines[l].ts > cursor
    BY DEF ShipInv, ReadInv
  <2> QED BY <1>1, <1>2, <1>3, <2>1
<1>11. DoubtInv'
  <2>1. \A l \in 1 .. Len(lines) : ~ToStore(l)' /\ ~Stored(l)'
    BY <1>1, <1>2, NoTaskFields DEF ToStore, Stored
  <2>2. ASSUME NEW l \in 1 .. Len(lines), lines[l].ts > file'
        PROVE  copies[l] <= doubts'
    <3>1. CASE doubts' = doubts + 1
      BY <1>2, <1>3, <3>1 DEF ShipInv, DoubtInv
    <3>2. CASE doubts' = doubts /\ file' = file /\ ~ \E j \in Ids : task[j].stored
      BY <1>2, <2>2, <3>2 DEF ShipInv, DoubtInv, Stored
    <3> QED BY <1>1, <3>1, <3>2
  <2>3. ASSUME NEW l \in Line
        PROVE  copies'[l] <= (IF l <= Len(lines) THEN 1 + doubts' ELSE 0)
    <3>1. copies[l] <= (IF l <= Len(lines) THEN 1 + doubts ELSE 0) /\ copies[l] \in Nat
      BY DEF ShipInv, DoubtInv, ShipTypeOK
    <3> QED BY <1>1, <1>3, <3>1
  <2> QED BY <1>1, <1>3, <2>1, <2>2, <2>3 DEF DoubtInv
<1> QED BY <1>4, <1>7, <1>8, <1>9, <1>10, <1>11 DEF ShipInv

(* The file is written for another name: it comes up to the cursor; or it is *)
(* lost, or left behind, and then a doubt is added if it goes back.          *)
LEMMA SaveOtherStep ==
  ASSUME ShipTypeOK, ShipInv, faults \in 0 .. MaxFaults, SaveOther
  PROVE  ShipTypeOK' /\ ShipInv'
<1>1. /\ UNCHANGED <<lines, live, running, target, cursor, task, copies, dropped>>
      /\ \/ file' = cursor /\ UNCHANGED <<faults, doubts>>
         \/ /\ file' \in {file, 0} /\ faults' = faults + 1 /\ faults < MaxFaults
            /\ doubts' = IF file' = file THEN doubts ELSE doubts + 1
  BY DEF SaveOther, SaveFails, Fault, dockerVars
<1>2. /\ doubts \in Nat /\ faults \in Nat /\ doubts <= faults
      /\ file \in Nat /\ cursor \in Nat /\ file <= cursor
  BY DEF ShipTypeOK, ShipInv, DoubtInv, CursorInv
<1>3. \A l \in 1 .. Len(lines) : l \in Line /\ copies[l] \in Nat /\ lines[l].ts \in Nat
  BY LineFields DEF ShipInv
<1>4. ShipTypeOK'
  <2>1. doubts' \in 0 .. MaxFaults /\ file' \in Nat
    BY <1>1, <1>2, LogsConfigAssumption DEF ShipTypeOK
  <2> QED BY <1>1, <2>1 DEF ShipTypeOK
<1>5. Grows
  BY <1>1, LineFields DEF Grows, ShipInv
<1>6. LinesInv' /\ TaskInv' /\ BufferInv'
  BY <1>1 DEF ShipInv, LinesInv, TaskInv, BufferInv, Posting
<1>7. CursorInv'
  <2>1. StoredTime(cursor)' /\ \A j \in Ids : StoredTime(task[j].from)'
    BY <1>1, <1>4, <1>5, StoredTimesStay DEF ShipInv, CursorInv
  <2>2. StoredTime(file)'
    <3>1. file' = 0 => StoredTime(file)'
      BY DEF StoredTime
    <3>2. file' = cursor => StoredTime(file)'
      BY <1>1, <2>1 DEF StoredTime
    <3>3. file' = file => StoredTime(file)'
      BY <1>4, <1>5, StoredTimesStay DEF ShipInv, CursorInv
    <3> QED BY <1>1, <3>1, <3>2, <3>3
  <2>3. file' <= cursor'
    BY <1>1, <1>2
  <2> QED BY <2>1, <2>2, <2>3 DEF CursorInv
<1>8. ReadInv'
  BY <1>1 DEF ShipInv, ReadInv, Accounted, SharesTime
<1>9. DoubtInv'
  <2>1. \A l \in 1 .. Len(lines) : /\ ToStore(l)' = ToStore(l)
                                   /\ Stored(l)' = Stored(l)
    BY <1>1 DEF ToStore, Stored
  <2>2. \A l \in 1 .. Len(lines) :
          /\ Unsaved(l) <=> file < lines[l].ts /\ lines[l].ts <= cursor
          /\ Unsaved(l)' <=> file' < lines[l].ts /\ lines[l].ts <= cursor
    BY <1>1 DEF Unsaved
  <2>3. ASSUME NEW l \in Line
        PROVE  copies'[l] <= (IF l <= Len(lines) THEN 1 + doubts' ELSE 0)
    <3>1. copies[l] <= (IF l <= Len(lines) THEN 1 + doubts ELSE 0) /\ copies[l] \in Nat
      BY DEF ShipInv, DoubtInv, ShipTypeOK
    <3> QED BY <1>1, <1>2, <3>1
  <2>4. ASSUME NEW l \in 1 .. Len(lines)
        PROVE  LET spare == IF Unsaved(l)' THEN 1 ELSE 0 IN
               /\ ToStore(l)' => copies[l] + spare <= doubts'
               /\ Stored(l)' => copies[l] + spare <= 1 + doubts'
               /\ lines[l].ts > file' /\ ~Stored(l)' => copies[l] <= doubts'
    <3>1. LET spare == IF Unsaved(l) THEN 1 ELSE 0 IN
               /\ ToStore(l) => copies[l] + spare <= doubts
               /\ Stored(l) => copies[l] + spare <= 1 + doubts
               /\ lines[l].ts > file /\ ~Stored(l) => copies[l] <= doubts
               /\ copies[l] <= 1 + doubts
      BY <1>3 DEF ShipInv, DoubtInv
    <3>2. CASE file' = cursor /\ doubts' = doubts
      BY <1>2, <1>3, <2>1, <2>2, <3>1, <3>2
    <3>3. CASE file' = file /\ doubts' = doubts
      BY <2>1, <2>2, <3>1, <3>3
    <3>4. CASE file' = 0 /\ doubts' = doubts + 1
      BY <1>2, <1>3, <2>1, <2>2, <3>1, <3>4
    <3> QED BY <1>1, <3>2, <3>3, <3>4
  <2>5. doubts' <= faults' /\ (file' < cursor' => doubts' > 0)
    BY <1>1, <1>2 DEF ShipInv, DoubtInv
  <2> QED BY <1>1, <2>3, <2>4, <2>5 DEF DoubtInv
<1> QED BY <1>4, <1>6, <1>7, <1>8, <1>9 DEF ShipInv

(* A new line comes after all others: at a cursor's time it shares the time  *)
(* of a stored one.                                                          *)
LEMMA WriteLineStep ==
  ASSUME ShipTypeOK, ShipInv, WriteLine
  PROVE  ShipTypeOK' /\ ShipInv'
<1> DEFINE Rec == [id : Ids, ts : Nat]
           n == Len(lines) + 1
<1>1. \A l \in 1 .. Len(lines) : /\ l \in Line /\ copies[l] \in Nat
                                 /\ lines[l].ts \in Nat /\ lines[l].id \in Ids
  BY LineFields DEF ShipInv
<1>2. Len(lines) \in Nat /\ Len(lines) < MaxLines /\ lines \in Seq(Rec) /\ live \in Ids
  BY DEF WriteLine, ShipTypeOK
<1>3. PICK ts \in IF lines = <<>> THEN {1} ELSE {Last(lines).ts, Last(lines).ts + 1} :
        lines' = Append(lines, [id |-> live, ts |-> ts])
  BY DEF WriteLine
<1>4. UNCHANGED <<live, running, target, cursor, file, task, copies, dropped, doubts, faults>>
  BY DEF WriteLine
<1>5. ts \in Nat /\ ts >= 1 /\ \A l \in 1 .. Len(lines) : lines[l].ts <= ts
  <2>1. CASE lines = <<>>
    BY <1>3, <2>1
  <2>2. CASE lines # <<>>
    <3>1. Len(lines) \in 1 .. Len(lines)
      BY <1>2, <2>2
    <3>2. Last(lines).ts = lines[Len(lines)].ts
      BY DEF Last
    <3>3. ts = lines[Len(lines)].ts \/ ts = lines[Len(lines)].ts + 1
      BY <1>3, <2>2, <3>2
    <3>4. \A l \in 1 .. Len(lines) : lines[l].ts <= lines[Len(lines)].ts
      BY <3>1 DEF ShipInv, LinesInv
    <3>5. lines[Len(lines)].ts \in Nat /\ lines[Len(lines)].ts >= 1
      BY <1>1, <3>1 DEF ShipInv, LinesInv
    <3> QED BY <1>1, <3>3, <3>4, <3>5
  <2> QED BY <2>1, <2>2
<1>6. PICK e : e = [id |-> live, ts |-> ts]
  OBVIOUS
<1>7. e \in Rec /\ e.id = live /\ e.ts = ts
  BY <1>2, <1>5, <1>6
<1>8. /\ lines' \in Seq(Rec) /\ Len(lines') = n
      /\ \A l \in 1 .. Len(lines) : lines'[l] = lines[l]
      /\ lines'[n] = e
  <2>1. lines' = Append(lines, e)
    BY <1>3, <1>6
  <2> HIDE DEF Rec
  <2> QED BY <1>2, <1>7, <2>1, AppendProperties
<1>9. n \in Line /\ copies[n] = 0 /\ n \in Nat
  <2>1. n \in Line
    BY <1>2, LogShipperAssumption DEF Line
  <2> QED BY <1>2, <2>1 DEF ShipInv, DoubtInv, ShipTypeOK
<1>10. \A l \in 1 .. Len(lines') : l \in 1 .. Len(lines) \/ l = n
  BY <1>2, <1>8
<1>11. \A l \in 1 .. Len(lines) : l \in 1 .. Len(lines') /\ l < n
  BY <1>2, <1>8
<1>12. ShipTypeOK'
  BY <1>4, <1>8 DEF ShipTypeOK
<1> HIDE DEF Rec, n
<1>13. Grows
  BY <1>2, <1>4, <1>8 DEF Grows, n
<1>14. LinesInv'
  <2>1. Len(lines') <= MaxLines
    BY <1>2, <1>8, LogShipperAssumption DEF n
  <2>2. \A l \in 1 .. Len(lines') : lines'[l].ts >= 1 /\ lines'[l].id <= live
    <3>1. live <= live
      BY <1>2 DEF Ids
    <3> QED BY <1>5, <1>7, <1>8, <1>10, <3>1 DEF ShipInv, LinesInv
  <2>3. ASSUME NEW k \in 1 .. Len(lines'), NEW l \in 1 .. Len(lines'), k <= l
        PROVE  lines'[k].ts <= lines'[l].ts /\ lines'[k].id <= lines'[l].id
    <3>1. CASE l = n /\ k = n
      BY <1>2, <1>5, <1>7, <1>8, <3>1 DEF Ids
    <3>2. CASE l = n /\ k \in 1 .. Len(lines)
      BY <1>5, <1>7, <1>8, <3>2 DEF ShipInv, LinesInv
    <3>3. CASE l \in 1 .. Len(lines) /\ k \in 1 .. Len(lines)
      BY <1>8, <2>3, <3>3 DEF ShipInv, LinesInv
    <3>4. ~ (l \in 1 .. Len(lines) /\ k = n)
      BY <1>2, <2>3 DEF n
    <3> QED BY <1>10, <3>1, <3>2, <3>3, <3>4
  <2> QED BY <1>4, <2>1, <2>2, <2>3 DEF LinesInv
<1>15. TaskInv'
  <2> SUFFICES ASSUME NEW j \in Ids
               PROVE  LET u == task[j] IN
                      /\ j > live \/ u.phase = "none" => u = NoTask
                      /\ u.next <= Len(lines') + 1
                      /\ ToSet(u.buf) \subseteq {l \in 1 .. Len(lines') : l < u.next /\ lines'[l].id = j}
                      /\ u.phase \in {"ship", "last"} => u.buf # <<>>
                      /\ u.stored => u.phase \in {"ship", "last"} /\ \A l \in ToSet(u.buf) : copies[l] > 0
    BY <1>4 DEF TaskInv, Posting
  <2>1. task[j].next <= Len(lines') + 1
    BY <1>2, <1>8, TaskFields DEF ShipInv, TaskInv, n
  <2>2. ToSet(task[j].buf) \subseteq {l \in 1 .. Len(lines') : l < task[j].next /\ lines'[l].id = j}
    BY <1>8, <1>11 DEF ShipInv, TaskInv
  <2> QED BY <2>1, <2>2 DEF ShipInv, TaskInv, Posting
<1>16. BufferInv'
  BY <1>4 DEF ShipInv, BufferInv
<1>17. CursorInv'
  BY <1>4, <1>12, <1>13, StoredTimesStay DEF ShipInv, CursorInv
<1>18. ReadInv'
  <2> SUFFICES ASSUME NEW l \in 1 .. Len(lines'), lines'[l].id = live, ~Accounted(l)'
               PROVE  /\ lines'[l].ts > cursor
                      /\ lines'[l].ts > task[live].from
                      /\ l < task[live].next => l \in ToSet(task[live].buf)
    BY <1>4 DEF ReadInv
  <2>1. CASE l \in 1 .. Len(lines)
    <3>1. ~Accounted(l)
      BY <1>12, <1>13, <2>1, AccountedStays
    <3> QED BY <1>8, <2>1, <3>1 DEF ShipInv, ReadInv
  <2>2. CASE l = n
    <3>1. ASSUME NEW time \in Nat, StoredTime(time)
          PROVE  ts > time
      <4>1. CASE time = 0 BY <1>5, <4>1
      <4>2. ASSUME NEW k \in 1 .. Len(lines), copies[k] > 0, lines[k].ts = time
            PROVE  ts > time
        <5>1. ts # time
          BY <1>4, <1>7, <1>8, <1>11, <2>2, <4>2 DEF Accounted, SharesTime
        <5> QED BY <1>5, <4>2, <5>1
      <4> QED BY <3>1, <4>1, <4>2 DEF StoredTime
    <3>2. StoredTime(cursor) /\ cursor \in Nat /\ StoredTime(task[live].from) /\ task[live].from \in Nat
      BY <1>2, TaskFields DEF ShipInv, CursorInv, ShipTypeOK
    <3>3. ts > cursor /\ ts > task[live].from
      BY <3>1, <3>2
    <3>4. ~ (n < task[live].next)
      <4>1. task[live].next <= n /\ task[live].next \in Nat
        BY <1>2, TaskFields DEF ShipInv, TaskInv, n
      <4> QED BY <1>9, <4>1
    <3> QED BY <1>7, <1>8, <2>2, <3>3, <3>4
  <2> QED BY <1>10, <2>1, <2>2
<1>19. DoubtInv'
  <2>1. ASSUME NEW l \in 1 .. Len(lines)
        PROVE  /\ ToStore(l)' = ToStore(l) /\ Stored(l)' = Stored(l)
               /\ Unsaved(l)' = Unsaved(l)
    BY <1>4, <1>8 DEF ToStore, Stored, Unsaved
  <2>2. ASSUME NEW l \in Line
        PROVE  copies[l] <= (IF l <= Len(lines') THEN 1 + doubts ELSE 0)
    <3>1. copies[l] <= (IF l <= Len(lines) THEN 1 + doubts ELSE 0) /\ copies[l] \in Nat
      BY DEF ShipInv, DoubtInv, ShipTypeOK
    <3>2. l <= Len(lines) => l <= Len(lines')
      BY <1>2, <1>8, LogShipperAssumption DEF n, Line
    <3>3. doubts \in Nat
      BY DEF ShipTypeOK
    <3> QED BY <3>1, <3>2, <3>3
  <2>3. ASSUME NEW l \in 1 .. Len(lines')
        PROVE  LET spare == IF Unsaved(l)' THEN 1 ELSE 0 IN
               /\ ToStore(l)' => copies[l] + spare <= doubts
               /\ Stored(l)' => copies[l] + spare <= 1 + doubts
               /\ lines'[l].ts > file /\ ~Stored(l)' => copies[l] <= doubts
    <3>1. CASE l \in 1 .. Len(lines)
      BY <1>8, <2>1, <3>1 DEF ShipInv, DoubtInv
    <3>2. CASE l = n
      <4>1. Unsaved(l)' => file < ts /\ ts <= cursor
        BY <1>4, <1>7, <1>8, <3>2 DEF Unsaved
      <4>2. Unsaved(l)' => doubts > 0
        BY <1>5, <4>1 DEF ShipInv, DoubtInv, ShipTypeOK
      <4>3. doubts \in Nat
        BY DEF ShipTypeOK
      <4> QED BY <1>9, <3>2, <4>2, <4>3
    <3> QED BY <1>10, <3>1, <3>2
  <2> QED BY <1>4, <2>2, <2>3 DEF ShipInv, DoubtInv
<1> QED BY <1>12, <1>14, <1>15, <1>16, <1>17, <1>18, <1>19 DEF ShipInv

(* The next container has written nothing, and its lines have no task yet;   *)
(* what its predecessor's task has not read is no longer to be read.         *)
LEMMA ReplaceStep ==
  ASSUME ShipTypeOK, ShipInv, Replace
  PROVE  ShipTypeOK' /\ ShipInv'
<1>1. /\ live \in Ids /\ live' = live + 1 /\ live' \in Ids /\ running' = TRUE
      /\ UNCHANGED <<lines, target, cursor, file, task, copies, dropped, doubts, faults>>
  BY LogShipperAssumption DEF Replace, ShipTypeOK, Ids
<1>2. ShipTypeOK'
  BY <1>1 DEF ShipTypeOK
<1>3. \A l \in 1 .. Len(lines) : lines[l].id \in Ids /\ lines[l].id <= live
  BY LineFields DEF ShipInv, LinesInv
<1>4. \A i \in Ids : i > live' => i > live
  BY <1>1 DEF Ids
<1>5. \A l \in 1 .. Len(lines) : lines[l].id # live' /\ lines[l].id <= live'
  BY <1>1, <1>3 DEF Ids
<1>6. LinesInv'
  BY <1>1, <1>5 DEF ShipInv, LinesInv
<1>7. TaskInv'
  BY <1>1, <1>4 DEF ShipInv, TaskInv, Posting
<1>8. BufferInv' /\ CursorInv'
  BY <1>1 DEF ShipInv, BufferInv, CursorInv, StoredTime
<1>9. ReadInv'
  BY <1>1, <1>5 DEF ReadInv
<1>10. DoubtInv'
  <2>1. \A l \in 1 .. Len(lines) : /\ ToStore(l)' => ToStore(l)
                                   /\ Stored(l)' <=> Stored(l)
                                   /\ Unsaved(l)' <=> Unsaved(l)
    BY <1>1, <1>5 DEF ToStore, Stored, Unsaved
  <2> QED BY <1>1, <2>1 DEF ShipInv, DoubtInv
<1> QED BY <1>2, <1>6, <1>7, <1>8, <1>9, <1>10 DEF ShipInv

(* Steps that touch neither lines nor tasks, cursors or rows.               *)
LEMMA ShipFrame ==
  ASSUME ShipTypeOK, ShipInv, faults \in Nat, faults' \in Nat, faults <= faults',
         running' \in BOOLEAN, target' \in Password,
         UNCHANGED <<lines, live, cursor, file, task, copies, dropped, doubts>>
  PROVE  ShipTypeOK' /\ ShipInv'
<1>1. ShipTypeOK'
  BY DEF ShipTypeOK
<1>2. LinesInv' /\ TaskInv' /\ BufferInv' /\ CursorInv'
  BY DEF ShipInv, LinesInv, TaskInv, BufferInv, CursorInv, StoredTime, Posting
<1>3. ReadInv'
  BY DEF ShipInv, ReadInv, Accounted, SharesTime
<1>4. DoubtInv'
  <2>1. doubts <= faults'
    BY DEF ShipInv, DoubtInv, ShipTypeOK
  <2>2. \A l \in 1 .. Len(lines) : /\ ToStore(l)' = ToStore(l)
                                   /\ Stored(l)' = Stored(l)
                                   /\ Unsaved(l)' = Unsaved(l)
    BY DEF ToStore, Stored, Unsaved
  <2> QED BY <2>1, <2>2 DEF ShipInv, DoubtInv
<1> QED BY <1>1, <1>2, <1>3, <1>4 DEF ShipInv

-----------------------------------------------------------------------------
(* The theorems *)

PipelineInv == TypeOK /\ PasswordInv /\ ShipInv

LEMMA InitInv == Init => PipelineInv
<1> SUFFICES ASSUME Init PROVE PipelineInv
  OBVIOUS
<1>1. ConfigTypeOK /\ PasswordInv
  BY ConfigInitInv DEF Init
<1>2. /\ lines = <<>> /\ Len(lines) = 0 /\ live = 1 /\ running = TRUE
      /\ target = 0 /\ cursor = 0 /\ file = 0 /\ doubts = 0 /\ dropped = {} /\ faults = 0
      /\ task = [i \in Ids |-> NoTask] /\ copies = [l \in Line |-> 0]
  BY DEF Init, ShipInit, ConfigInit
<1>3. ShipTypeOK
  <2>1. 1 \in Ids /\ 0 \in Password /\ 0 \in 0 .. MaxFaults
    BY LogShipperAssumption, LogsConfigAssumption DEF Ids, Password
  <2> DEFINE Rec == [id : Ids, ts : Nat]
  <2>2. lines \in Seq(Rec)
    BY <1>2
  <2>3. task \in [Ids -> Task]
    BY <1>2, NoTaskFields
  <2> QED BY <1>2, <2>1, <2>2, <2>3 DEF ShipTypeOK
<1>4. \A l \in 1 .. Len(lines) : FALSE
  BY <1>2
<1>5. \A i \in Ids : task[i] = NoTask
  BY <1>2
<1>6. LinesInv
  BY <1>2, <1>4, LogShipperAssumption DEF LinesInv
<1>7. TaskInv /\ BufferInv
  BY <1>2, <1>5, NoTaskFields, LogShipperAssumption DEF TaskInv, BufferInv, Posting
<1>8. CursorInv /\ ReadInv
  BY <1>2, <1>4, <1>5, NoTaskFields DEF CursorInv, StoredTime, ReadInv
<1>9. DoubtInv
  BY <1>2, <1>4 DEF DoubtInv, Line
<1> QED BY <1>1, <1>3, <1>6, <1>7, <1>8, <1>9 DEF PipelineInv, ShipInv, TypeOK

LEMMA StepInv ==
  ASSUME PipelineInv, [Next]_vars
  PROVE  PipelineInv'
<1> USE DEF PipelineInv, TypeOK
<1>1. MaxFaults \in Nat /\ faults \in 0 .. MaxFaults /\ faults \in Nat
  BY LogsConfigAssumption DEF ConfigTypeOK
<1>2. ASSUME ConfigStep, UNCHANGED shipVars PROVE PipelineInv'
  <2>1. ConfigTypeOK' /\ PasswordInv'
    BY <1>2, ConfigType, PasswordStep
  <2>2. faults' = faults \/ faults' = faults + 1
    BY <1>2 DEF ConfigStep, PutManifest, PutConfig, DeleteManifest, ClearConfig, ReadConfig,
       NotFound, ClearStale, Deploy, CreateTable, GiveUpTable, MasterRestart, SetupFails,
       UpsertManifest, DeleteFails, LoadFails, Fault
  <2>3. ShipTypeOK' /\ ShipInv'
    BY <1>1, <1>2, <2>2, ShipFrame DEF shipVars, ShipTypeOK
  <2> QED BY <2>1, <2>3
<1>3. ASSUME NEW c \in calls, Answer(c) PROVE PipelineInv'
  <2>1. Found(c) /\ ConfigTypeOK' /\ PasswordInv' /\ c.pw \in Password
    BY <1>3, FoundKeeps DEF Answer
  <2>2. faults' = faults
    BY <2>1 DEF Found
  <2>3. target' \in Password
        /\ UNCHANGED <<lines, live, running, cursor, file, task, copies, dropped, doubts>>
    BY <1>3, <2>1 DEF Answer, TakeTarget, dockerVars, shipVars, ShipTypeOK
  <2>4. ShipTypeOK' /\ ShipInv'
    BY <1>1, <2>2, <2>3, ShipFrame DEF ShipTypeOK
  <2> QED BY <2>1, <2>4
<1>4. ASSUME ShipStep, UNCHANGED configVars PROVE PipelineInv'
  <2>1. CASE WriteLine
    BY <1>1, <1>4, <2>1, WriteLineStep, ConfigFrame DEF WriteLine
  <2>2. CASE StopOrStart
    <3>1. faults' = faults + 1 /\ faults' \in 0 .. MaxFaults
      BY <1>1, <2>2 DEF StopOrStart, Fault
    <3>2. running' \in BOOLEAN /\ target' \in Password
          /\ UNCHANGED <<lines, live, cursor, file, task, copies, dropped, doubts>>
      BY <2>2 DEF StopOrStart, ShipTypeOK
    <3> QED BY <1>1, <1>4, <3>1, <3>2, ShipFrame, ConfigFrame
  <2>3. CASE Replace
    BY <1>1, <1>4, <2>3, ReplaceStep, ConfigFrame DEF Replace
  <2>4. CASE Track
    BY <1>1, <1>4, <2>4, TrackStep, ConfigFrame DEF Track
  <2>5. ASSUME NEW i \in Ids, Collect(i) PROVE PipelineInv'
    <3>1. CASE Read(i)
      BY <1>1, <1>4, <3>1, ReadStep, ConfigFrame DEF Read
    <3>2. CASE Flush(i)
      BY <1>1, <1>4, <3>2, FlushStep, ConfigFrame DEF Flush
    <3>3. CASE Insert(i)
      BY <1>1, <1>4, <3>3, InsertStep, ConfigFrame DEF Insert
    <3>4. CASE Acknowledged(i)
      <4>1. faults' \in 0 .. MaxFaults
        BY <1>1, <3>4 DEF Acknowledged, Advance, SaveFails, Fault
      <4> QED BY <1>1, <1>4, <3>4, <4>1, AcknowledgedStep, ConfigFrame
    <3>5. CASE Failed(i)
      <4>1. faults' \in 0 .. MaxFaults
        BY <1>1, <3>5 DEF Failed, Unanswered, Fault
      <4> QED BY <1>1, <1>4, <3>5, <4>1, FailedStep, ConfigFrame
    <3> QED BY <2>5, <3>1, <3>2, <3>3, <3>4, <3>5 DEF Collect
  <2>6. ASSUME NEW i \in Ids, End(i) PROVE PipelineInv'
    <3>1. faults' \in 0 .. MaxFaults
      BY <1>1, <2>6 DEF End, Fault
    <3> QED BY <1>1, <1>4, <2>6, <3>1, EndStep, ConfigFrame
  <2>7. CASE AgentRestart
    <3>1. faults' \in 0 .. MaxFaults
      BY <1>1, <2>7 DEF AgentRestart, Fault
    <3> QED BY <1>1, <1>4, <2>7, <3>1, AgentRestartStep, ConfigFrame
  <2>8. CASE SaveOther
    <3>1. faults' \in 0 .. MaxFaults
      BY <1>1, <2>8 DEF SaveOther, SaveFails, Fault
    <3> QED BY <1>1, <1>4, <2>8, <3>1, SaveOtherStep, ConfigFrame
  <2> QED BY <1>4, <2>1, <2>2, <2>3, <2>4, <2>5, <2>6, <2>7, <2>8 DEF ShipStep
<1>5. CASE UNCHANGED vars
  <2>1. UNCHANGED configVars /\ UNCHANGED shipVars /\ UNCHANGED faults
    BY <1>5 DEF vars
  <2>2. ConfigTypeOK' /\ PasswordInv'
    BY <1>1, <2>1, ConfigFrame
  <2>3. ShipTypeOK' /\ ShipInv'
    BY <1>1, <2>1, ShipFrame DEF shipVars, ShipTypeOK
  <2> QED BY <2>2, <2>3
<1> QED BY <1>2, <1>3, <1>4, <1>5 DEF Next

(* Configuration and collector keep their types and the invariant of each,   *)
(* for any numbers of containers, lines, setups, calls and faults.           *)
THEOREM PipelineInvariance == Spec => []PipelineInv
<1>1. PipelineInv /\ [Next]_vars => PipelineInv'
  BY StepInv
<1> QED BY <1>1, InitInv, PTL DEF Spec

THEOREM TypeCorrect == Spec => []TypeOK
<1>1. PipelineInv => TypeOK
  BY DEF PipelineInv
<1> QED BY <1>1, PipelineInvariance, PTL

(* logs_setup_handler, manifest_delete_handler: after a setup that met no    *)
(* other and came to its end, and whose manifest was not replaced, agents    *)
(* are given the password that ClickHouse is deployed with, whatever errors  *)
(* and restarts came before it.                                              *)
THEOREM OnePassword == Spec => []SamePassword
<1>1. PipelineInv => SamePassword
  BY DEF PipelineInv, PasswordInv, SamePassword
<1> QED BY <1>1, PipelineInvariance, PTL

(* ship, ShipState::advance: no line that the cursor has passed is missing,  *)
(* but for the known losses.                                                 *)
THEOREM CursorSafe == Spec => []CursorPassesStored
<1>1. PipelineInv => CursorPassesStored
  <2> SUFFICES ASSUME PipelineInv, NEW l \in 1 .. Len(lines),
                      lines[l].id = live, lines[l].ts <= cursor
               PROVE  Accounted(l)
    BY DEF CursorPassesStored
  <2>1. lines[l].ts \in Nat /\ cursor \in Nat
    BY LineFields DEF PipelineInv, ShipInv, TypeOK, ShipTypeOK
  <2> QED BY <2>1 DEF PipelineInv, ShipInv, ReadInv
<1> QED BY <1>1, PipelineInvariance, PTL

(* ship, ShipState, follow_container: a line is stored again only after a    *)
(* lost answer, a kill before one, or a write of the file of the cursors, by *)
(* whatever name, that failed or was cut.                                    *)
THEOREM CopiesDoubted == Spec => []CopiesNeedDoubt
<1>1. PipelineInv => CopiesNeedDoubt
  <2> SUFFICES ASSUME PipelineInv, NEW l \in Line PROVE copies[l] <= 1 + doubts
    BY DEF CopiesNeedDoubt
  <2>1. copies[l] \in Nat /\ doubts \in Nat
    BY DEF PipelineInv, TypeOK, ShipTypeOK
  <2>2. copies[l] <= (IF l <= Len(lines) THEN 1 + doubts ELSE 0)
    BY DEF PipelineInv, ShipInv, DoubtInv
  <2> QED BY <2>1, <2>2
<1> QED BY <1>1, PipelineInvariance, PTL

(* ship: the buffer of a task never outgrows its limit by more than an item. *)
THEOREM BuffersBounded == Spec => []BufferBounded
<1>1. PipelineInv => BufferBounded
  <2> SUFFICES ASSUME PipelineInv, NEW i \in Ids
               PROVE  Len(task[i].buf) <= (IF Posting(i) THEN MaxBuf + MaxItem ELSE MaxBuf)
    BY DEF BufferBounded
  <2>1. Len(task[i].buf) \in Nat /\ MaxBuf \in Nat /\ MaxItem \in Nat
    BY TaskFields, LogShipperAssumption DEF PipelineInv, TypeOK
  <2> QED BY <2>1 DEF PipelineInv, ShipInv, BufferInv, Posting
<1> QED BY <1>1, PipelineInvariance, PTL
=============================================================================
