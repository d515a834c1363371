-------------------------- MODULE CheckRunner_proofs --------------------------
(***************************************************************************)
(* The result of a check is about the script that ran, for every output    *)
(* limit, every amount of output and every fault: whatever the deadline,   *)
(* the signal, the script and what it leaves on its pipe race for.         *)
(***************************************************************************)
EXTENDS CheckRunner, SequenceTheorems, TLAPS

\* The lemmas about the buffer, for the buffer of the current check.
Limited == INSTANCE LimitedBuffer_proofs
             WITH Byte <- 1 .. MaxOutput, MaxChunk <- MaxOutput,
                  MaxOffered <- MaxOutput

Judging == {"cancel", "judge"}

\* The two checks in their order: nothing of a check that has not begun, and
\* no result of one that has not ended.
OrderInv ==
  /\ check = "validation" =>
       script["health"] = "none" /\ produced["health"] = 0
         /\ result["health"] = NoResult
  /\ pc = "done" => check = "health"
  /\ pc # "done" => result[check] = NoResult
  /\ pc \in {"begin", "start"} => script[check] = "none" /\ produced[check] = 0
  /\ pc = "wait" => script[check] # "none"

\* Wait has returned only after the script had ended and its pipe was drained.
WaitInv ==
  /\ pc \in {"start", "wait"} => code = NoCode /\ Len(offered) <= produced[check]
  /\ pc \in Judging =>
       /\ Len(offered) = produced[check]
       /\ code = IF script[check] \in ExitCode THEN script[check] ELSE NoCode

\* Why a context is done, and a script was killed.
ContextInv ==
  /\ ctx = "cancelled" /\ pc \in {"start", "wait", "cancel"} => parent
  /\ pc = "judge" => ctx # "live"
  /\ pc \in {"wait", "cancel", "judge"} /\ script[check] = "killed" =>
       ctx = "deadline" \/ parent

\* The buffer has been offered the output in its order, none left out.
BufferInv ==
  /\ Buffer!RetainsPrefix
  /\ offered = [i \in 1 .. Len(offered) |-> i]

IInv ==
  /\ TypeOK
  /\ OneAtATime /\ OrderInv /\ WaitInv /\ ContextInv /\ BufferInv
  /\ VerdictTruthful /\ KillExplained /\ OutputComplete

-----------------------------------------------------------------------------
(* The buffer.                                                             *)

\* A sequence is the identity when each of its elements is its position.
LEMMA IdentityOf ==
  ASSUME NEW S, NEW s \in Seq(S)
  PROVE  s = [i \in 1 .. Len(s) |-> i] <=> \A i \in 1 .. Len(s) : s[i] = i
<1>1. /\ Len(s) \in Nat /\ DOMAIN s = 1 .. Len(s)
      /\ s = [i \in DOMAIN s |-> s[i]]
  BY LenProperties
<1> QED
  BY <1>1

\* A chunk of the output goes to the buffer in its place.
LEMMA CopyStep ==
  ASSUME TypeOK, BufferInv,
         NEW n \in 1 .. produced[check] - Len(offered),
         Buffer!Write([i \in 1 .. n |-> Len(offered) + i])
  PROVE  Buffer!TypeOK' /\ BufferInv' /\ Len(offered') = Len(offered) + n
<1> DEFINE chunk == [i \in 1 .. n |-> Len(offered) + i]
<1>1. /\ Buffer!TypeOK /\ offered \in Seq(1 .. MaxOutput) /\ Len(offered) \in Nat
      /\ produced[check] \in 0 .. MaxOutput /\ n \in Nat /\ MaxOutput \in Nat
      /\ n <= produced[check] - Len(offered)
  <2>1. Buffer!TypeOK /\ produced[check] \in 0 .. MaxOutput
    BY DEF TypeOK
  <2>2. offered \in Seq(1 .. MaxOutput) /\ Len(offered) \in Nat
    BY <2>1, LenProperties DEF Buffer!TypeOK
  <2> QED
    BY <2>1, <2>2, OutputAssumption
<1>2. chunk \in Seq(1 .. MaxOutput) /\ Len(chunk) = n
  <2>1. \A i \in 1 .. n : Len(offered) + i \in 1 .. MaxOutput
    BY <1>1
  <2> QED
    BY <1>1, <2>1, IsASeq, LenProperties
<1> HIDE DEF chunk
<1>3. Limited!TypeOK' /\ Limited!RetainsPrefix'
  <2>1. Limited!TypeOK /\ Limited!RetainsPrefix
    BY <1>1 DEF BufferInv, Limited!TypeOK, Buffer!TypeOK, Limited!RetainsPrefix,
       Buffer!RetainsPrefix, Limited!Kept, Buffer!Kept
  <2>2. Limited!Write(chunk)
    BY DEF chunk, Limited!Write, Buffer!Write, Limited!Fitting, Buffer!Fitting,
       Limited!Remaining, Buffer!Remaining
  <2> QED
    BY <1>2, <2>1, <2>2, OutputAssumption, Limited!WriteStep
<1>4. /\ offered' \in Seq(1 .. MaxOutput) /\ Len(offered') = Len(offered) + n
      /\ \A i \in 1 .. Len(offered) + n :
           offered'[i] = IF i <= Len(offered) THEN offered[i]
                         ELSE chunk[i - Len(offered)]
  <2>1. offered' = offered \o chunk
    BY DEF Buffer!Write, chunk
  <2> QED
    BY <1>1, <1>2, <2>1, ConcatProperties
<1>5. \A i \in 1 .. Len(offered) : offered[i] = i
  BY <1>1, IdentityOf DEF BufferInv
<1>6. \A i \in 1 .. Len(offered') : offered'[i] = i
  <2> SUFFICES ASSUME NEW i \in 1 .. Len(offered') PROVE offered'[i] = i
    OBVIOUS
  <2>1. CASE i <= Len(offered)
    <3>1. i \in 1 .. Len(offered)
      BY <1>1, <1>4, <2>1
    <3>2. offered'[i] = offered[i]
      BY <1>4, <2>1
    <3> QED
      BY <1>5, <3>1, <3>2
  <2>2. CASE i > Len(offered)
    <3>1. i - Len(offered) \in 1 .. n
      BY <1>1, <1>4, <2>2
    <3>2. chunk[i - Len(offered)] = Len(offered) + (i - Len(offered))
      BY <3>1 DEF chunk
    <3> QED
      BY <1>1, <1>4, <2>2, <3>2
  <2> QED
    BY <1>1, <1>4, <2>1, <2>2
<1>7. offered' = [i \in 1 .. Len(offered') |-> i]
  BY <1>4, <1>6, IdentityOf
<1> QED
  BY <1>3, <1>4, <1>7 DEF BufferInv, Limited!TypeOK, Buffer!TypeOK,
     Limited!RetainsPrefix, Buffer!RetainsPrefix, Limited!Kept, Buffer!Kept

\* What the buffer holds of an output that was copied to its end.
LEMMA KeptOutput ==
  ASSUME Buffer!TypeOK, BufferInv
  PROVE  LET n == Len(offered)
             kept == IF n > Limit THEN Limit ELSE n
         IN  data = [i \in 1 .. kept |-> i] /\ (truncated <=> n > Limit)
<1>1. /\ offered \in Seq(1 .. MaxOutput) /\ Len(offered) \in Nat /\ Limit \in Nat
  BY OutputAssumption, LenProperties DEF Buffer!TypeOK
<1>2. Buffer!Kept \in 0 .. Len(offered)
  BY <1>1 DEF Buffer!Kept
<1>3. /\ SubSeq(offered, 1, Buffer!Kept) \in Seq(1 .. MaxOutput)
      /\ Len(SubSeq(offered, 1, Buffer!Kept)) = Buffer!Kept
      /\ \A i \in 1 .. Buffer!Kept : SubSeq(offered, 1, Buffer!Kept)[i] = offered[i]
  BY <1>1, <1>2, Limited!PrefixOf, OutputAssumption
<1>4. data = SubSeq(offered, 1, Buffer!Kept)
  BY DEF BufferInv, Buffer!RetainsPrefix
<1>5. \A i \in 1 .. Len(offered) : offered[i] = i
  BY <1>1, IdentityOf DEF BufferInv
<1>6. \A i \in 1 .. Buffer!Kept : data[i] = i
  BY <1>1, <1>2, <1>3, <1>4, <1>5
<1>7. data = [i \in 1 .. Buffer!Kept |-> i]
  BY <1>3, <1>4, <1>6, IdentityOf
<1> QED
  BY <1>7 DEF Buffer!Kept, BufferInv, Buffer!RetainsPrefix

-----------------------------------------------------------------------------
(* The judgement.                                                          *)

\* Each script's exit codes have a status in its contract.
LEMMA MapStatusType ==
  ASSUME NEW c \in Check, NEW exit \in ExitCode
  PROVE  MapStatus(c, exit) \in Status
<1>1. CASE exit = "zero"
  BY <1>1 DEF MapStatus, Status, Verdict
<1>2. CASE exit = "one"
  BY <1>2 DEF MapStatus, Status, Verdict
<1>3. CASE exit = "two"
  BY <1>3 DEF MapStatus, Status, Verdict
<1>4. CASE exit = "other"
  BY <1>4 DEF MapStatus, Status, Verdict
<1> QED
  BY <1>1, <1>2, <1>3, <1>4 DEF ExitCode

\* A check has one of the statuses of the report; it has a verdict only when
\* neither clock ended it and its process has an exit code, and then it is the
\* verdict of that code.
LEMMA StatusOfProperties ==
  ASSUME TypeOK
  PROVE  /\ StatusOf \in Status
         /\ StatusOf \in Verdict =>
              /\ ~parent /\ ctx # "deadline" /\ code # NoCode
              /\ StatusOf = MapStatus(check, code)
         /\ parent => StatusOf = "error"
         /\ ~parent /\ ctx = "deadline" => StatusOf = "timeout"
<1>1. code # NoCode => MapStatus(check, code) \in Status
  BY MapStatusType DEF TypeOK
<1>2. {"error", "timeout", "unavailable"} \subseteq Status \ Verdict
  BY DEF Status, Verdict
<1>3. parent \in BOOLEAN
  BY DEF TypeOK
<1> QED
  BY <1>1, <1>2, <1>3 DEF StatusOf

\* What Judge adds is a result, of the current check only.
LEMMA JudgeStep ==
  ASSUME TypeOK, Judge
  PROVE  LET r == [status |-> StatusOf, available |-> Started,
                   exitCode |-> ExitCodeOf,
                   output |-> data, truncated |-> truncated,
                   warned |-> StatusOf \notin Verdict]
         IN  /\ r \in Result
             /\ result' \in [Check -> Result \cup {NoResult}]
             /\ result'[check] = r
             /\ \A c \in Check \ {check} : result'[c] = result[c]
<1> DEFINE r == [status |-> StatusOf, available |-> Started,
                 exitCode |-> ExitCodeOf,
                 output |-> data, truncated |-> truncated,
                 warned |-> StatusOf \notin Verdict]
<1>1. StatusOf \in Status
  BY StatusOfProperties
<1>2. Started \in BOOLEAN /\ ExitCodeOf \in ExitCode \cup {NoCode}
  BY DEF TypeOK, Started, ExitCodeOf
<1>3. data \in Seq(1 .. MaxOutput) /\ truncated \in BOOLEAN
  BY DEF TypeOK, Buffer!TypeOK
<1>4. r \in Result
  BY <1>1, <1>2, <1>3 DEF Result
<1> HIDE DEF r
<1>5. result' = [result EXCEPT ![check] = r]
  BY DEF Judge, r
<1>6. /\ result' \in [Check -> Result \cup {NoResult}]
      /\ result'[check] = r
      /\ \A c \in Check \ {check} : result'[c] = result[c]
  BY <1>4, <1>5 DEF TypeOK
<1> QED
  BY <1>4, <1>6 DEF r

-----------------------------------------------------------------------------
(* The initial state.                                                      *)

\* A new buffer.
LEMMA EmptyBuffer ==
  /\ data = <<>> /\ offered = <<>> /\ truncated = FALSE => Buffer!TypeOK
  /\ data' = <<>> /\ offered' = <<>> /\ truncated' = FALSE => Buffer!TypeOK'
<1>1. <<>> \in Seq(1 .. MaxOutput) /\ Len(<<>>) = 0
  BY EmptySeq
<1>2. Len(<<>>) <= Limit
  BY <1>1, OutputAssumption
<1>3. ASSUME data = <<>>, offered = <<>>, truncated = FALSE PROVE Buffer!TypeOK
  BY <1>1, <1>2, <1>3, Zenon DEF Buffer!TypeOK
<1>4. ASSUME data' = <<>>, offered' = <<>>, truncated' = FALSE PROVE Buffer!TypeOK'
  BY <1>1, <1>2, <1>4, Zenon DEF Buffer!TypeOK
<1> QED
  BY <1>3, <1>4

\* Nothing has begun.
LEMMA InitInv == Init => IInv
<1> SUFFICES ASSUME Init PROVE IInv
  OBVIOUS
<1> USE OutputAssumption
<1>1. data = <<>> /\ offered = <<>> /\ truncated = FALSE
  BY DEF Init, Buffer!Init
<1>2. <<>> \in Seq(1 .. MaxOutput) /\ Len(<<>>) = 0
  BY EmptySeq
<1>3. Buffer!TypeOK
  BY <1>1, EmptyBuffer
<1>4. TypeOK
  <2>1. /\ script \in [Check -> Process] /\ produced \in [Check -> 0 .. MaxOutput]
        /\ result \in [Check -> Result \cup {NoResult}]
    BY DEF Init, Process
  <2>2. check \in Check
    BY DEF Init, Check
  <2> QED
    BY <1>3, <2>1, <2>2 DEF Init, TypeOK
<1>5. BufferInv
  <2>1. Buffer!Kept = 0 /\ SubSeq(<<>>, 1, 0) = <<>>
    BY <1>1, <1>2, SubSeqEmpty DEF Buffer!Kept
  <2>2. ~(Len(offered) > Limit)
    BY <1>1, <1>2
  <2>3. Buffer!RetainsPrefix
    BY <1>1, <2>1, <2>2 DEF Buffer!RetainsPrefix
  <2>4. \A i \in 1 .. Len(offered) : offered[i] = i
    BY <1>1, <1>2
  <2> QED
    BY <1>1, <1>2, <2>3, <2>4, IdentityOf DEF BufferInv
<1>6. OneAtATime /\ OrderInv /\ WaitInv /\ ContextInv
  BY DEF Init, OneAtATime, OrderInv, WaitInv, ContextInv, Judging, Check
<1>7. VerdictTruthful /\ KillExplained /\ OutputComplete
  BY DEF Init, VerdictTruthful, KillExplained, OutputComplete
<1> QED
  BY <1>4, <1>5, <1>6, <1>7 DEF IInv

-----------------------------------------------------------------------------
(* Steps that do not judge.                                                *)

\* What has been said of a check that has ended stays true as long as nothing
\* happens to its script and its output.
LEMMA PastKept ==
  ASSUME IInv, UNCHANGED result, parent => parent',
         \A c \in Check : result[c] # NoResult =>
                            script'[c] = script[c] /\ produced'[c] = produced[c]
  PROVE  VerdictTruthful' /\ KillExplained' /\ OutputComplete'
<1>1. VerdictTruthful'
  BY DEF IInv, VerdictTruthful
<1>2. KillExplained'
  BY DEF IInv, KillExplained
<1>3. OutputComplete'
  BY DEF IInv, OutputComplete
<1> QED
  BY <1>1, <1>2, <1>3

\* The buffer is as good as it was.
LEMMA BufferKept ==
  ASSUME BufferInv, UNCHANGED buffer PROVE BufferInv'
  BY DEF BufferInv, buffer, Buffer!RetainsPrefix, Buffer!Kept

\* A new buffer for a check that has not written anything.
LEMMA BeginInv == ASSUME IInv, BeginCheck PROVE IInv'
<1> USE DEF IInv, BeginCheck
<1>1. <<>> \in Seq(1 .. MaxOutput) /\ Len(<<>>) = 0
  BY EmptySeq
<1>2. data' = <<>> /\ offered' = <<>> /\ truncated' = FALSE /\ Limit \in Nat
  BY OutputAssumption
<1>3. Buffer!TypeOK'
  BY <1>2, EmptyBuffer
<1>4. TypeOK'
  BY <1>3 DEF TypeOK
<1>5. BufferInv'
  <2>1. SubSeq(<<>>, 1, 0) = <<>>
    BY SubSeqEmpty
  <2>2. Buffer!RetainsPrefix'
    BY <1>1, <1>2, <2>1 DEF Buffer!RetainsPrefix, Buffer!Kept
  <2>3. \A i \in 1 .. Len(offered') : offered'[i] = i
    BY <1>1, <1>2
  <2> QED
    BY <1>1, <1>2, <2>2, <2>3, IdentityOf DEF BufferInv
<1>6. OneAtATime' /\ OrderInv'
  BY DEF OneAtATime, OrderInv
<1>7. WaitInv' /\ ContextInv'
  BY <1>1, <1>2 DEF OrderInv, WaitInv, ContextInv, Judging, TypeOK
<1>8. VerdictTruthful' /\ KillExplained' /\ OutputComplete'
  BY PastKept
<1> QED
  BY <1>4, <1>5, <1>6, <1>7, <1>8

\* The copy goes on until the pipe is at its end.
LEMMA CopyInv == ASSUME IInv, CopyOutput PROVE IInv'
<1> USE DEF IInv
<1>1. PICK n \in 1 .. produced[check] - Len(offered) :
        Buffer!Write([i \in 1 .. n |-> Len(offered) + i])
  BY DEF CopyOutput
<1>2. Buffer!TypeOK' /\ BufferInv' /\ Len(offered') = Len(offered) + n
  BY <1>1, CopyStep
<1>3. UNCHANGED <<check, pc, parent, ctx, script, holder, produced, code, result>>
      /\ pc = "wait"
  BY DEF CopyOutput
<1>4. TypeOK'
  BY <1>2, <1>3 DEF TypeOK
<1>5. Len(offered') <= produced[check]
  <2>1. Len(offered) \in Nat /\ produced[check] \in Nat
    BY LenProperties DEF TypeOK, Buffer!TypeOK
  <2> QED
    BY <1>2, <2>1
<1>6. OneAtATime' /\ OrderInv' /\ WaitInv' /\ ContextInv'
  BY <1>3, <1>5 DEF OneAtATime, OrderInv, WaitInv, ContextInv, Judging
<1>7. VerdictTruthful' /\ KillExplained' /\ OutputComplete'
  BY <1>3, PastKept
<1> QED
  BY <1>2, <1>4, <1>6, <1>7

\* The other steps of the collector leave the buffer and the results alone.
LEMMA CollectorInv ==
  ASSUME IInv, StartScript \/ StartFails \/ WaitReturns \/ CancelContext
  PROVE  IInv'
<1> USE DEF IInv, StartScript, StartFails, WaitReturns, CancelContext
<1>1. UNCHANGED <<buffer, check, result, produced, parent, holder>>
      /\ pc # "done"
  OBVIOUS
<1>2. TypeOK'
  BY <1>1 DEF TypeOK, buffer, Buffer!TypeOK, Process
<1>3. BufferInv'
  BY <1>1, BufferKept
<1>4. check \in Check /\ \A c \in Check \ {check} : script'[c] = script[c]
  BY DEF TypeOK
<1>5. OneAtATime'
  BY <1>4 DEF OneAtATime, TypeOK
<1>6. OrderInv'
  BY <1>1, <1>4 DEF OrderInv, TypeOK, Check
<1>7. WaitInv'
  BY <1>1 DEF OrderInv, WaitInv, Judging, TypeOK, buffer, ExitCode
<1>8. ContextInv'
  BY DEF OrderInv, ContextInv, TypeOK
<1>9. VerdictTruthful' /\ KillExplained' /\ OutputComplete'
  BY <1>1, <1>4, PastKept DEF OrderInv
<1> QED
  BY <1>2, <1>3, <1>5, <1>6, <1>7, <1>8, <1>9

\* The clocks say only why a check may end.
LEMMA ClockInv == ASSUME IInv, Clock PROVE IInv'
<1> USE DEF IInv, Clock, Deadline, Signal, Propagate
<1>1. UNCHANGED <<check, pc, script, holder, produced, buffer, code, result>>
      /\ (parent => parent')
  OBVIOUS
<1>2. TypeOK'
  BY <1>1 DEF TypeOK, buffer, Buffer!TypeOK
<1>3. BufferInv'
  BY <1>1, BufferKept
<1>4. OneAtATime' /\ OrderInv'
  BY <1>1 DEF OneAtATime, OrderInv
<1>5. WaitInv'
  BY <1>1 DEF WaitInv, buffer
<1>6. ContextInv'
  BY DEF ContextInv, TypeOK
<1>7. VerdictTruthful' /\ KillExplained' /\ OutputComplete'
  BY <1>1, PastKept
<1> QED
  BY <1>2, <1>3, <1>4, <1>5, <1>6, <1>7

\* A script runs, writes and leaves descendants only while it is waited for.
LEMMA ProcessInv == ASSUME IInv, Processes PROVE IInv'
<1> USE DEF IInv, Processes, Kill, Exit, CrashScript, Emit, Detach, HolderEnds,
            Running
<1>1. pc = "wait" /\ UNCHANGED <<check, pc, parent, ctx, buffer, code, result>>
  BY DEF OneAtATime
<1>2. check \in Check /\ \A c \in Check \ {check} :
                           script'[c] = script[c] /\ produced'[c] = produced[c]
  BY DEF TypeOK
<1>3. script' \in [Check -> Process] /\ produced' \in [Check -> 0 .. MaxOutput]
  BY OutputAssumption DEF TypeOK, Process
<1>4. script'[check] # "none" /\ produced[check] <= produced'[check]
  BY <1>1, OutputAssumption DEF TypeOK, OrderInv, ExitCode
<1>5. TypeOK'
  BY <1>1, <1>3 DEF TypeOK, buffer, Buffer!TypeOK
<1>6. BufferInv'
  BY <1>1, BufferKept
<1>7. OneAtATime'
  BY <1>1, <1>2 DEF OneAtATime, TypeOK
<1>8. OrderInv'
  BY <1>1, <1>2, <1>4 DEF OrderInv, TypeOK, Check
<1>9. WaitInv'
  <2>1. Len(offered) \in Nat /\ produced[check] \in Nat /\ produced'[check] \in Nat
    BY <1>2, <1>3, LenProperties DEF TypeOK, Buffer!TypeOK
  <2> QED
    BY <1>1, <1>4, <2>1 DEF WaitInv, Judging, buffer
<1>10. ContextInv'
  BY <1>1 DEF ContextInv, TypeOK, ExitCode
<1>11. VerdictTruthful' /\ KillExplained' /\ OutputComplete'
  BY <1>1, <1>2, PastKept DEF OrderInv
<1> QED
  BY <1>5, <1>6, <1>7, <1>8, <1>9, <1>10, <1>11

-----------------------------------------------------------------------------
(* The step that judges.                                                   *)

\* The result that is added is about the script that ran, and the next check
\* begins with nothing.
LEMMA JudgeInv == ASSUME IInv, Judge PROVE IInv'
<1> USE DEF IInv
<1> DEFINE r == result'[check]
<1>1. /\ check \in Check /\ pc = "judge"
      /\ UNCHANGED <<parent, ctx, script, holder, produced, buffer, code>>
  BY DEF Judge, TypeOK
<1>2. /\ result' \in [Check -> Result \cup {NoResult}]
      /\ r.status = StatusOf /\ r.exitCode = ExitCodeOf
      /\ r.output = data /\ r.truncated = truncated
      /\ \A c \in Check \ {check} : result'[c] = result[c]
  BY JudgeStep
<1> HIDE DEF r
<1>3. TypeOK'
  BY <1>1, <1>2 DEF TypeOK, Judge, buffer, Buffer!TypeOK, Check
<1>4. BufferInv'
  BY <1>1, BufferKept
<1>5. OneAtATime'
  BY <1>1 DEF OneAtATime
<1>6. \/ check = "validation" /\ check' = "health" /\ pc' = "begin"
      \/ check = "health" /\ check' = "health" /\ pc' = "done"
  BY DEF Judge
<1>7. OrderInv' /\ WaitInv' /\ ContextInv'
  BY <1>1, <1>2, <1>6 DEF OrderInv, WaitInv, ContextInv, Judging, Check
<1>8. code # NoCode => script[check] \in ExitCode /\ code = script[check]
  BY <1>1 DEF WaitInv, Judging
<1>9. VerdictTruthful'
  <2>1. r.exitCode # NoCode => script[check] = r.exitCode
    BY <1>2, <1>8 DEF ExitCodeOf
  <2>2. ASSUME r.status \in Verdict
        PROVE  /\ script[check] \in ExitCode
               /\ r.status = MapStatus(check, script[check])
               /\ r.exitCode = script[check]
    BY <1>2, <1>8, <2>2, StatusOfProperties DEF ExitCodeOf
  <2>3. \A c \in Check \ {check} : result'[c] = result[c] /\ script'[c] = script[c]
    BY <1>1, <1>2
  <2>4. script'[check] = script[check]
    BY <1>1
  <2> QED
    BY <2>1, <2>2, <2>3, <2>4 DEF VerdictTruthful, r
<1>10. KillExplained'
  <2>1. script[check] = "killed" => ctx = "deadline" \/ parent
    BY <1>1 DEF ContextInv
  <2>2. /\ parent => r.status = "error"
        /\ ~parent /\ ctx = "deadline" => r.status = "timeout"
    BY <1>2, StatusOfProperties
  <2>3. script[check] = "killed" =>
          \/ r.status = "timeout"
          \/ r.status = "error" /\ parent
    BY <2>1, <2>2
  <2> QED
    BY <1>1, <1>2, <2>3 DEF KillExplained, r
<1>11. OutputComplete'
  <2> DEFINE kept == IF produced[check] > Limit THEN Limit ELSE produced[check]
  <2>1. Len(offered) = produced[check]
    BY <1>1 DEF WaitInv, Judging
  <2>2. r.output = [i \in 1 .. kept |-> i]
        /\ (r.truncated <=> produced[check] > Limit)
    BY <1>2, <2>1, KeptOutput DEF TypeOK
  <2> QED
    BY <1>1, <1>2, <2>2 DEF OutputComplete, r
<1> QED
  BY <1>3, <1>4, <1>5, <1>7, <1>9, <1>10, <1>11

-----------------------------------------------------------------------------
(* Theorems.                                                               *)

\* Every step of the collector, the clocks and the processes keeps it.
LEMMA NextInv == IInv /\ [Next]_vars => IInv'
<1> SUFFICES ASSUME IInv, [Next]_vars PROVE IInv'
  OBVIOUS
<1>1. CASE UNCHANGED vars
  <2>1. BufferInv'
    BY <1>1, BufferKept DEF vars, buffer, IInv
  <2>2. VerdictTruthful' /\ KillExplained' /\ OutputComplete'
    BY <1>1, PastKept DEF vars
  <2>3. TypeOK'
    BY <1>1 DEF vars, IInv, TypeOK, Buffer!TypeOK
  <2>4. OneAtATime' /\ OrderInv' /\ WaitInv' /\ ContextInv'
    BY <1>1 DEF vars, IInv, OneAtATime, OrderInv, WaitInv, ContextInv
  <2> QED
    BY <2>1, <2>2, <2>3, <2>4 DEF IInv
<1>2. CASE Collect
  BY <1>2, BeginInv, CollectorInv, CopyInv, JudgeInv DEF Collect
<1>3. CASE Clock
  BY <1>3, ClockInv
<1>4. CASE Processes
  BY <1>4, ProcessInv
<1> QED
  BY <1>1, <1>2, <1>3, <1>4 DEF Next, Returned

\* The invariant of the race between the collector, its clocks and the scripts
\* (check.go 99-197).
THEOREM Invariance == Spec => []IInv
  BY InitInv, NextInv, PTL DEF Spec

\* Every variable keeps its type for every limit and every amount of output.
THEOREM TypeCorrect == Spec => []TypeOK
  BY Invariance, PTL DEF IInv

\* A verdict and an exit code are the script's own: one that was killed, that
\* crashed or that never ran gets neither, whatever races with its end
\* (check.go 128-151).
THEOREM VerdictIsTrue == Spec => []VerdictTruthful
  BY Invariance, PTL DEF IInv

\* When the agent itself ended a script, the report says why (check.go 128-135).
THEOREM KillIsExplained == Spec => []KillExplained
  BY Invariance, PTL DEF IInv

\* The result of a check has all its script wrote up to the limit, and is marked
\* when there was more (check.go 185-197).
THEOREM OutputIsComplete == Spec => []OutputComplete
  BY Invariance, PTL DEF IInv

\* When a check ends, neither its script nor a writer of its output is left
\* (check.go 99-104).
THEOREM Sequential == Spec => []OneAtATime
  BY Invariance, PTL DEF IInv

-----------------------------------------------------------------------------
(* What the workflow may rely on.                                          *)

\* The status a check gets is one the workflow expects of it.
LEMMA JudgedOutcome ==
  ASSUME TypeOK
  PROVE  StatusOf \in Outcome(check, parent)
<1>1. code # NoCode => MapStatus(check, code) \in Outcome(check, FALSE)
  <2> SUFFICES ASSUME code # NoCode
               PROVE  MapStatus(check, code) \in Outcome(check, FALSE)
    OBVIOUS
  <2>1. code \in ExitCode /\ check \in Check
    BY DEF TypeOK
  <2>2. CASE code = "zero"
    BY <2>1, <2>2 DEF MapStatus, Outcome, Check
  <2>3. CASE code = "one"
    BY <2>1, <2>3 DEF MapStatus, Outcome, Check
  <2>4. CASE code = "two"
    BY <2>1, <2>4 DEF MapStatus, Outcome, Check
  <2>5. CASE code = "other"
    BY <2>1, <2>5 DEF MapStatus, Outcome, Check
  <2> QED
    BY <2>1, <2>2, <2>3, <2>4, <2>5 DEF ExitCode
<1>2. CASE parent
  BY <1>2 DEF StatusOf, Outcome
<1>3. CASE ~parent
  BY <1>1, <1>3 DEF StatusOf, Outcome
<1> QED
  BY <1>2, <1>3

\* Each check gets one result, with an outcome the workflow expects of it in the
\* context it is in, and with a warning unless it is a verdict: this is all that
\* AgentRun assumes of a check (check.go 104-152).
OutcomeExpected ==
  [][\A c \in Check : result'[c] # result[c] =>
       /\ result[c] = NoResult
       /\ result'[c].status \in Outcome(c, parent)
       /\ result'[c].warned <=> result'[c].status \notin Verdict]_vars

\* Only Judge gives a result.
LEMMA ExpectedStep ==
  ASSUME IInv, [Next]_vars, NEW c \in Check, result'[c] # result[c]
  PROVE  /\ result[c] = NoResult
         /\ result'[c].status \in Outcome(c, parent)
         /\ result'[c].warned <=> result'[c].status \notin Verdict
<1>1. CASE Judge
  <2>1. /\ result'[check].status = StatusOf
        /\ result'[check].warned = (StatusOf \notin Verdict)
        /\ \A d \in Check \ {check} : result'[d] = result[d]
    BY <1>1, JudgeStep DEF IInv
  <2>2. c = check
    BY <2>1
  <2>3. result[check] = NoResult
    BY <1>1 DEF Judge, IInv, OrderInv
  <2> QED
    BY <2>1, <2>2, <2>3, JudgedOutcome DEF IInv
<1>2. ~Judge => UNCHANGED result
  BY DEF Next, Collect, Clock, Processes, Returned, BeginCheck, StartScript,
     StartFails, CopyOutput, WaitReturns, CancelContext, Deadline, Signal,
     Propagate, Kill, Exit, CrashScript, Emit, Detach, HolderEnds, vars
<1> QED
  BY <1>1, <1>2

\* The abstraction of a check that AgentRun runs is sound: each check gets one
\* result, of the outcomes expected of it (check.go 104-152).
THEOREM Expected == Spec => OutcomeExpected
<1>1. IInv /\ [Next]_vars =>
        [\A c \in Check : result'[c] # result[c] =>
           /\ result[c] = NoResult
           /\ result'[c].status \in Outcome(c, parent)
           /\ result'[c].warned <=> result'[c].status \notin Verdict]_vars
  BY ExpectedStep
<1> QED
  BY <1>1, Invariance, PTL DEF Spec, OutcomeExpected
=============================================================================
