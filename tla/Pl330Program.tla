---------------------------- MODULE Pl330Program ----------------------------
(***************************************************************************)
(* The microcode that the pl330dma driver writes for a cyclic audio        *)
(* transfer (drivers/dma/pl330dma/insn.c, opcodes.h), and a DMA channel    *)
(* that executes it.                                                       *)
(*                                                                         *)
(* A program is a sequence of instructions; a jump goes back by a number   *)
(* of bytes, so that the sizes matter.  What a program must do: move the   *)
(* buffer period by period, raise an event after each period, start over.  *)
(* It moves words: of a period that is no multiple of one the rest is left *)
(* out, and the next period begins where the words end.                    *)
(***************************************************************************)
EXTENDS Integers, Sequences, SequencesExt

CONSTANT Requests   \* the arguments of SubmitAudioDMA: [len, periodLen, fromDevice]

\* ccr of SubmitAudioDMA: bursts of 8 words of 4 bytes.
BurstSize == 4
BurstLen  == 8

\* MCBufSz: what AllocResources sets aside for the program of a channel.
MCBufSz == 512


-----------------------------------------------------------------------------
(* Instructions.  Loop counts and jumps are bytes: they wrap.              *)

Plain(op, size)   == [op |-> op, size |-> size]
LP(loop, cnt)     == [op |-> "LP", size |-> 2, loop |-> loop, cnt |-> ((cnt % 256) - 1) % 256]
LPEND(loop, back) == [op |-> "LPEND", size |-> 2, loop |-> loop, bjump |-> back % 256]
LPFE(back)        == [op |-> "LPFE", size |-> 2, bjump |-> back % 256]
MOVCCR(len)       == [op |-> "CCR", size |-> 6, len |-> len]

\* The bytes of the first n instructions.
Bytes(insns, n) ==
  LET upTo[i \in 0 .. n] == IF i = 0 THEN 0 ELSE upTo[i - 1] + insns[i].size
  IN  upTo[n]

Size(insns) == Bytes(insns, Len(insns))

Repeat(code, n) == FlattenSeq([i \in 1 .. n |-> code])

-----------------------------------------------------------------------------
(* The generator.                                                          *)

\* _ldst_peripheral with _emit_load and _emit_store: on the side of the device the
\* instruction names the peripheral and has two bytes.
Bursts(r, cyc) ==
  <<Plain("FLUSHP", 2)>> \o
  Repeat(<<Plain("WFP", 2), Plain("LD", IF r.fromDevice THEN 2 ELSE 1),
           Plain("ST", IF r.fromDevice THEN 1 ELSE 2)>>, cyc)

\* A loop of _period around cyc bursts.
BurstLoop(r, count, cyc) ==
  LET body == Bursts(r, cyc)
  IN <<LP(1, count)>> \o body \o <<LPEND(1, Size(body))>>

\* _dregs: the words that are left, as one short burst.
Dregs(r, words) == <<MOVCCR(words)>> \o Bursts(r, 1) \o <<MOVCCR(BurstLen)>>

\* Mutant: the remainder of the bursts is forgotten.
PeriodWithoutRemainder(r, bursts) ==
  LET count == IF bursts > 256 THEN 256 ELSE bursts
      cyc   == IF bursts > 256 THEN bursts \div 256 ELSE 1
      words == (r.periodLen \div BurstSize) % BurstLen
  IN BurstLoop(r, count, cyc)
       \o (IF words # 0 THEN Dregs(r, words) ELSE <<>>)
       \o <<Plain("SEV", 2)>>

\* _period
Period(r, bursts) ==
  LET count == IF bursts > 256 THEN 256 ELSE bursts
      cyc   == IF bursts > 256 THEN bursts \div 256 ELSE 1
      rest  == bursts - count * cyc
      words == (r.periodLen \div BurstSize) % BurstLen
  IN BurstLoop(r, count, cyc)
       \o (IF rest # 0 THEN BurstLoop(r, rest, 1) ELSE <<>>)
       \o (IF words # 0 THEN Dregs(r, words) ELSE <<>>)
       \o <<Plain("SEV", 2)>>

NumPeriods(r) == r.len \div r.periodLen

\* The while loop of _loop_cyclic: how many periods the body of loop 0 holds.
Unroll(n) == CHOOSE p \in 1 .. n :
  /\ n \div p <= 256
  /\ \A q \in 1 .. p - 1 : n \div q > 256

\* _loop_cyclic
LoopCyclic(r) ==
  LET n      == NumPeriods(r)
      p      == Unroll(n)
      period == Period(r, r.periodLen \div (BurstSize * BurstLen))
      body   == Repeat(period, p)
      all    == <<Plain("SAR", 6), Plain("DAR", 6), LP(0, n \div p)>> \o body
                  \o <<LPEND(0, Size(body))>> \o Repeat(period, n % p)
  IN all \o <<LPFE(Size(all))>>

\* What a period moves: _period counts bursts and words, and forgets the bytes left over.
WholeWords(r) == r.periodLen - (r.periodLen % BurstSize)

\* What the audio driver submits: whole periods, of a burst at least, whole words or not; so
\* few of them that the jump of DMALPFE, all but its own two bytes, can be told in a byte.
\* The driver checks none of it.
RequestsAssumption ==
  \A r \in Requests :
    /\ r.fromDevice \in BOOLEAN /\ r.len \in Nat /\ r.periodLen \in BurstSize * BurstLen .. r.len
    /\ r.len % r.periodLen = 0
    /\ Size(LoopCyclic(r)) <= 255 + 2

\* SubmitAudioDMA
Program(r) == <<MOVCCR(BurstLen)>> \o LoopCyclic(r)

-----------------------------------------------------------------------------
(* The channel (external).                                                 *)

VARIABLES
  req, code,   \* what it executes
  pc, lc,      \* the instruction, the two loop counters
  ccrLen,      \* burst length in words
  period,      \* bytes moved since the last event
  moved,       \* bytes moved since the addresses were set
  events       \* events since then
vars == <<req, code, pc, lc, ccrLen, period, moved, events>>

Init ==
  /\ req \in Requests /\ code = Program(req)
  /\ pc = 1 /\ lc = <<0, 0>> /\ ccrLen = 0 /\ period = 0 /\ moved = 0 /\ events = 0

Offset(i) == Bytes(code, i - 1)

\* The instruction that lies back bytes before instruction i, 0 if none does.
Target(i, back) ==
  LET at == {j \in 1 .. i : Offset(j) = Offset(i) - back}
  IN IF at = {} THEN 0 ELSE CHOOSE j \in at : TRUE

Now == code[pc]

\* Instructions that only set something up.
ExecPlain ==
  /\ Now.op \in {"FLUSHP", "WFP", "LD"}
  /\ pc' = pc + 1
  /\ UNCHANGED <<req, code, lc, ccrLen, period, moved, events>>

ExecSetAddress ==
  /\ Now.op \in {"SAR", "DAR"}
  /\ pc' = pc + 1 /\ moved' = 0 /\ events' = 0
  /\ UNCHANGED <<req, code, lc, ccrLen, period>>

ExecSetControl ==
  /\ Now.op = "CCR"
  /\ pc' = pc + 1 /\ ccrLen' = Now.len
  /\ UNCHANGED <<req, code, lc, period, moved, events>>

ExecStore ==
  /\ Now.op = "ST"
  /\ pc' = pc + 1
  /\ period' = period + ccrLen * BurstSize /\ moved' = moved + ccrLen * BurstSize
  /\ UNCHANGED <<req, code, lc, ccrLen, events>>

ExecLoop ==
  /\ Now.op = "LP"
  /\ pc' = pc + 1 /\ lc' = [lc EXCEPT ![Now.loop + 1] = Now.cnt]
  /\ UNCHANGED <<req, code, ccrLen, period, moved, events>>

ExecLoopEnd ==
  /\ Now.op = "LPEND"
  /\ IF lc[Now.loop + 1] = 0
       THEN pc' = pc + 1 /\ UNCHANGED lc
       ELSE pc' = Target(pc, Now.bjump) /\ lc' = [lc EXCEPT ![Now.loop + 1] = @ - 1]
  /\ UNCHANGED <<req, code, ccrLen, period, moved, events>>

ExecLoopForever ==
  /\ Now.op = "LPFE"
  /\ pc' = Target(pc, Now.bjump)
  /\ UNCHANGED <<req, code, lc, ccrLen, period, moved, events>>

ExecEvent ==
  /\ Now.op = "SEV"
  /\ pc' = pc + 1 /\ period' = 0 /\ events' = events + 1
  /\ UNCHANGED <<req, code, lc, ccrLen, moved>>

Next ==
  \/ ExecPlain \/ ExecSetAddress \/ ExecSetControl \/ ExecStore
  \/ ExecLoop \/ ExecLoopEnd \/ ExecLoopForever \/ ExecEvent

Spec == Init /\ [][Next]_vars

-----------------------------------------------------------------------------
(* Properties.                                                             *)

\* Every jump of the program that SubmitAudioDMA writes lands on an instruction:
\* no jump is longer than its byte can say.
JumpsLand == pc \in 1 .. Len(code)

\* The event that _period emits comes when exactly the words of one period have been moved.
EventPerPeriod ==
  pc \in 1 .. Len(code) /\ Now.op = "SEV" => period = WholeWords(req)

\* When _loop_cyclic starts over, the words of all periods were moved, once, with an event
\* for each period; before, nothing beyond the buffer was touched.
BufferCovered ==
  /\ moved <= req.len
  /\ pc \in 1 .. Len(code) /\ Now.op = "LPFE" =>
       moved = NumPeriods(req) * WholeWords(req) /\ events = NumPeriods(req)

\* The program fits into the buffer of its channel.
ProgramFits == Size(code) <= MCBufSz

=============================================================================
