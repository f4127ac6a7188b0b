---------------------------- MODULE ConfigFileProofs ---------------------------
(* The theorems about ConfigFile and their proofs.                          *)
EXTENDS ConfigFile, TLAPS

(* Types are inductive: what is written has the form that a file may have.  *)
LEMMA ConfigTypeStep == TypeOK /\ [Next]_vars => TypeOK'
<1> SUFFICES ASSUME TypeOK, [Next]_vars PROVE TypeOK'
  OBVIOUS
<1> USE DEF TypeOK, Goto, historyVars
<1>1. ASSUME NEW c \in Creators, Check(c) PROVE TypeOK'
  BY <1>1 DEF Check
<1>2. ASSUME NEW c \in Creators, Fail(c) PROVE TypeOK'
  BY <1>2 DEF Fail
<1>3. ASSUME NEW c \in Creators, Truncate(c) PROVE TypeOK'
  BY <1>3 DEF Truncate
<1>4. ASSUME NEW c \in Creators, Write(c) PROVE TypeOK'
  BY <1>4 DEF Write, ToWrite
<1>5. ASSUME NEW c \in Creators, Kill(c) PROVE TypeOK'
  BY <1>5 DEF Kill
<1>6. CASE UNCHANGED vars
  BY <1>6 DEF vars
<1> QED
  BY <1>1, <1>2, <1>3, <1>4, <1>5, <1>6 DEF Next

(* Whatever the file held and whoever writes, it is one of the few things   *)
(* load_config has to deal with.                                            *)
THEOREM ConfigTypeCorrect == Spec => []TypeOK
<1>1. Init => TypeOK
  BY DEF Init, TypeOK
<1> QED
  BY <1>1, ConfigTypeStep, PTL DEF Spec

Unforced == \A c \in Creators : ~force[c]

(* The inductive invariant: where nobody forces, no creator has got past    *)
(* the test of a file that was there from the start.                        *)
KeptInv ==
    /\ pc \in [Creators -> {"start", "refused", "failed", "checked", "opened",
                            "done", "killed", "torn"}]
    /\ first # Absent /\ Unforced =>
         /\ file = first
         /\ \A c \in Creators : pc[c] \notin {"checked", "opened"}

(* No order of tests, truncations, writes and kills breaks it.              *)
LEMMA KeptStep == KeptInv /\ [Next]_vars => KeptInv'
<1> SUFFICES ASSUME KeptInv, [Next]_vars PROVE KeptInv'
  OBVIOUS
<1> USE DEF KeptInv, Unforced, Goto, historyVars
<1>1. ASSUME NEW c \in Creators, Check(c) PROVE KeptInv'
  BY <1>1 DEF Check, Refuses
<1>2. ASSUME NEW c \in Creators, Fail(c) PROVE KeptInv'
  BY <1>2 DEF Fail
<1>3. ASSUME NEW c \in Creators, Truncate(c) PROVE KeptInv'
  BY <1>3 DEF Truncate
<1>4. ASSUME NEW c \in Creators, Write(c) PROVE KeptInv'
  BY <1>4 DEF Write
<1>5. ASSUME NEW c \in Creators, Kill(c) PROVE KeptInv'
  BY <1>5 DEF Kill
<1>6. CASE UNCHANGED vars
  BY <1>6 DEF vars
<1> QED
  BY <1>1, <1>2, <1>3, <1>4, <1>5, <1>6 DEF Next

(* For any number of concurrent create-config processes, killed at any      *)
(* point: without --force a file that was there from the start stays as it  *)
(* was.                                                                     *)
THEOREM ExistingFileIsKept == Spec => []ExistingFileKept
<1>1. Init => KeptInv
  BY DEF Init, KeptInv
<1>2. KeptInv => ExistingFileKept
  BY DEF KeptInv, ExistingFileKept, Unforced
<1> QED
  BY <1>1, <1>2, KeptStep, PTL DEF Spec

(* The inductive invariant: as long as no two creators had the file open at *)
(* once, only the last that truncated it can be about to write, the file is *)
(* empty until it does and its own configuration once it has.               *)
WriterInv ==
    /\ pc \in [Creators -> {"start", "refused", "failed", "checked", "opened",
                            "done", "killed", "torn"}]
    /\ ~overlap =>
         /\ \A c \in Creators : pc[c] = "opened" => last = c /\ file = Empty
         /\ last \in Creators /\ pc[last] = "done" => file = NewConfig(last)

(* The test of another creator, a failure or a kill leaves the file alone;  *)
(* a truncation makes its creator the last, unless another was writing.     *)
LEMMA WriterStep == WriterInv /\ [Next]_vars => WriterInv'
<1> SUFFICES ASSUME WriterInv, [Next]_vars PROVE WriterInv'
  OBVIOUS
<1> USE DEF WriterInv, Goto, historyVars
<1>1. ASSUME NEW c \in Creators, Check(c) PROVE WriterInv'
  BY <1>1 DEF Check
<1>2. ASSUME NEW c \in Creators, Fail(c) PROVE WriterInv'
  BY <1>2 DEF Fail
<1>3. ASSUME NEW c \in Creators, Truncate(c) PROVE WriterInv'
  BY <1>3 DEF Truncate
<1>4. ASSUME NEW c \in Creators, Write(c) PROVE WriterInv'
  BY <1>4 DEF Write, ToWrite
<1>5. ASSUME NEW c \in Creators, Kill(c) PROVE WriterInv'
  BY <1>5 DEF Kill
<1>6. CASE UNCHANGED vars
  BY <1>6 DEF vars
<1> QED
  BY <1>1, <1>2, <1>3, <1>4, <1>5, <1>6 DEF Next

(* What Configuration::new builds loads.                                    *)
LEMMA NewConfigLoads ==
    ASSUME NEW c \in Creators PROVE Load(NewConfig(c)) = "ok"
<1>1. NewConfig(c) \in Content
  BY DEF NewConfig, Content, Versions
<1>2. NewConfig(c) \notin {Absent, Garbled}
  BY <1>1, CreatorsAssumption
<1>3. /\ NewConfig(c).version = "v0.1.0"
      /\ NewConfig(c).base /\ NewConfig(c).runtime
  BY DEF NewConfig
<1> QED
  BY <1>2, <1>3 DEF Load

(* For any number of create-config processes: the last to truncate the file *)
(* leaves a configuration that loads once it has succeeded, whoever was     *)
(* killed before, as long as no two had the file open at once.              *)
THEOREM SucceededCreatorLoads == Spec => []SucceededLoads
<1>1. Init => WriterInv
  BY CreatorsAssumption DEF Init, WriterInv
<1>2. WriterInv => SucceededLoads
  BY NewConfigLoads DEF WriterInv, SucceededLoads
<1> QED
  BY <1>1, <1>2, WriterStep, PTL DEF Spec
================================================================================
