-------------------------- MODULE StartChain_proofs --------------------------
(*****************************************************************************)
(* The chain of start passes serialises them, for any number of calls.  The  *)
(* argument is ChainInv: the calls ahead of a waiter are exactly its pending *)
(* predecessor and the calls ahead of that one, so a waiter without pending  *)
(* predecessor has nobody ahead; and of two unfinished calls one is ahead of *)
(* the other, so they cannot both have nobody ahead.                         *)
(*****************************************************************************)
EXTENDS StartChain, TLAPS

LEMMA ChainInit_ChainInv == ChainInit => ChainInv
BY NoCallAssumption DEF ChainInit, ChainInv, ChainTypeOK, Phases, Live, EntryCoversLive

LEMMA EnterPreserves ==
    ASSUME ChainInv, NEW c \in Calls, Enter(c)
    PROVE  ChainInv'
<1> USE NoCallAssumption
<1>1. ChainTypeOK'
  BY DEF ChainInv, ChainTypeOK, Enter, Phases, Live
<1>2. c \notin Live /\ Live' = Live \cup {c}
  BY DEF ChainInv, ChainTypeOK, Enter, Live
<1>3. /\ \A d \in Calls : d # c => ahead'[d] = ahead[d] /\ pred'[d] = pred[d] /\ pc'[d] = pc[d]
      /\ ahead'[c] = Live /\ pc'[c] = "waiting"
      /\ pred'[c] = IF entry \in Live THEN entry ELSE NoCall
      /\ entry' = c /\ forced' = forced
  BY DEF ChainInv, ChainTypeOK, Enter
<1>4. \A d \in Calls : d \notin Live' => pred'[d] = NoCall
  BY <1>2, <1>3 DEF ChainInv
<1>5. \A d \in Calls : d \notin ahead'[d] /\ ahead'[d] \subseteq Live'
  BY <1>2, <1>3 DEF ChainInv
<1>6. \A d \in Calls : pred'[d] # NoCall => pc'[d] = "waiting" /\ pred'[d] \in Live'
  BY <1>2, <1>3 DEF ChainInv
<1>7. ASSUME ~forced'
      PROVE  /\ \A d \in Live' : pred'[d] = NoCall => ahead'[d] = {}
             /\ \A d \in Live' : pred'[d] # NoCall => ahead'[d] = ahead'[pred'[d]] \cup {pred'[d]}
             /\ \A d, e \in Live' : d # e => d \in ahead'[e] \/ e \in ahead'[d]
             /\ EntryCoversLive'
  <2>1. /\ \A d \in Live : pred[d] = NoCall => ahead[d] = {}
        /\ \A d \in Live : pred[d] # NoCall => ahead[d] = ahead[pred[d]] \cup {pred[d]}
        /\ \A d, e \in Live : d # e => d \in ahead[e] \/ e \in ahead[d]
        /\ Live # {} => entry \in Live /\ \A d \in Live : d = entry \/ d \in ahead[entry]
    BY <1>3, <1>7 DEF ChainInv, EntryCoversLive
  <2>2. Live \subseteq Calls
    BY DEF Live
  <2>3. \A d \in Live' : pred'[d] = NoCall => ahead'[d] = {}
    BY <1>2, <1>3, <2>1, <2>2
  <2>4. \A d \in Live' : pred'[d] # NoCall => ahead'[d] = ahead'[pred'[d]] \cup {pred'[d]}
    <3> SUFFICES ASSUME NEW d \in Live', pred'[d] # NoCall
                 PROVE  ahead'[d] = ahead'[pred'[d]] \cup {pred'[d]}
      OBVIOUS
    <3>1. CASE d = c
      <4>1. entry \in Live /\ pred'[c] = entry /\ entry # c
        BY <3>1, <1>2, <1>3
      <4>2. ahead[entry] \subseteq Live
        BY <4>1, <2>2 DEF ChainInv
      <4>3. Live = ahead[entry] \cup {entry}
        BY <4>1, <4>2, <2>1
      <4> QED
        BY <3>1, <4>1, <4>3, <1>3, <2>2
    <3>2. CASE d # c
      <4>1. d \in Live /\ pred'[d] = pred[d] /\ pred[d] \in Live
        BY <3>2, <1>2, <1>3, <2>2 DEF ChainInv
      <4> QED
        BY <3>2, <4>1, <1>2, <1>3, <2>1, <2>2
    <3> QED
      BY <3>1, <3>2
  <2>5. \A d, e \in Live' : d # e => d \in ahead'[e] \/ e \in ahead'[d]
    BY <1>2, <1>3, <2>1, <2>2
  <2>6. EntryCoversLive'
    BY <1>2, <1>3, <2>2 DEF EntryCoversLive
  <2> QED
    BY <2>3, <2>4, <2>5, <2>6
<1> QED
  BY <1>1, <1>4, <1>5, <1>6, <1>7 DEF ChainInv

LEMMA ProceedPreserves ==
    ASSUME ChainInv, NEW c \in Calls, Proceed(c)
    PROVE  ChainInv'
<1>1. Live' = Live
  BY DEF ChainInv, ChainTypeOK, Proceed, Live
<1>2. /\ pred' = pred /\ entry' = entry /\ ahead' = ahead /\ forced' = forced
      /\ \A d \in Calls : pc'[d] = IF d = c THEN "body" ELSE pc[d]
  BY DEF ChainInv, ChainTypeOK, Proceed
<1>3. ChainTypeOK'
  BY DEF ChainInv, ChainTypeOK, Proceed, Phases
<1>4. \A d \in Calls : pred'[d] # NoCall => pc'[d] = "waiting" /\ pred'[d] \in Live'
  BY <1>1, <1>2 DEF ChainInv, Proceed
<1> QED
  BY <1>1, <1>2, <1>3, <1>4 DEF ChainInv, EntryCoversLive

LEMMA TimeoutPreserves ==
    ASSUME ChainInv, NEW c \in Calls, ProceedByTimeout(c)
    PROVE  ChainInv'
<1>1. Live' = Live
  BY DEF ChainInv, ChainTypeOK, ProceedByTimeout, Live
<1>2. ChainTypeOK'
  BY NoCallAssumption DEF ChainInv, ChainTypeOK, ProceedByTimeout, Phases
<1>3. /\ ahead' = ahead /\ forced' = TRUE
      /\ \A d \in Calls : /\ pc'[d] = IF d = c THEN "body" ELSE pc[d]
                          /\ pred'[d] = IF d = c THEN NoCall ELSE pred[d]
  BY DEF ChainInv, ChainTypeOK, ProceedByTimeout
<1> QED
  BY <1>1, <1>2, <1>3 DEF ChainInv

LEMMA SettlePreserves ==
    ASSUME ChainInv, NEW c \in Calls, Settle(c)
    PROVE  ChainInv'
<1> USE NoCallAssumption
<1>1. ChainTypeOK'
  BY DEF ChainInv, ChainTypeOK, Settle, Phases
<1>2. c \in Live /\ Live' = Live \ {c}
  BY DEF ChainInv, ChainTypeOK, Settle, Live
<1>3. /\ \A d \in Calls : /\ ahead'[d] = ahead[d] \ {c}
                          /\ pred'[d] = IF pred[d] = c THEN NoCall ELSE pred[d]
                          /\ pc'[d] = IF d = c THEN "settled" ELSE pc[d]
      /\ entry' = entry /\ forced' = forced
  BY DEF ChainInv, ChainTypeOK, Settle
<1>4. pred[c] = NoCall
  BY DEF ChainInv, Settle
<1>5. \A d \in Calls : d \notin Live' => pred'[d] = NoCall
  BY <1>2, <1>3, <1>4 DEF ChainInv
<1>6. \A d \in Calls : d \notin ahead'[d] /\ ahead'[d] \subseteq Live'
  BY <1>2, <1>3 DEF ChainInv
<1>7. \A d \in Calls : pred'[d] # NoCall => pc'[d] = "waiting" /\ pred'[d] \in Live'
  BY <1>2, <1>3, <1>4 DEF ChainInv
<1>8. ASSUME ~forced'
      PROVE  /\ \A d \in Live' : pred'[d] = NoCall => ahead'[d] = {}
             /\ \A d \in Live' : pred'[d] # NoCall => ahead'[d] = ahead'[pred'[d]] \cup {pred'[d]}
             /\ \A d, e \in Live' : d # e => d \in ahead'[e] \/ e \in ahead'[d]
             /\ EntryCoversLive'
  <2>1. /\ \A d \in Live : pred[d] = NoCall => ahead[d] = {}
        /\ \A d \in Live : pred[d] # NoCall => ahead[d] = ahead[pred[d]] \cup {pred[d]}
        /\ \A d, e \in Live : d # e => d \in ahead[e] \/ e \in ahead[d]
        /\ Live # {} => entry \in Live /\ \A d \in Live : d = entry \/ d \in ahead[entry]
    BY <1>3, <1>8 DEF ChainInv, EntryCoversLive
  <2>2. Live \subseteq Calls /\ \A d \in Live : pred[d] # NoCall => pred[d] \in Live
    BY DEF Live, ChainInv
  <2>3. ahead[c] = {}
    BY <1>2, <1>4, <2>1
  <2>4. \A d \in Live' : pred'[d] = NoCall => ahead'[d] = {}
    BY <1>2, <1>3, <2>1, <2>2, <2>3
  <2>5. \A d \in Live' : pred'[d] # NoCall => ahead'[d] = ahead'[pred'[d]] \cup {pred'[d]}
    BY <1>2, <1>3, <2>1, <2>2
  <2>6. \A d, e \in Live' : d # e => d \in ahead'[e] \/ e \in ahead'[d]
    BY <1>2, <1>3, <2>1, <2>2
  <2>7. EntryCoversLive'
    <3> SUFFICES ASSUME Live' # {}
                 PROVE  entry' \in Live' /\ \A d \in Live' : d = entry' \/ d \in ahead'[entry']
      BY DEF EntryCoversLive
    <3>1. entry \in Live /\ \A d \in Live : d = entry \/ d \in ahead[entry]
      BY <1>2, <2>1
    <3>2. entry # c
      BY <1>2, <2>3, <3>1
    <3> QED
      BY <1>2, <1>3, <2>2, <3>1, <3>2
  <2> QED
    BY <2>4, <2>5, <2>6, <2>7
<1> QED
  BY <1>1, <1>5, <1>6, <1>7, <1>8 DEF ChainInv

LEMMA CleanupPreserves ==
    ASSUME ChainInv, NEW c \in Calls, Cleanup(c)
    PROVE  ChainInv'
<1> USE NoCallAssumption
<1>1. ChainTypeOK'
  BY DEF ChainInv, ChainTypeOK, Cleanup, Phases
<1>2. c \notin Live /\ Live' = Live /\ Live \subseteq Calls
  BY DEF ChainInv, ChainTypeOK, Cleanup, Live
<1>3. /\ \A d \in Calls : /\ ahead'[d] = IF d = c THEN {} ELSE ahead[d]
                          /\ pc'[d] = IF d = c THEN "idle" ELSE pc[d]
      /\ pred' = pred /\ forced' = forced
      /\ entry' = IF entry = c THEN NoCall ELSE entry
  BY DEF ChainInv, ChainTypeOK, Cleanup
<1>4. \A d \in Live : ahead'[d] = ahead[d] /\ pc'[d] = pc[d]
  BY <1>2, <1>3
<1>5. ~forced' => EntryCoversLive'
  <2> SUFFICES ASSUME ~forced', Live' # {}
               PROVE  entry' \in Live' /\ \A d \in Live' : d = entry' \/ d \in ahead'[entry']
    BY DEF EntryCoversLive
  <2>1. entry \in Live /\ \A d \in Live : d = entry \/ d \in ahead[entry]
    BY <1>2, <1>3 DEF ChainInv, EntryCoversLive
  <2> QED
    BY <1>2, <1>3, <1>4, <2>1
<1>6. \A d \in Calls : pred'[d] # NoCall => pc'[d] = "waiting" /\ pred'[d] \in Live'
  BY <1>2, <1>3, <1>4 DEF ChainInv
<1>7. \A d \in Calls : d \notin ahead'[d] /\ ahead'[d] \subseteq Live'
  BY <1>2, <1>3 DEF ChainInv
<1>8. ~forced' =>
        /\ \A d \in Live' : pred'[d] = NoCall => ahead'[d] = {}
        /\ \A d \in Live' : pred'[d] # NoCall => ahead'[d] = ahead'[pred'[d]] \cup {pred'[d]}
        /\ \A d, e \in Live' : d # e => d \in ahead'[e] \/ e \in ahead'[d]
  <2>1. \A d \in Live : pred[d] # NoCall => pred[d] \in Live
    BY <1>2 DEF ChainInv
  <2> QED
    BY <1>2, <1>3, <1>4, <2>1 DEF ChainInv
<1> QED
  BY <1>1, <1>2, <1>3, <1>5, <1>6, <1>7, <1>8 DEF ChainInv

LEMMA StepPreservesChainInv ==
    ASSUME ChainInv, [ChainNext]_chainVars
    PROVE  ChainInv'
<1>1. CASE UNCHANGED chainVars
  BY <1>1 DEF chainVars, ChainInv, ChainTypeOK, Live, EntryCoversLive
<1>2. ASSUME NEW c \in Calls,
             Enter(c) \/ Proceed(c) \/ ProceedByTimeout(c) \/ Settle(c) \/ Cleanup(c)
      PROVE  ChainInv'
  BY <1>2, EnterPreserves, ProceedPreserves, TimeoutPreserves, SettlePreserves,
     CleanupPreserves
<1> QED
  BY <1>1, <1>2 DEF ChainNext

(* The chain invariant of withAgentStartLock holds for any set of calls.     *)
THEOREM ChainInvariant == ChainSpec => []ChainInv
<1>1. ChainInit => ChainInv
  BY ChainInit_ChainInv
<1>2. ChainInv /\ [ChainNext]_chainVars => ChainInv'
  BY StepPreservesChainInv
<1> QED
  BY <1>1, <1>2, PTL DEF ChainSpec

LEMMA ChainInvSerial ==
    ASSUME ChainInv
    PROVE  SerialUnlessForced /\ FifoUnlessForced
<1> SUFFICES ASSUME ~forced
             PROVE  /\ \A c, d \in Calls : pc[c] = "body" /\ pc[d] = "body" => c = d
                    /\ \A c \in Calls : pc[c] = "body" => ahead[c] = {}
  BY DEF SerialUnlessForced, FifoUnlessForced
<1>1. \A c \in Calls : pc[c] = "body" => c \in Live /\ pred[c] = NoCall
  BY DEF ChainInv, Live
<1>2. \A c \in Calls : pc[c] = "body" => ahead[c] = {}
  BY <1>1 DEF ChainInv
<1> QED
  BY <1>1, <1>2 DEF ChainInv

(* Start passes of one agent exclude each other until a wait times out,      *)
(* however many of them there are.                                           *)
THEOREM StartPassesSerial == ChainSpec => []SerialUnlessForced
<1>1. ChainInv => SerialUnlessForced
  BY ChainInvSerial
<1> QED
  BY <1>1, ChainInvariant, PTL

(* And they run in the order of their arrival.                               *)
THEOREM StartPassesFifo == ChainSpec => []FifoUnlessForced
<1>1. ChainInv => FifoUnlessForced
  BY ChainInvSerial
<1> QED
  BY <1>1, ChainInvariant, PTL

(* The map entry leads to the newest unfinished call: no call's finally      *)
(* block ever deletes the entry of a newer one.                              *)
THEOREM EntryNeverLost == ChainSpec => []EntryCoversLive
<1>1. ChainInv => EntryCoversLive
  BY DEF ChainInv, EntryCoversLive
<1> QED
  BY <1>1, ChainInvariant, PTL
=============================================================================
