-------------------------- MODULE Authenticate_proof --------------------------
(***************************************************************************)
(* Proofs about Authenticate, for any number of clients, any halves of      *)
(* tokens and any keys: authenticate returns true only to a client the      *)
(* device was convinced by, and returns true if nothing disturbs it.        *)
(***************************************************************************)
EXTENDS Authenticate, TLAPS

(* What a call knows between its requests: the nonce is in the challenge,   *)
(* nothing is returned yet, and if nothing disturbed it the challenge is    *)
(* the one the device has under way.                                        *)
UnderWay ==
  \A c \in Clients :
    /\ pc[c] # "idle" => ~result[c]
    /\ pc[c] = "finish" => random[c][1] = nonce[c]
    /\ pc[c] # "idle" /\ undisturbed[c] => ~error[c]
    /\ pc[c] = "finish" /\ undisturbed[c] => pending = {random[c]}

IInv == TypeOK /\ UnderWay /\ AcceptedIsMutual /\ SharedKeyAccepted

-----------------------------------------------------------------------------
(* Hashes of different arguments are different, and none is a token of      *)
(* zeros: the assumption about SHA256 in the form the steps need.           *)
LEMMA HashInjective ==
  ASSUME NEW a, NEW b, NEW x, NEW y
  PROVE  /\ Hash(a, b) = Hash(x, y) => a = x /\ b = y
         /\ Hash(a, b) # NoToken
  BY DEF Hash, NoToken

(* Whatever a program passes as its key, populate makes a token of it.      *)
LEMMA PopulateType ==
  ASSUME NEW k \in Keys
  PROVE  Populate(k) \in Plain
  BY AuthAssumption DEF Populate, Plain

(* The device answers finish exactly if it has the client's challenge under *)
(* way and the client has its key; the answer is that of the challenge.     *)
LEMMA AnswersMeaning ==
  ASSUME NEW k, NEW t,
         \A u, v \in pending : u = v
  PROVE  /\ Answers(HashOut(k, t)) # {} <=> k = secret /\ t \in pending
         /\ \A a \in Answers(HashOut(k, t)) : a = HashIn(secret, t)
  BY HashInjective DEF Answers, HashOut, HashIn

-----------------------------------------------------------------------------
LEMMA InitHolds == Init => IInv
  BY AuthAssumption
  DEF Init, IInv, TypeOK, UnderWay, AcceptedIsMutual, SharedKeyAccepted, Plain, NoToken

LEMMA CallKeeps ==
  ASSUME IInv, NEW c \in Clients, Call(c)
  PROVE  IInv'
<1> USE DEF IInv
<1>1. TypeOK'
  BY PopulateType DEF TypeOK, Call, deviceVars
<1>2. UnderWay'
  BY DEF TypeOK, UnderWay, Call, deviceVars
<1>3. AcceptedIsMutual'
  BY DEF TypeOK, AcceptedIsMutual, Call, deviceVars
<1>4. SharedKeyAccepted'
  BY DEF TypeOK, SharedKeyAccepted, Call, deviceVars
<1> QED
  BY <1>1, <1>2, <1>3, <1>4

LEMMA ClearErrorKeeps ==
  ASSUME IInv, NEW c \in Clients, ClearError(c)
  PROVE  IInv'
  BY DEF IInv, TypeOK, UnderWay, AcceptedIsMutual, SharedKeyAccepted, ClearError,
         deviceVars

LEMMA StartKeeps ==
  ASSUME IInv, NEW c \in Clients, Start(c)
  PROVE  IInv'
<1> USE DEF IInv
<1>0. PICK answered \in BOOLEAN, salt \in Halves :
        LET fresh == <<nonce[c], salt>> IN
        /\ Request(c, answered)
        /\ \E challenge \in {fresh} \union pending :
             /\ pending' \in {pending, {challenge}}
             /\ answered => pending' = {challenge}
             /\ random' = [random EXCEPT ![c] = IF answered THEN challenge ELSE NoToken]
             /\ Disturb(c, answered /\ challenge = fresh)
  BY DEF Start
<1>1. PICK challenge \in {<<nonce[c], salt>>} \union pending :
        /\ Request(c, answered)
        /\ pending' \in {pending, {challenge}}
        /\ answered => pending' = {challenge}
        /\ random' = [random EXCEPT ![c] = IF answered THEN challenge ELSE NoToken]
        /\ Disturb(c, answered /\ challenge = <<nonce[c], salt>>)
  BY <1>0
<1>2. challenge \in Plain /\ NoToken \in Plain
  BY <1>1, AuthAssumption DEF TypeOK, Plain, NoToken
<1>3. UNCHANGED <<secret, key, nonce, result, granted>>
  BY DEF Start
<1>4. pc' = [pc EXCEPT ![c] = IF SameHalf(nonce[c], random'[c]) THEN "finish" ELSE "idle"]
  BY DEF Start
<1>5. TypeOK'
  BY <1>1, <1>2, <1>3, <1>4 DEF TypeOK, Request, Disturb
<1>6. pc[c] = "start" /\ ~result[c]
  BY DEF Start, UnderWay
<1>7. UnderWay'
  BY <1>1, <1>2, <1>3, <1>4, <1>6 DEF TypeOK, UnderWay, Request, Disturb, SameHalf
<1>8. AcceptedIsMutual'
  BY <1>1, <1>3, <1>6 DEF TypeOK, AcceptedIsMutual
<1>9. SharedKeyAccepted'
  <2> SUFFICES ASSUME NEW d \in Clients, pc'[d] = "idle", undisturbed'[d]
               PROVE  result'[d] <=> key'[d] = secret'
    BY DEF SharedKeyAccepted
  <2>1. CASE d = c
    (* An answer with the client's nonce does not end the call here. *)
    BY <1>1, <1>2, <1>4, <1>6, <2>1 DEF TypeOK, Disturb, SameHalf
  <2>2. CASE d # c
    BY <1>1, <1>3, <1>4, <2>2 DEF TypeOK, Disturb, SharedKeyAccepted
  <2> QED
    BY <2>1, <2>2
<1> QED
  BY <1>5, <1>7, <1>8, <1>9

LEMMA FinishKeeps ==
  ASSUME IInv, NEW c \in Clients, Finish(c)
  PROVE  IInv'
<1> USE DEF IInv
<1> DEFINE hash == HashOut(key[c], random[c])
           met  == Answers(hash) # {}
<1>1. PICK answered \in BOOLEAN, arrived \in BOOLEAN :
        /\ answered => arrived /\ met
        /\ Request(c, answered)
        /\ IF arrived /\ met
             THEN /\ pending' = {}
                  /\ granted' = [granted EXCEPT ![c] = pending]
             ELSE /\ pending' \in {pending, {}}
                  /\ UNCHANGED granted
        /\ \E answer \in IF answered THEN Answers(hash) ELSE {NoToken} :
             result' = [result EXCEPT ![c] = (answer = HashIn(key[c], random[c]))]
        /\ Disturb(c, arrived /\ (met => answered))
  BY DEF Finish
<1>2. pc[c] = "finish" /\ pc' = [pc EXCEPT ![c] = "idle"]
      /\ UNCHANGED <<secret, key, nonce, random>>
  BY DEF Finish
<1>3. /\ met <=> key[c] = secret /\ random[c] \in pending
      /\ \A a \in Answers(hash) : a = HashIn(secret, random[c])
  BY AnswersMeaning DEF TypeOK
<1>4. PICK r \in BOOLEAN : /\ result' = [result EXCEPT ![c] = r]
                           /\ r <=> answered
  <2>1. CASE answered
    BY <1>1, <1>3, <2>1
  <2>2. CASE ~answered
    <3>1. HashIn(key[c], random[c]) # NoToken
      BY HashInjective DEF HashIn
    <3>2. result' = [result EXCEPT ![c] = (NoToken = HashIn(key[c], random[c]))]
      BY <1>1, <2>2
    <3>3. result' = [result EXCEPT ![c] = FALSE]
      BY <3>1, <3>2
    <3> QED
      BY <2>2, <3>3
  <2> QED
    BY <2>1, <2>2
<1>5. TypeOK'
  BY <1>1, <1>2, <1>4 DEF TypeOK, Request, Disturb
<1>6. UnderWay'
  BY <1>1, <1>2, <1>4 DEF TypeOK, UnderWay, Request, Disturb
<1>7. AcceptedIsMutual'
  <2> SUFFICES ASSUME NEW d \in Clients, result'[d]
               PROVE  /\ random'[d] \in granted'[d] /\ random'[d][1] = nonce'[d]
                      /\ key'[d] = secret'
    BY DEF AcceptedIsMutual
  <2>1. CASE d = c
    <3>1. answered /\ arrived /\ met
      BY <1>1, <1>4, <2>1 DEF TypeOK
    <3>2. granted'[c] = pending
      BY <1>1, <3>1 DEF TypeOK
    <3> QED
      BY <1>2, <1>3, <2>1, <3>1, <3>2 DEF UnderWay
  <2>2. CASE d # c
    BY <1>1, <1>2, <1>4, <2>2 DEF TypeOK, AcceptedIsMutual
  <2> QED
    BY <2>1, <2>2
<1>8. SharedKeyAccepted'
  <2> SUFFICES ASSUME NEW d \in Clients, pc'[d] = "idle", undisturbed'[d]
               PROVE  result'[d] <=> key'[d] = secret'
    BY DEF SharedKeyAccepted
  <2>1. CASE d = c
    <3>1. undisturbed[c] /\ arrived /\ (met => answered)
      BY <1>1, <2>1 DEF TypeOK, Disturb
    <3>2. random[c] \in pending
      BY <1>2, <3>1 DEF UnderWay
    <3> QED
      BY <1>1, <1>2, <1>3, <1>4, <2>1, <3>1, <3>2 DEF TypeOK
  <2>2. CASE d # c
    BY <1>1, <1>2, <1>4, <2>2 DEF TypeOK, Disturb, SharedKeyAccepted
  <2> QED
    BY <2>1, <2>2
<1> QED
  BY <1>5, <1>6, <1>7, <1>8

-----------------------------------------------------------------------------
LEMMA StepKeeps == IInv /\ [Next]_vars => IInv'
<1> SUFFICES ASSUME IInv, [Next]_vars
             PROVE  IInv'
  OBVIOUS
<1>1. ASSUME NEW c \in Clients, Call(c) \/ Start(c) \/ Finish(c) \/ ClearError(c)
      PROVE  IInv'
  BY <1>1, CallKeeps, StartKeeps, FinishKeeps, ClearErrorKeeps
<1>2. CASE UNCHANGED vars
  BY <1>2 DEF IInv, TypeOK, UnderWay, AcceptedIsMutual, SharedKeyAccepted, vars,
              deviceVars, clientVars
<1> QED
  BY <1>1, <1>2 DEF Next

LEMMA Invariance == Spec => []IInv
<1> QED
  BY InitHolds, StepKeeps, PTL DEF Spec

(* Every variable keeps its type: a token has two halves whatever the key   *)
(* (populate), and the device never has two challenges under way.           *)
THEOREM TypeCorrect == Spec => []TypeOK
<1>1. IInv => TypeOK
  BY DEF IInv
<1> QED
  BY <1>1, Invariance, PTL

(* authenticate returns true only in a call that convinced the device, on a *)
(* challenge with the nonce of the call, and with the key of the device.    *)
THEOREM Mutual == Spec => []AcceptedIsMutual
<1>1. IInv => AcceptedIsMutual
  BY DEF IInv
<1> QED
  BY <1>1, Invariance, PTL

(* A call that nothing disturbed returns true exactly if it has the key of  *)
(* the device.                                                              *)
THEOREM SharedKey == Spec => []SharedKeyAccepted
<1>1. IInv => SharedKeyAccepted
  BY DEF IInv
<1> QED
  BY <1>1, Invariance, PTL

=============================================================================
