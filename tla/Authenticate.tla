----------------------------- MODULE Authenticate -----------------------------
(***************************************************************************)
(* Auth::authenticate (Auth.cpp): a client and a device that share a key    *)
(* convince each other of it in two requests to the device's /dev/auth.     *)
(*                                                                         *)
(*   start    the client's nonce goes out, the challenge comes back: the    *)
(*            nonce and as many bytes of the device                         *)
(*   finish   SHA256(key, challenge) goes out and, if it is what the device *)
(*            computes too, SHA256(challenge, key) comes back               *)
(*                                                                         *)
(* The device has one challenge under way, whoever started it, and clients  *)
(* of other threads and programs take their steps in between.  The code has *)
(* no return codes here: a request that fails leaves an error in the        *)
(* client's thread and a token of zeros.                                    *)
(*                                                                         *)
(* A token has two halves.  The hash of two tokens is a token of its own,   *)
(* different for different arguments.                                       *)
(***************************************************************************)
EXTENDS Integers, Sequences

CONSTANTS
  Clients,
  Halves,     (* values of half a token                                     *)
  Zeros,      (* the one of zeros only                                      *)
  Keys        (* what clients pass as their key: halves, any number of them *)

ASSUME AuthAssumption == Zeros \in Halves /\ Keys \subseteq Seq(Halves)

VARIABLES
  secret,    (* the device's key; constant                                  *)
  pending,   (* challenges the device has under way, none or one            *)
  pc,        (* where each client's call is                                 *)
  key,       (* token_key                                                   *)
  nonce,     (* first half of random_data                                   *)
  random,    (* random_token                                                *)
  error,     (* the client's thread has an error                            *)
  result,    (* what authenticate returned                                  *)
  granted,   (* history: challenges of each client's call that the device   *)
             (* was convinced by                                            *)
  undisturbed   (* history: no request of the call failed, and the device   *)
                (* did nothing else meanwhile                               *)

deviceVars == <<secret, pending>>
clientVars == <<pc, key, nonce, random, error, result>>
vars       == <<deviceVars, clientVars, granted, undisturbed>>

Plain      == [1 .. 2 -> Halves]
Hash(a, b) == <<"sha256", a, b>>
NoToken    == [i \in 1 .. 2 |-> Zeros]      \* Token()

(* populate: a longer key is cut off, a shorter one filled up with zeros.   *)
Populate(k) == [i \in 1 .. 2 |-> IF i <= Len(k) THEN k[i] ELSE Zeros]

TypeOK ==
  /\ secret \in Plain
  /\ pending \in SUBSET Plain /\ \A s, t \in pending : s = t
  /\ pc \in [Clients -> {"idle", "start", "finish"}]
  /\ key \in [Clients -> Plain]
  /\ nonce \in [Clients -> Halves]
  /\ random \in [Clients -> Plain]
  /\ error \in [Clients -> BOOLEAN]
  /\ result \in [Clients -> BOOLEAN]
  /\ granted \in [Clients -> SUBSET Plain]
  /\ undisturbed \in [Clients -> BOOLEAN]

Init ==
  /\ secret \in Plain
  /\ pending = {}
  /\ pc = [c \in Clients |-> "idle"]
  /\ key = [c \in Clients |-> NoToken]
  /\ nonce = [c \in Clients |-> Zeros]
  /\ random = [c \in Clients |-> NoToken]
  /\ error = [c \in Clients |-> FALSE]
  /\ result = [c \in Clients |-> FALSE]
  /\ granted = [c \in Clients |-> {}]
  /\ undisturbed = [c \in Clients |-> FALSE]

-----------------------------------------------------------------------------
(* authenticate up to its first request.  If the random generator fails,    *)
(* its data may be anything, and the thread has an error.                   *)
Call(c) ==
  /\ pc[c] = "idle"
  /\ pc' = [pc EXCEPT ![c] = "start"]
  /\ \E k \in Keys : key' = [key EXCEPT ![c] = Populate(k)]
  /\ \E n \in Halves : nonce' = [nonce EXCEPT ![c] = n]
  /\ \E randomized \in BOOLEAN :
       /\ error' = [error EXCEPT ![c] = @ \/ ~randomized]
       /\ undisturbed' = [undisturbed EXCEPT ![c] = randomized /\ ~error[c]]
  /\ result' = [result EXCEPT ![c] = FALSE]
  /\ granted' = [granted EXCEPT ![c] = {}]
  /\ UNCHANGED <<deviceVars, random>>

(* A request of client c: not sent if its thread has an error, and answered *)
(* or not.                                                                  *)
Request(c, answered) ==
  /\ error[c] => ~answered
  /\ error' = [error EXCEPT ![c] = ~answered]

(* What the device does for client c disturbs all others, and a call is     *)
(* disturbed by a failure of its own.                                       *)
Disturb(c, ok) ==
  undisturbed' = [d \in Clients |-> undisturbed[d] /\ (d = c => ok)
                                      /\ (d # c => pc[d] = "idle")]

(* The first 16 bytes should stay the same.                                 *)
AnyHalf(sent, received)  == TRUE
SameHalf(sent, received) == sent = received[1]

(* start.  While a challenge is under way the device may answer with it.    *)
Start(c) ==
  /\ pc[c] = "start"
  /\ \E answered \in BOOLEAN, salt \in Halves :
       LET fresh == <<nonce[c], salt>> IN
       /\ Request(c, answered)
       /\ \E challenge \in {fresh} \union pending :
            /\ pending' \in {pending, {challenge}}
            /\ pending' # pending => ~error[c]
            /\ answered => pending' = {challenge}
            /\ random' = [random EXCEPT ![c] = IF answered THEN challenge ELSE NoToken]
            /\ Disturb(c, answered /\ challenge = fresh)
  /\ pc' = [pc EXCEPT ![c] = IF SameHalf(nonce[c], random'[c]) THEN "finish" ELSE "idle"]
  /\ UNCHANGED <<secret, key, nonce, result, granted>>

HashOutReversed(k, token) == Hash(token, k)
HashOut(k, token) == Hash(k, token)
HashIn(k, token)  == Hash(token, k)

(* What the device answers to finish; without one it fails the request.     *)
Answers(hash) == {HashIn(secret, t) : t \in {s \in pending : hash = Hash(secret, s)}}

(* finish.  The device may forget a challenge that was not met.             *)
Finish(c) ==
  LET hash == HashOut(key[c], random[c])
      met  == Answers(hash) # {}
  IN
  /\ pc[c] = "finish"
  /\ \E answered, arrived \in BOOLEAN :
       /\ answered => arrived /\ met
       /\ arrived => ~error[c]
       /\ Request(c, answered)
       /\ IF arrived /\ met
            THEN /\ pending' = {}
                 /\ granted' = [granted EXCEPT ![c] = pending]
            ELSE /\ pending' \in {pending, {}}
                 /\ pending' # pending => arrived
                 /\ UNCHANGED granted
       /\ \E answer \in IF answered THEN Answers(hash) ELSE {NoToken} :
            result' = [result EXCEPT ![c] = (answer = HashIn(key[c], random[c]))]
       /\ Disturb(c, arrived /\ (met => answered))
  /\ pc' = [pc EXCEPT ![c] = "idle"]
  /\ UNCHANGED <<secret, key, nonce, random>>

(* API_RESET_ERROR by the client's program.                                 *)
ClearError(c) ==
  /\ pc[c] = "idle" /\ error[c]
  /\ error' = [error EXCEPT ![c] = FALSE]
  /\ UNCHANGED <<deviceVars, pc, key, nonce, random, result, granted, undisturbed>>

Next == \E c \in Clients : Call(c) \/ Start(c) \/ Finish(c) \/ ClearError(c)

Spec == Init /\ [][Next]_vars

-----------------------------------------------------------------------------
(* authenticate returns true only if in this very call the device was       *)
(* convinced by it, on a challenge with the nonce of the call, and the keys *)
(* are the same: not on the strength of an error, of a token of zeros, of   *)
(* an answer to another client or of a challenge of before.                 *)
AcceptedIsMutual ==
  \A c \in Clients :
    result[c] => /\ random[c] \in granted[c] /\ random[c][1] = nonce[c]
                 /\ key[c] = secret

(* A call with the key of the device that nothing disturbed returns true,   *)
(* also with a key that is longer or shorter than a token.                  *)
SharedKeyAccepted ==
  \A c \in Clients :
    pc[c] = "idle" /\ undisturbed[c] => (result[c] <=> key[c] = secret)

=============================================================================
