---------------------------- MODULE Registration ----------------------------
(***************************************************************************)
(* A registration with its proof of work, from the form to the account:     *)
(* useRegister.ts and the Argon2 worker in the browser (a challenge solved  *)
(* while the user types, one more run when the server refuses the proof),   *)
(* pow.rs and the register handler in the server (a nonce is burned by the  *)
(* first request that names it).  Every form asks for the same handle.      *)
(***************************************************************************)
EXTENDS Naturals, FiniteSets

CONSTANTS Forms,       \* the registration forms: a browser tab each
          NonceTtl,    \* POW_NONCE_TTL in ticks
          SubmitTime   \* bound: ticks from a run of the proof of work to its use, once submitted

ASSUME RegistrationAssumption ==
    NonceTtl \in Nat \ {0} /\ SubmitTime \in 0 .. NonceTtl - 1 /\ "none" \notin Forms

VARIABLES
    rStep,    \* [Forms -> RegisterStep], with the awaits of handleRegister told apart
    rPow,     \* [Forms -> the promise in powRef: what it is waiting for, or its result]
    rLeft,    \* [Forms -> ticks the nonce of its latest challenge is still good, 0 if
              \*  burned]; no form sends an earlier one again
    rBusy,    \* [Forms -> ticks since the submit, or its second run, began]
    rAnswer,  \* [Forms -> the answer to the latest POST /v1/register]
    rError,   \* [Forms -> the error shown]
    rOwner,   \* the form whose account has the handle, or "none"
    rBurned   \* history: [Forms -> accepted uses of the latest challenge]

rVars == <<rStep, rPow, rLeft, rBusy, rAnswer, rError, rOwner, rBurned>>

Steps == {"enter", "proving", "inline", "deriving", "registering", "reproving",
          "again", "done"}
Answers == {"none", "ok", "taken", "pow_invalid", "lost"}

RegistrationInit ==
    /\ rStep = [f \in Forms |-> "enter"]
    /\ rPow = [f \in Forms |-> "asking"]
    /\ rLeft = [f \in Forms |-> 0]
    /\ rBusy = [f \in Forms |-> 0]
    /\ rAnswer = [f \in Forms |-> "none"]
    /\ rError = [f \in Forms |-> "none"]
    /\ rOwner = "none"
    /\ rBurned = [f \in Forms |-> 0]

-----------------------------------------------------------------------------
\* runPow: GET the challenge (pow.rs new_challenge) ...
IssueChallenge(f) ==
    /\ rPow[f] = "asking"
    /\ \/ /\ rPow' = [rPow EXCEPT ![f] = "solving"]
          /\ rLeft' = [rLeft EXCEPT ![f] = NonceTtl]
          /\ rBurned' = [rBurned EXCEPT ![f] = 0]
       \/ rPow' = [rPow EXCEPT ![f] = "failed"] /\ UNCHANGED <<rLeft, rBurned>>
    /\ UNCHANGED <<rStep, rBusy, rAnswer, rError, rOwner>>

\* ... and search the counter in the worker.
SolveChallenge(f) ==
    /\ rPow[f] = "solving"
    /\ \E r \in {"ready", "failed"} : rPow' = [rPow EXCEPT ![f] = r]
    /\ UNCHANGED <<rStep, rLeft, rBusy, rAnswer, rError, rOwner, rBurned>>

\* What `powRef.current ?? runPow()` waits for: a failed run cleared the ref.
OrRun(pow) == IF pow = "failed" THEN "asking" ELSE pow

\* handleRegister: the prefetched proof, or a new run.
Submit(f) ==
    /\ rStep[f] = "enter"
    /\ rStep' = [rStep EXCEPT ![f] = "proving"]
    /\ rPow' = [rPow EXCEPT ![f] = OrRun(rPow[f])]
    /\ rBusy' = [rBusy EXCEPT ![f] = 0]
    /\ rError' = [rError EXCEPT ![f] = "none"]
    /\ UNCHANGED <<rLeft, rAnswer, rOwner, rBurned>>

\* A slip: the error is shown and the step stays.
StayThere(f, error) ==
    /\ rStep' = rStep
    /\ rError' = [rError EXCEPT ![f] = error]

\* The attempt ends at the form with an error; powRef keeps the proof it had.
BackToForm(f, error) ==
    /\ rStep' = [rStep EXCEPT ![f] = "enter"]
    /\ rError' = [rError EXCEPT ![f] = error]

\* A failed proof is solved inline once; a second failure ends the attempt.
ProofSettles(f) ==
    /\ rStep[f] \in {"proving", "inline", "reproving"}
    /\ \/ /\ rPow[f] = "ready"
          /\ rStep' = [rStep EXCEPT ![f] = IF @ = "reproving" THEN "again" ELSE "deriving"]
          /\ UNCHANGED <<rPow, rError>>
       \/ /\ rPow[f] = "failed" /\ rStep[f] = "proving"
          /\ rStep' = [rStep EXCEPT ![f] = "inline"]
          /\ rPow' = [rPow EXCEPT ![f] = "asking"]
          /\ UNCHANGED rError
       \/ /\ rPow[f] = "failed" /\ rStep[f] # "proving"
          /\ BackToForm(f, "failed")
          /\ UNCHANGED rPow
    /\ UNCHANGED <<rLeft, rBusy, rAnswer, rOwner, rBurned>>

\* The password is stretched in the worker and the keys derived from it.
DeriveCredential(f) ==
    /\ rStep[f] = "deriving"
    /\ rStep' = [rStep EXCEPT ![f] = "registering"]
    /\ UNCHANGED <<rPow, rLeft, rBusy, rAnswer, rError, rOwner, rBurned>>

\* A slip: the nonce is looked up and left for the pruning.
Peeked(left) == left

\* PowNonceStore::consume removes the entry whatever becomes of the request.
Consumed(left) == 0

\* The handler: burn the nonce, check the proof, claim the handle under its lock; the
\* answer may be lost on the way back, and the request on the way there.
Register(f) ==
    /\ rStep[f] \in {"registering", "again"} /\ rAnswer[f] = "none"
    /\ \/ /\ rLeft' = [rLeft EXCEPT ![f] = Consumed(@)]
          /\ LET fresh == rLeft[f] > 0
                 answer == IF ~fresh THEN "pow_invalid"
                           ELSE IF rOwner # "none" THEN "taken" ELSE "ok" IN
             /\ rOwner' = IF answer = "ok" THEN f ELSE rOwner
             /\ rBurned' = [rBurned EXCEPT ![f] = IF fresh THEN @ + 1 ELSE @]
             /\ rAnswer' \in {[rAnswer EXCEPT ![f] = a] : a \in {answer, "lost"}}
       \/ /\ rAnswer' = [rAnswer EXCEPT ![f] = "lost"]
          /\ UNCHANGED <<rLeft, rOwner, rBurned>>
    /\ UNCHANGED <<rStep, rPow, rBusy, rError>>

\* A slip: the refused proof is sent again.
SameProof(pow) == pow

\* A second run replaces the promise in powRef.
Rerun(pow) == "asking"

\* The answer: the session is saved, or pow_invalid is retried once with a new proof,
\* or the error is shown.
Answered(f) ==
    /\ rAnswer[f] # "none"
    /\ rAnswer' = [rAnswer EXCEPT ![f] = "none"]
    /\ CASE rAnswer[f] = "ok" ->
              /\ rStep' = [rStep EXCEPT ![f] = "done"]
              /\ UNCHANGED <<rPow, rBusy, rError>>
         [] rAnswer[f] = "pow_invalid" /\ rStep[f] = "registering" ->
              /\ rStep' = [rStep EXCEPT ![f] = "reproving"]
              /\ rPow' = [rPow EXCEPT ![f] = Rerun(@)]
              /\ rBusy' = [rBusy EXCEPT ![f] = 0]
              /\ UNCHANGED rError
         [] OTHER ->
              /\ BackToForm(f, rAnswer[f])
              /\ UNCHANGED <<rPow, rBusy>>
    /\ UNCHANGED <<rLeft, rOwner, rBurned>>

\* Time passes for the nonces.  A form may wait for its user as long as it likes; once
\* submitted, a run of the proof of work and its use take at most SubmitTime.
RegistrationTick ==
    /\ \A f \in Forms : rStep[f] \in {"enter", "done"} \/ rBusy[f] < SubmitTime
    /\ rLeft' = [f \in Forms |-> IF rLeft[f] > 0 THEN rLeft[f] - 1 ELSE 0]
    /\ rBusy' = [f \in Forms |-> IF rStep[f] \in {"enter", "done"} THEN 0 ELSE rBusy[f] + 1]
    /\ UNCHANGED <<rStep, rPow, rAnswer, rError, rOwner, rBurned>>

FormStep(f) ==
    \/ IssueChallenge(f) \/ SolveChallenge(f) \/ ProofSettles(f)
    \/ DeriveCredential(f) \/ Register(f) \/ Answered(f)

RegistrationNext == RegistrationTick \/ \E f \in Forms : Submit(f) \/ FormStep(f)

RegistrationSpec == RegistrationInit /\ [][RegistrationNext]_rVars

-----------------------------------------------------------------------------
RegistrationTypeOK ==
    /\ rStep \in [Forms -> Steps]
    /\ rPow \in [Forms -> {"asking", "solving", "ready", "failed"}]
    /\ rLeft \in [Forms -> 0 .. NonceTtl]
    /\ rBusy \in [Forms -> 0 .. SubmitTime]
    /\ rAnswer \in [Forms -> Answers]
    /\ rError \in [Forms -> {"none", "failed", "taken", "pow_invalid", "lost"}]
    /\ rOwner \in Forms \cup {"none"}
    /\ rBurned \in [Forms -> Nat]

(***************************************************************************)
(* The proof is solved before it is wanted and may be too old, or burned by *)
(* an earlier attempt of the same form, when it is: the one retry hides     *)
(* both, and no user is told that the check failed.                         *)
(***************************************************************************)
NeverRefusedForIdling == \A f \in Forms : rError[f] # "pow_invalid"

(***************************************************************************)
(* "One nonce grants no retries" (routes.rs): a challenge is accepted at    *)
(* most once, and a form that was told it registered owns the handle.       *)
(***************************************************************************)
OneUsePerChallenge ==
    \A f \in Forms : rBurned[f] <= 1 /\ (rStep[f] = "done" => rOwner = f)

(***************************************************************************)
(* Every submit ends: with an account, or back at the form with an error,   *)
(* when every await does.                                                   *)
(***************************************************************************)
SubmitEnds == \A f \in Forms : (rStep[f] = "proving") ~> (rStep[f] \in {"done", "enter"})

-----------------------------------------------------------------------------
(* What makes it so: a nonce is good until its first use, the handle's owner *)
(* never changes, only the first submission of an attempt is refused for its *)
(* proof, and the second has a challenge as young as the retry.              *)
BurnedOnce == \A f \in Forms : rBurned[f] <= 1 /\ (rLeft[f] > 0 => rBurned[f] = 0)
OwnerIsTold == \A f \in Forms : rStep[f] = "done" \/ rAnswer[f] = "ok" => rOwner = f
AnswerIsAwaited ==
    \A f \in Forms : /\ rAnswer[f] # "none" => rStep[f] \in {"registering", "again"}
                     /\ rAnswer[f] = "pow_invalid" => rStep[f] = "registering"
RetryIsFresh ==
    \A f \in Forms :
        \/ rStep[f] = "reproving" /\ rPow[f] \in {"solving", "ready"}
        \/ rStep[f] = "again" /\ rAnswer[f] = "none"
        => rLeft[f] + rBusy[f] >= NonceTtl

RegistrationInv ==
    /\ RegistrationTypeOK
    /\ BurnedOnce
    /\ OwnerIsTold
    /\ AnswerIsAwaited
    /\ RetryIsFresh
    /\ NeverRefusedForIdling
=============================================================================
