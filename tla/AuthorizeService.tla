--------------------------- MODULE AuthorizeService ---------------------------
(***************************************************************************)
(* The authorization endpoint as the RP and the user see it (spec.md      *)
(* sections 4.4 and 4.5): a request arrives with its prompt set, stays     *)
(* pending while the user logs in and consents, and gets exactly one      *)
(* answer.  Only the answers' preconditions are stated, not the pages in  *)
(* between.                                                               *)
(***************************************************************************)
CONSTANTS Requests, PromptValues

VARIABLES
    state,      \* "idle", "pending" or "answered", per request
    prompt,     \* the prompt set each request arrived with
    answer,     \* the answer each request got
    user,       \* the session is authenticated
    consented   \* the user accepted a consent page of the request

vars == <<state, prompt, answer, user, consented>>

Init ==
    /\ state = [r \in Requests |-> "idle"]
    /\ prompt = [r \in Requests |-> {}]
    /\ answer = [r \in Requests |-> "none"]
    /\ user \in BOOLEAN
    /\ consented = [r \in Requests |-> FALSE]

Arrive(r) ==
    /\ state[r] = "idle"
    /\ state' = [state EXCEPT ![r] = "pending"]
    /\ \E p \in PromptValues : prompt' = [prompt EXCEPT ![r] = p]
    /\ UNCHANGED <<answer, user, consented>>

Authenticate ==
    /\ user' = TRUE
    /\ UNCHANGED <<state, prompt, answer, consented>>

GiveConsent(r) ==
    /\ state[r] = "pending"
    /\ consented' = [consented EXCEPT ![r] = TRUE]
    /\ UNCHANGED <<state, prompt, answer, user>>

\* when each answer may be given (sections 4.4 steps 1-2 and 4.5)
Allowed(r, a) ==
    CASE a = "login_required" -> "none" \in prompt[r] /\ ~user
      [] a = "consent_required" -> {"none", "consent"} \subseteq prompt[r]
      [] a = "code" ->
            /\ user
            /\ ~({"none", "consent"} \subseteq prompt[r])
            /\ "consent" \in prompt[r] => consented[r]
      [] a = "denied" -> TRUE
      [] OTHER -> FALSE

Answer(r) ==
    /\ state[r] = "pending"
    /\ \E a \in {"login_required", "consent_required", "code", "denied"} :
          /\ Allowed(r, a)
          /\ answer' = [answer EXCEPT ![r] = a]
    /\ state' = [state EXCEPT ![r] = "answered"]
    /\ UNCHANGED <<prompt, user, consented>>

Next ==
    \/ Authenticate
    \/ \E r \in Requests : Arrive(r) \/ GiveConsent(r) \/ Answer(r)

Spec == Init /\ [][Next]_vars

=============================================================================
