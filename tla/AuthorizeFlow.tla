--------------------------- MODULE AuthorizeFlow ---------------------------
(***************************************************************************)
(* The interactive part of the OAuth2 authorization endpoint               *)
(* (providers/oauth2/views/authorize.py): AuthorizationFlowInitView        *)
(* (pre_permission_check, the PolicyAccessView dispatch around it, get)    *)
(* and OAuthFulfillmentStage.get, for several authorization requests       *)
(* driven through ONE browser session.  The session keys the code reads    *)
(* and writes (the login event, SESSION_KEY_LAST_LOGIN_UID) are shared by  *)
(* all requests of the session; the flow plan and its context are per      *)
(* request.  Request parsing and validation are OAuthParams; building the  *)
(* response URI is abstracted to "a credential is issued".                 *)
(***************************************************************************)
EXTENDS Integers

CONSTANTS
    Requests,      \* authorization requests (browser tabs) of the session
    LoginIds,      \* primary keys a new login event may get
    PromptValues,  \* prompt sets (after filtering) an RP may send
    MaxAgeValues,  \* integer max_age values an RP may send
    MaxTime,       \* bound on the clock
    NoMaxAge,      \* max_age absent from the request
    NoLogin,       \* the session holds no login event
    Absent         \* SESSION_KEY_LAST_LOGIN_UID is not in the session

ASSUME PromptValues \subseteq SUBSET {"none", "consent", "login"}
ASSUME MaxAgeValues \subseteq Int
ASSUME MaxTime \in Nat
\* a fresh login event needs a key other than the current and the saved one
ASSUME \E a, b, c \in LoginIds : a # b /\ b # c /\ a # c

VARIABLES
    now,        \* wall clock, seconds
    session,    \* the browser session shared by all requests
    status,     \* where each request is in its round trips
    params,     \* the parsed OAuthAuthorizationParams of each request
    ctx,        \* PLAN_CONTEXT_PARAMS in the request's flow plan context
    consented,  \* the user accepted a consent stage of the request's plan
    issued,     \* credentials minted for the request
    response,   \* last response the browser got for the request
    reauthed,   \* history: a login happened since the request arrived
    grant       \* history: what get() saw when it started the flow plan

vars == <<now, session, status, params, ctx, consented, issued, response,
          reauthed, grant>>


PROMPT_NONE == "none"
PROMPT_CONSENT == "consent"
PROMPT_LOGIN == "login"
ALLOWED_PROMPT_PARAMS == {PROMPT_NONE, PROMPT_CONSENT, PROMPT_LOGIN}

Params == [prompt : PromptValues,
           maxAge : MaxAgeValues \cup {NoMaxAge}]

Status == {"idle", "authorize", "login", "consent", "fulfil", "done", "denied"}

Responses == {"none", "login_required", "consent_required", "code",
              "bad_request", "denied"}

NoGrant == [fresh |-> FALSE, age |-> -1]

Session == [user : BOOLEAN,
            loginEvent : LoginIds \cup {NoLogin},
            loginTime : 0..MaxTime,
            last : LoginIds \cup {Absent}]

(***************************************************************************)
(* A session starts anonymous, logged in with a login event, or logged in *)
(* without one (get() guards against that case at line 394).              *)
(***************************************************************************)
Init ==
    /\ now = 0
    /\ \/ session = [user |-> FALSE, loginEvent |-> NoLogin, loginTime |-> 0,
                     last |-> Absent]
       \/ session = [user |-> TRUE, loginEvent |-> NoLogin, loginTime |-> 0,
                     last |-> Absent]
       \/ \E l \in LoginIds :
             session = [user |-> TRUE, loginEvent |-> l, loginTime |-> 0,
                        last |-> Absent]
    /\ status = [r \in Requests |-> "idle"]
    /\ params = [r \in Requests |-> [prompt |-> {}, maxAge |-> NoMaxAge]]
    /\ ctx = [r \in Requests |-> "none"]
    /\ consented = [r \in Requests |-> FALSE]
    /\ issued = [r \in Requests |-> 0]
    /\ response = [r \in Requests |-> "none"]
    /\ reauthed = [r \in Requests |-> FALSE]
    /\ grant = [r \in Requests |-> NoGrant]

(***************************************************************************)
(* Environment: time passes; an RP sends the browser to the endpoint.     *)
(***************************************************************************)
Tick ==
    /\ now < MaxTime
    /\ now' = now + 1
    /\ UNCHANGED <<session, status, params, ctx, consented, issued, response,
                   reauthed, grant>>

Arrive(r) ==
    /\ status[r] = "idle"
    /\ \E p \in Params : params' = [params EXCEPT ![r] = p]
    /\ status' = [status EXCEPT ![r] = "authorize"]
    /\ reauthed' = [reauthed EXCEPT ![r] = FALSE]
    /\ UNCHANGED <<now, session, ctx, consented, issued, response, grant>>

Finish(r, st, resp) ==
    /\ status' = [status EXCEPT ![r] = st]
    /\ response' = [response EXCEPT ![r] = resp]

\* handle_no_permission: redirect to the authentication flow, which comes
\* back to the same authorize URL when the user has logged in
ToLogin(r) == status' = [status EXCEPT ![r] = "login"]

(***************************************************************************)
(* pre_permission_check: prompt=none from an anonymous user is answered  *)
(* with login_required before anything else.                              *)
(***************************************************************************)
\* fault: login_required sent whatever the session holds
LoginRequired_mutant(r) == PROMPT_NONE \in params[r].prompt

LoginRequired(r) == PROMPT_NONE \in params[r].prompt /\ ~session.user

PrePermissionCheck(r) ==
    /\ status[r] = "authorize"
    /\ LoginRequired(r)
    /\ Finish(r, "done", "login_required")
    /\ UNCHANGED <<now, session, params, ctx, consented, issued, reauthed, grant>>

(***************************************************************************)
(* PolicyAccessView.dispatch after pre_permission_check: an anonymous     *)
(* user is sent to log in, a user the application's policies refuse is    *)
(* shown the access-denied page; otherwise get() runs.                    *)
(***************************************************************************)
DispatchAnonymous(r) ==
    /\ status[r] = "authorize"
    /\ ~LoginRequired(r)
    /\ ~session.user
    /\ ToLogin(r)
    /\ UNCHANGED <<now, session, params, ctx, consented, issued, response,
                   reauthed, grant>>

PolicyDenied(r) ==
    /\ status[r] = "authorize"
    /\ session.user
    /\ Finish(r, "denied", "denied")
    /\ UNCHANGED <<now, session, params, ctx, consented, issued, reauthed, grant>>

(***************************************************************************)
(* get(), lines 390-471.  max_age is tested by Python truthiness, so 0 is *)
(* never checked.                                                         *)
(***************************************************************************)
MaxAgeChecked(r) == params[r].maxAge \notin {NoMaxAge, 0}

\* fault: the subtraction of lines 403-404 written the other way round
LoginAge_mutant == session.loginTime - now

LoginAge == now - session.loginTime

MaxAgeExceeded(r) ==
    MaxAgeChecked(r) /\ LoginAge > params[r].maxAge

\* fault: prompt=login re-authenticates without remembering the last uid
PromptLoginPending_mutant(r) == PROMPT_LOGIN \in params[r].prompt

\* no re-login has happened since the uid was saved, lines 420-423
PromptLoginPending(r) ==
    /\ PROMPT_LOGIN \in params[r].prompt
    /\ \/ session.last = Absent
       \/ session.last = session.loginEvent

GetStart(r) ==
    /\ status[r] = "authorize"
    /\ session.user

SaveLastLoginUid ==
    session' = [session EXCEPT !.last = session.loginEvent]

GetNoLoginEvent(r) ==
    /\ GetStart(r)
    /\ session.loginEvent = NoLogin
    /\ ToLogin(r)
    /\ UNCHANGED <<now, session, params, ctx, consented, issued, response,
                   reauthed, grant>>

GetMaxAge(r) ==
    /\ GetStart(r)
    /\ session.loginEvent # NoLogin
    /\ MaxAgeExceeded(r)
    /\ SaveLastLoginUid
    /\ ToLogin(r)
    /\ UNCHANGED <<now, params, ctx, consented, issued, response, reauthed, grant>>

GetPromptLogin(r) ==
    /\ GetStart(r)
    /\ session.loginEvent # NoLogin
    /\ ~MaxAgeExceeded(r)
    /\ PromptLoginPending(r)
    /\ SaveLastLoginUid
    /\ ToLogin(r)
    /\ UNCHANGED <<now, params, ctx, consented, issued, response, reauthed, grant>>

\* get() passed the login event, max_age and prompt=login checks
Authorized(r) ==
    /\ GetStart(r)
    /\ session.loginEvent # NoLogin
    /\ ~MaxAgeExceeded(r)
    /\ ~PromptLoginPending(r)

\* planner.plan raised FlowNonApplicableException
GetFlowNonApplicable(r) ==
    /\ Authorized(r)
    /\ Finish(r, "denied", "denied")
    /\ UNCHANGED <<now, session, params, ctx, consented, issued, reauthed, grant>>

\* The plan gets a consent stage when the flow has one, or an in-memory
\* ALWAYS_REQUIRE one when prompt=consent; the fulfillment stage is last.
PlanHasConsent(r, flowHasConsent) ==
    flowHasConsent \/ PROMPT_CONSENT \in params[r].prompt

GetPlan(r) ==
    /\ Authorized(r)
    /\ \E flowHasConsent \in BOOLEAN :
          status' = [status EXCEPT ![r] =
                        IF PlanHasConsent(r, flowHasConsent) THEN "consent"
                                                             ELSE "fulfil"]
    /\ ctx' = [ctx EXCEPT ![r] = "params"]
    /\ grant' = [grant EXCEPT ![r] = [fresh |-> reauthed[r],
                                      age |-> LoginAge]]
    /\ UNCHANGED <<now, session, params, consented, issued, response, reauthed>>

(***************************************************************************)
(* The authentication flow (outside this file): the user logs in again,   *)
(* which records a new login event; django's login() keeps the session's  *)
(* other keys.  The browser then returns to the authorize URL.            *)
(***************************************************************************)
Login(r) ==
    /\ status[r] = "login"
    /\ \E l \in LoginIds \ {session.loginEvent, session.last} :
          session' = [session EXCEPT !.user = TRUE, !.loginEvent = l,
                                     !.loginTime = now]
    /\ reauthed' = [x \in Requests |-> TRUE]
    /\ status' = [status EXCEPT ![r] = "authorize"]
    /\ UNCHANGED <<now, params, ctx, consented, issued, response, grant>>

\* The consent stage of the plan (outside this file): accept or deny.
Consent(r) ==
    /\ status[r] = "consent"
    /\ \/ /\ consented' = [consented EXCEPT ![r] = TRUE]
          /\ status' = [status EXCEPT ![r] = "fulfil"]
          /\ UNCHANGED response
       \/ /\ Finish(r, "denied", "denied")
          /\ UNCHANGED consented
    /\ UNCHANGED <<now, session, params, ctx, issued, reauthed, grant>>

(***************************************************************************)
(* OAuthFulfillmentStage.get, lines 519-551: pop the params from the plan *)
(* context, refuse prompt=none+consent, otherwise mint the credential.    *)
(***************************************************************************)
PopParams(r) == ctx' = [ctx EXCEPT ![r] = "popped"]

\* line 521: PLAN_CONTEXT_PARAMS is still in the plan's context
ParamsInContext(r) == ctx[r] = "params"

FulfilConsentRequired(r) ==
    /\ status[r] = "fulfil"
    /\ ParamsInContext(r)
    /\ {PROMPT_NONE, PROMPT_CONSENT} \subseteq params[r].prompt
    /\ PopParams(r)
    /\ Finish(r, "done", "consent_required")
    /\ UNCHANGED <<now, session, params, consented, issued, reauthed, grant>>

FulfilIssue(r) ==
    /\ status[r] = "fulfil"
    /\ ParamsInContext(r)
    /\ ~({PROMPT_NONE, PROMPT_CONSENT} \subseteq params[r].prompt)
    /\ PopParams(r)
    /\ issued' = [issued EXCEPT ![r] = @ + 1]
    /\ Finish(r, "done", "code")
    /\ UNCHANGED <<now, session, params, consented, reauthed, grant>>

Next ==
    \/ Tick
    \/ \E r \in Requests :
          \/ Arrive(r)
          \/ PrePermissionCheck(r)
          \/ DispatchAnonymous(r)
          \/ PolicyDenied(r)
          \/ GetNoLoginEvent(r)
          \/ GetMaxAge(r)
          \/ GetPromptLogin(r)
          \/ GetFlowNonApplicable(r)
          \/ GetPlan(r)
          \/ Login(r)
          \/ Consent(r)
          \/ FulfilConsentRequired(r)
          \/ FulfilIssue(r)

Spec == Init /\ [][Next]_vars

(***************************************************************************)
(* The server answers every HTTP request the browser sends, and the user  *)
(* finishes every login and consent page put in front of them.  The RP    *)
(* sending a request and the clock are not assumed to make progress.      *)
(***************************************************************************)
ServerStep(r) ==
    \/ PrePermissionCheck(r) \/ DispatchAnonymous(r) \/ PolicyDenied(r)
    \/ GetNoLoginEvent(r) \/ GetMaxAge(r) \/ GetPromptLogin(r)
    \/ GetFlowNonApplicable(r) \/ GetPlan(r)
    \/ FulfilConsentRequired(r) \/ FulfilIssue(r)

UserStep(r) == Login(r) \/ Consent(r)

FairSpec ==
    /\ Spec
    /\ \A r \in Requests : WF_vars(ServerStep(r)) /\ WF_vars(UserStep(r))

-----------------------------------------------------------------------------
TypeOK ==
    /\ now \in 0..MaxTime
    /\ session \in Session
    /\ status \in [Requests -> Status]
    /\ params \in [Requests -> [prompt : SUBSET ALLOWED_PROMPT_PARAMS,
                                maxAge : MaxAgeValues \cup {NoMaxAge}]]
    /\ ctx \in [Requests -> {"none", "params", "popped"}]
    /\ consented \in [Requests -> BOOLEAN]
    /\ issued \in [Requests -> Nat]
    /\ response \in [Requests -> Responses]
    /\ reauthed \in [Requests -> BOOLEAN]
    /\ grant \in [Requests -> [fresh : BOOLEAN, age : -1..MaxTime]]

Planned(r) == ctx[r] # "none"

(***************************************************************************)
(* max_age (get(), lines 400-414): a flow plan is only started for a      *)
(* request carrying max_age when the session's login event is at most     *)
(* max_age seconds old, whatever earlier requests left in the session.    *)
(***************************************************************************)
MaxAgeHonoured ==
    \A r \in Requests :
        Planned(r) /\ params[r].maxAge \in Int
            => grant[r].age <= params[r].maxAge

(***************************************************************************)
(* prompt=login (get(), lines 415-425, "we need to re-authenticate the    *)
(* user regardless"): a flow plan is only started for a prompt=login      *)
(* request after the user logged in again since the request arrived.      *)
(***************************************************************************)
PromptLoginForcesReauth ==
    \A r \in Requests :
        Planned(r) /\ PROMPT_LOGIN \in params[r].prompt => grant[r].fresh

(***************************************************************************)
(* Every request the browser brings to the endpoint is eventually         *)
(* answered (a redirect to the RP or the denied page): the re-login loops *)
(* of max_age and prompt=login terminate.                                 *)
(***************************************************************************)
EveryRequestAnswered ==
    \A r \in Requests : status[r] = "authorize" ~> status[r] \in {"done", "denied"}

-----------------------------------------------------------------------------
(***************************************************************************)
(* Refinement: the round trips of a request are the abstract "pending";   *)
(* the response the browser got is the abstract answer.                   *)
(***************************************************************************)
ServiceState(r) ==
    CASE status[r] = "idle" -> "idle"
      [] status[r] \in {"done", "denied"} -> "answered"
      [] OTHER -> "pending"

Service == INSTANCE AuthorizeService WITH
    state <- [r \in Requests |-> ServiceState(r)],
    prompt <- [r \in Requests |-> params[r].prompt],
    answer <- response,
    user <- session.user,
    consented <- consented

(***************************************************************************)
(* pre_permission_check, get() and the fulfillment stage together behave *)
(* as the endpoint of spec.md sections 4.4-4.5: every answer a request    *)
(* gets (login_required, consent_required, a code, denied) is one the     *)
(* spec allows in that state, and each request is answered once.          *)
(***************************************************************************)
ServiceRefined == Service!Spec

=============================================================================
