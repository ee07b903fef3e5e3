# TLA+ models of authentik's OAuth2 authorization endpoint

These modules model `src/authentik/providers/oauth2/views/authorize.py`, the
OAuth2/OpenID Connect authorization endpoint, and `src/authentik/events/utils.py`,
which turns the context of an audit event (such as the one the fulfillment
stage logs) into JSON and masks its secrets. Every
definition that models code is listed with its source lines under `map` in
`PROJECT.json`.

## The system

An authorization request crosses three parts of `authorize.py`, and three
collaborators that live outside `src/`.

| Part | Code | State it touches |
|---|---|---|
| Request validation | `OAuthAuthorizationParams` (`from_request`, `__post_init__`, `check_*`) | the `OAuth2Provider` row: `redirect_uris` is saved when empty |
| Init view | `AuthorizationFlowInitView` (`pre_permission_check`, `get`) | the browser session: login event, `SESSION_KEY_LAST_LOGIN_UID`; a new flow plan |
| Fulfillment stage | `OAuthFulfillmentStage` (`get`, `redirect`, `create_response_uri`, `create_implicit_response`) | plan context (pop), `AuthorizationCode`, `AccessToken`, audit `Event` |
| Policy dispatch, login flow, consent stage | outside `src/` | session user and login event; consent given |
| Event context | `sanitize_item`, `sanitize_dict`, `cleanse_item`, `cleanse_dict` (events/utils.py), called by `Event.new` outside `src/` | the context stored in the event's JSON field |

The interactions that make it hard:
- Several requests share one browser session: tabs, or successive RPs. They
  read and write the same session keys.
- Several requests share one provider row. Auto-provisioning saves it.
- A request goes round trips: authorize, login, authorize again, consent,
  fulfil. Time passes in between (`max_age`).

## Modules

| Module | Models | State | Actions |
|---|---|---|---|
| `OAuthParams` | `__post_init__` and its checks, lines 105-311 | `redirectUris` (the provider row); per request: `phase`, `query`, `loaded` (the in-memory provider), `outcome` | `LoadProvider` (line 144, the provider read); `Validate` (lines 150-229, every check in order, plus the auto-provisioning save) |
| `AuthorizeRequestSpec` | spec.md sections 3.2, 4.1 and 8.1, written as an abstract condition | none | none: `Accepts` and `Justified` |
| `AuthorizeFlow` | pre_permission_check, get() and OAuthFulfillmentStage.get() for two requests of one session | `now`; `session` (user, login event, login time, last login uid); per request: `status`, `params`, `ctx`, `consented`, `issued`, `response` | one action per exit of the code (see below) |
| `FulfillmentStage` | create_response_uri, create_implicit_response and redirect for one set of validated params | `codes`, `tokens`, `events`, `delivered` | `Fulfil` |
| `ResponseSpec` | spec.md sections 4.6, 6.2 and 8.1 (6)-(8): what the RP must receive | none | none: `Expected(p)` |
| `AuthorizeService` | spec.md sections 4.4, 4.5 and 8.1: the lifecycle of a request, as the RP and user see it | per request: `state` (idle, pending, answered), `prompt`, `answer`; `user`, `consented` | `Arrive`, `Authenticate`, `GiveConsent`, `Answer` (only with an answer `Allowed`) |
| `AuthorizeEndpoint` | one request through `__post_init__`, get()'s plan (PLAN_CONTEXT_PARAMS, lines 426-441) and the fulfillment stage's pop (lines 519-524) | `OAuthParams`'s and `FulfillmentStage`'s variables, by INSTANCE with `phase` renamed | `Validate` (`OAuthParams`' steps), `PlanFlow` (the validated params object goes into the plan), `Fulfil` (`FulfillmentStage.Fulfil`) |
| `EventSanitize` | events/utils.py, lines 36-190 | `input`, `stage`, `sanitized`, `cleansed` | `Sanitize`, `Cleanse` (the order `Event.new` calls them in) |

`AuthorizeFlow` has one action for each way out of the code:

| Code exit | Action |
|---|---|
| `login_required` (pre_permission_check) | `PrePermissionCheck` |
| anonymous redirect (policy dispatch) | `DispatchAnonymous` |
| access denied (policy dispatch) | `PolicyDenied` |
| no login event (line 396) | `GetNoLoginEvent` |
| max_age re-login (line 414) | `GetMaxAge` |
| prompt=login re-login (line 425) | `GetPromptLogin` |
| flow not applicable | `GetFlowNonApplicable` |
| plan started, consent stage injected if needed | `GetPlan` |
| prompt=none with consent refused (lines 529-535) | `FulfilConsentRequired` |
| credential issued | `FulfilIssue` |

The environment adds `Tick`, `Arrive`, `Login` and `Consent`. `reauthed` and
`grant` are history variables that record what `get()` saw when it planned.

`AuthorizeFlow` refines `AuthorizeService`. The mapping (`Service` in
`AuthorizeFlow`) sends a request's status to idle, answered (done or denied)
or pending (every step in between), passes the prompt set, the response, the
session user and the consent through, and turns re-login and planning steps
into stuttering steps. An answer is allowed only if the prompt, the login and
the consent justify it: login_required needs prompt=none and no user,
consent_required needs prompt=none and prompt=consent, a code needs a user and
(with prompt=consent) a consent; a denial is always allowed.

`EventSanitize` writes a Python value as a pair `<<type, payload>>`; a dict is
a sequence of key/value pairs, so key order is kept. `sanitize_item` and
`cleanse_item` are RECURSIVE operators. The model checks them against `Normalize`,
a JSON normaliser that drops requests and nothing else.

Abstractions:
- Strings are model values or short strings. A response_type is the sequence
  of its words.
- A regular expression is a model value; its full matches are the constant
  `RegexMatches`.
- A signed id_token is the record of its claims. A hash claim is `Hash(v)`.
- urlencode gives a function from keys to values. parse_qs drops the keys
  whose value is blank.
- A redirect URI's own query or fragment is none or one key=value pair
  (`uri_query`, `uri_fragment` of the params). Query mode adds code and state to
  parse_qs of the URI's query. Fragment mode writes the payload right after
  the URI's fragment (`AppendFragment`, line 584).
- An AuthorizationCode row (`CreateCode`, create_code lines 312-333) keeps
  the code, the nonce and the PKCE challenge and method. The user, session,
  scope and expiry are left out, because no property reads them. `codes` and
  `tokens` only grow, as the `save()` calls insert rows.

## Runs

| Run | Expect | What it shows |
|---|---|---|
| `authorize_safety` | pass | 368,801 states. Two tabs, every prompt set, max_age=1, clock up to 2. Every step refines `AuthorizeService` (`ServiceRefined`), so every answer is one the abstract service allows in that state: login_required only for prompt=none without a user, consent_required only for prompt=none with prompt=consent, and a code only for a logged-in user who, under prompt=consent, accepted a consent stage. Symmetry on requests and login ids: the abstract spec treats them alike and has no fairness. |
| `endpoint` | pass | 13,632 states. One request through `AuthorizeEndpoint`, over every response type, mode, scope subset, nonce, and PKCE challenge and method (plain, S256, empty, unknown). Every id_token the RP receives carries its request's nonce, and the nonce is not empty (`IdTokenNonceBound`). Every saved AuthorizationCode row carries its accepted request's nonce and code_challenge, with a method the token endpoint knows (`CodeBindsRequest`). create_code keeps the challenge only when the method is truthy (line 330), so this property rests on check_code_challenge, which runs earlier in `__post_init__`. |
| `authorize_live` | pass | Under fairness, every request is answered: the re-login loops end. Uses the prompts that cause re-login. No symmetry. The max_age loop ends because the clock stops at `MaxTime`, so a login cannot keep ageing past a positive max_age; a negative max_age is left out of the domain (it loops forever, see below). |
| `promptlogin` | violation | **Bug.** The last login uid is never cleared, so the second prompt=login request in a session skips re-authentication. |
| `maxage0` | violation | max_age=0 is never checked (Python truthiness). |
| `params` | pass | 659,712 states. Inputs: each canonical response type and "token", four response modes, every scope subset, nonce, request, PKCE and github_compat, and four provider URI lists (empty, strict, broken regex followed by a good one, a javascript: URI). Validation agrees with the spec: an accepted request gets the spec's params, and every error raised is one whose condition holds. The check order is not compared. A javascript: URI that no entry allows gets `redirect_uri_no_match` (the order of section 4.1 and 4.1.2), where section 8.1 (5) says `redirect_uri_forbidden_scheme` "regardless of allow-list matching"; both causes reach the RP as the same invalid_request page (section 6.3's causes are for logs only), so `Justified` admits either. |
| `race` | violation | Two concurrent auto-provisioning requests: last writer wins, and one request is accepted for a URI no longer registered. |
| `fulfil` | pass | 864 states. Every response type × mode × state × nonce × PKCE × redirect-URI query and fragment, except the three inputs below. Response and saved rows match the spec; in query mode the spec (section 6.2) sends the code and state only, so a hybrid response in query mode passes. |
| `fulfil_query` | violation | An implicit response type with response_mode=query: no code is made and line 569 reads `code.code` on None. The AttributeError escapes the stage's handlers, and the browser gets a plain error page where the spec (section 1, section 4.5 step 5) wants an OAuth error response. |
| `event_sanitize` | pass | Nested contexts (dicts, lists, tuples and sets of 16 leaves, two levels deep) without falsy items or requests in lists: `sanitize_dict` agrees with `Normalize`, and `cleanse_dict` masks every scalar whose nearest enclosing key is hidden, list items included (a dict under a hidden key is masked by its own keys, as lines 44-51 do), while `password_change_date` stays readable. |
| `event_falsy` | violation | **Bug.** Falsy list items (0, False, "", None, {}, the {} of a missing anonymous user) vanish from lists. |
| `event_request` | violation | **Bug.** An HttpRequest in a list is kept as Ellipsis, so the context is not JSON. |

Four more divergences were seen while modelling and are not kept as runs:
a reordered response_type (`id_token code`) is rejected; a negative max_age
loops re-login forever; form_post drops an empty state; a redirect URI with
its own fragment loses the first payload pair in fragment mode (an implicit
`id_token` response arrives without its id_token, as `a=1id_token=...`), where
spec section 4.6 says the payload is appended. Each is reached by adding that
input to the domain of `params`, `authorize_live` or `fulfil`.

Every property of a passing run has a mutant in `PROJECT.json`. A mutant is a
plausible fault of the mapped code, and the run finds it.

### Bounds

- **Two requests and three login ids.** This is the least that lets one tab's
  re-login be seen by another tab. A new login needs an id other than the
  current one and the saved one.
- **Clock bound 2.** This is enough for a login to become older than max_age=1.
- **max_age values.** Each run uses one: 1 for the passing runs, and 0 and -1
  for the divergences. Using one value per run keeps each run under the time
  limit.
- **Event contexts.** Four keys (a hidden one, an allowed special one, a plain
  one, a non-str one) and 16 leaves, with containers two levels deep. That is
  enough to put a secret under a dict under a hidden key, and in a list under
  it.
- **Composition run.** One request with one registered URI. The property is
  about one request's params, so the whole input domain matters more than a
  second request; concurrency is covered by `race` and `authorize_safety`.
- **Validation runs.** A single request explores the whole input domain.
  Validation has no interleaving except through the provider row, which the
  `race` run covers with two requests.

### Fairness

The server answers every HTTP request: WF on `ServerStep(r)`. The user finishes
the pages put in front of them: WF on `UserStep(r)`. The RP sending requests
and the clock are not fair, because the code does not depend on either. The
property is about the code's own loops.

## Not modelled, and why

- **Leaf branches of sanitize_item.** The conversions that only produce a
  string (Path, Exception, YAMLTag, datetime, date, naive time, timedelta) are
  one `strlike` value. Generators, GeoIP City/ASN, `type`, callables and the
  ValueError of an aware time are not enumerated.
- **The tuple/set TypeError of cleanse_item** (line 42). `CleanseItem` models
  it, but `Event.new` sanitizes first, which turns tuples and sets into lists,
  so no run reaches it.
- **Error responses** (`AuthorizeError.get_response`, errors.py). Their code is
  not in `src/`.
- **The flow executor's plan storage.** Two concurrent submits of one plan's
  final stage each load the plan from the session in the executor, which is
  outside `src/`. The test at line 521 and the pop at 524 act on one copy
  and cannot stop a second concurrent mint. Spec section 5 assumes a session
  never runs one flow twice at once, so this stays a hazard without a run. A
  sequential re-post cannot mint again: after the pop, the test at 521 fails.
- **Consent stage modes.** A flow consent stage that skips on a stored consent
  is outside `src/`.
- **resolve_provider_application and modify_policy_request** (lines
  374-389). They only read the provider and the application, and fill the
  policy request's context. No state the model tracks changes there.
- **A non-integer max_age** (line 137). `int()` raises a ValueError that no
  handler catches. The only outcome is a plain server error, which involves
  no interleaving and no stored state.
- **POST authorization requests.** They get a 404 at line 349.

## Plan for further work

1. Join `AuthorizeFlow`'s session steps into `AuthorizeEndpoint`, so that one
   model has validation, login, consent and fulfilment together.
2. Consent-mode hazards, if the consent stage is modelled from its own
   source.
