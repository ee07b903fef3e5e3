-------------------------- MODULE MCAuthorizeFlow --------------------------
(* Model-checking instance of AuthorizeFlow. *)
EXTENDS AuthorizeFlow, TLC

\* Requests and login keys are only compared for equality.
MCSymmetry == Permutations(Requests) \cup Permutations(LoginIds)

\* every prompt the code keeps after intersecting with ALLOWED_PROMPT_PARAMS
MCAllPrompts == SUBSET ALLOWED_PROMPT_PARAMS
\* the prompts that make get() send the user to log in again
MCLoginPrompts == {{}, {PROMPT_LOGIN}, {PROMPT_NONE, PROMPT_LOGIN}}

\* max_age values: a positive one and the falsy 0
MCMaxAgePositive == {1}
MCMaxAgeZero == {0}
=============================================================================
