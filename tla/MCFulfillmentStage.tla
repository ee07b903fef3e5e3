------------------------- MODULE MCFulfillmentStage -------------------------
(* Model-checking instance of FulfillmentStage. *)
EXTENDS FulfillmentStage

\* check_grant's table, for the response types OAuthParams accepts
GrantOf(rt) ==
    IF rt = CODE THEN "authorization_code"
    ELSE IF rt \in {ID_TOKEN, ID_TOKEN_TOKEN} THEN "implicit" ELSE "hybrid"

\* a redirect URI's own query or fragment: none, or one key=value pair
UriParts == {<<>>, "a" :> "1"}

AllParams ==
    {[grant_type |-> GrantOf(rt), response_type |-> rt, response_mode |-> m,
      state |-> s, nonce |-> n, uri_query |-> q, uri_fragment |-> f,
      code_challenge |-> c, code_challenge_method |-> "plain"] :
        rt \in {CODE, ID_TOKEN, ID_TOKEN_TOKEN, CODE_TOKEN, CODE_ID_TOKEN,
                CODE_ID_TOKEN_TOKEN},
        m \in {"query", "fragment", "form_post"},
        s \in {NoState, "", "xyz"},
        n \in {"", "n"},
        q \in UriParts,
        f \in UriParts,
        c \in {"", "c"}}

\* an explicit response_mode=query with a grant that makes no code
QueryWithoutCode(p) == p.response_mode = "query" /\ p.grant_type = "implicit"
\* form_post with no state to echo
FormPostNoState(p) == p.response_mode = "form_post" /\ p.state \in {NoState, ""}

\* fragment mode with a redirect URI that has a fragment of its own
FragmentAppended(p) == p.response_mode = "fragment" /\ DOMAIN p.uri_fragment # {}

MCParams ==
    {p \in AllParams : ~QueryWithoutCode(p) /\ ~FormPostNoState(p) /\ ~FragmentAppended(p)}
MCQueryWithoutCode == {p \in AllParams : QueryWithoutCode(p)}
=============================================================================
