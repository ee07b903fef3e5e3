----------------------------- MODULE ResponseSpec -----------------------------
(***************************************************************************)
(* What spec.md (sections 4.6, 6.2 and 8.1 (6)-(8)) promises the RP       *)
(* receives for validated params: each credential the response_type names *)
(* and only those, state echoed (the empty string when absent, never      *)
(* omitted), placed in the part of the response the response_mode names,  *)
(* and an id_token bound to the code and access token delivered with it.  *)
(***************************************************************************)
EXTENDS SequencesExt

CONSTANTS NoState, CodeValue, TokenValue, TOKEN_TYPE, ExpiresIn

Hash(v) == <<"left half of sha256", v>>

\* a claim left out of the id_token
NoClaim == <<>>

Words(p) == ToSet(p.response_type)

Echoed(p) == IF p.state = NoState THEN "" ELSE p.state

\* section 4.6.1 and 8.1 (7), (8)
Claims(p) ==
    [nonce |-> p.nonce,
     c_hash |-> IF {"code", "id_token"} \subseteq Words(p) THEN Hash(CodeValue)
                                                          ELSE NoClaim,
     at_hash |-> IF {"token", "id_token"} \subseteq Words(p) THEN Hash(TokenValue)
                                                            ELSE NoClaim]

Credentials(p) ==
    {<<"code", CodeValue>> : x \in {w \in Words(p) : w = "code"}}
    \cup {<<"access_token", TokenValue>> : x \in {w \in Words(p) : w = "token"}}
    \cup {<<"id_token", Claims(p)>> : x \in {w \in Words(p) : w = "id_token"}}

\* section 4.6: implicit and hybrid responses always carry these
TokenFields(p) ==
    IF Words(p) = {"code"} THEN {}
    ELSE {<<"token_type", TOKEN_TYPE>>, <<"expires_in", ExpiresIn>>}

Fields(p) ==
    LET pairs == Credentials(p) \cup TokenFields(p) \cup {<<"state", Echoed(p)>>}
    IN  [k \in {pr[1] : pr \in pairs} |-> (CHOOSE pr \in pairs : pr[1] = k)[2]]

\* section 6.2: a query response is code and state only, added to the
\* redirect URI's query; with no code to send, the failure is answered as an
\* OAuth error (section 1, section 4.5 step 5), not a plain HTTP error page.
\* Section 4.6: a fragment payload is appended to the URI's own fragment.
QueryFields(p) == [k \in {"code", "state"} |-> Fields(p)[k]]

Expected(p) ==
    CASE p.response_mode = "query" /\ "code" \notin Words(p) ->
            [kind |-> "oauth_error"]
      [] p.response_mode = "query" ->
            [kind |-> "redirect", part |-> "query",
             fields |-> QueryFields(p) @@ p.uri_query]
      [] p.response_mode = "fragment" ->
            [kind |-> "redirect", part |-> "fragment",
             fields |-> Fields(p) @@ p.uri_fragment]
      [] p.response_mode = "form_post" ->
            [kind |-> "form", part |-> "form", fields |-> Fields(p)]

=============================================================================
