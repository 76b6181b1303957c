-------------------------- MODULE AuthInterceptor --------------------------
(***************************************************************************)
(* BearerTokenAuthProcessor: the check of the authorization header that    *)
(* gRPC makes before a handler runs.  Identities are numbered in the order *)
(* of their names, which is the order std::map visits them in; 0 is no     *)
(* identity.  A header is NoHeader or a text whose first seven characters  *)
(* stand together.                                                         *)
(***************************************************************************)
EXTENDS Integers, Sequences, SequencesExt, FiniteSetsExt

kBearerPrefix == <<"Bearer ">>

\* The call carries no authorization header.
NoHeader == <<"absent">>

\* The constructor: m_tokens, from token to identity.  Empty tokens are left out,
\* and emplace keeps the first identity of a token.
BearerTokenAuthProcessor(identity_to_token) ==
    LET owners(t) == {id \in DOMAIN identity_to_token : identity_to_token[id] = t}
        tokens    == {identity_to_token[id] : id \in DOMAIN identity_to_token} \ {<<>>}
    IN  [t \in tokens |-> Min(owners(t))]

IsEnabled(m_tokens) == DOMAIN m_tokens # {}

\* What Process returns, the identity it stamps on the context, and whether it
\* consumes the header.  constTimeEqual is equality of texts.
Process(m_tokens, header) ==
    LET reject == [status |-> "UNAUTHENTICATED", identity |-> 0, consumed |-> FALSE]
        token  == SubSeq(header, Len(kBearerPrefix) + 1, Len(header))
    IN  IF ~IsEnabled(m_tokens) THEN [status |-> "OK", identity |-> 0, consumed |-> FALSE]
        ELSE IF header = NoHeader \/ ~IsPrefix(kBearerPrefix, header) THEN reject
        ELSE IF token \notin DOMAIN m_tokens THEN reject
        ELSE [status |-> "OK", identity |-> m_tokens[token], consumed |-> TRUE]
=============================================================================
