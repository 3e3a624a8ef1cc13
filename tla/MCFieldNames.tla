---------------------------- MODULE MCFieldNames ----------------------------
(***************************************************************************)
(* FieldNames with the bounds TLC explores.                                *)
(***************************************************************************)
EXTENDS FieldNames

\* Good names, one as long as allowed and one longer; names that only become the same
\* as another when cleaned, cut or numbered; names without a letter in front.
MCColumnNames == {
    <<>>,
    <<"a">>,
    <<"a", "_", "1">>,
    <<"a", ".", "1">>,
    <<"a", "b", "a", "b">>,
    <<"a", "b", "a", "b", "a">>,
    <<"1", "a", "b", "a">>}

MCLetters == {"a", "b", "X"}
=============================================================================
