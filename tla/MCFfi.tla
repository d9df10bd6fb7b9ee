------------------------------- MODULE MCFfi -------------------------------
(* An instance of Ffi for TLC. *)
EXTENDS Ffi, TLC

\* Two statements and a syntax error; with a semicolon left, the second text
\* is another statement.
MCParsed ==
    <<1, <<>> >> :> "Insert" @@ <<2, <<>> >> :> "Select" @@ <<2, <<";">> >> :> "SelectOfOther" @@
    <<3, <<>> >> :> SyntaxError
MCTexts ==
    {<<1, <<>> >>, <<2, <<";", " ">> >>, <<2, <<";", " ", ";">> >>, <<3, <<>> >>}
=============================================================================
