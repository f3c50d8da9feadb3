----------------------------- MODULE MCParsers ------------------------------
(***************************************************************************)
(* What a worker does with the data of a request, the Buffer they are in,  *)
(* and the JSON library, as jobs side by side: they share no state, so a   *)
(* behaviour is that of one job, or of a dispatch with the PHP             *)
(* conversation that it starts.                                            *)
(***************************************************************************)
EXTENDS JsonText, MultiPart, Dispatch, UrlText, Buffer

PartDatas == {<<>>, <<"a">>, <<"CRLF", "--">>, <<"a", "b", "--", "B">>}

CgiFields == {<<>>, <<<<"Status", <<"404">>>>, <<"X", <<"a">>>>>>, <<<<"X", <<"a">>>>, <<"x", <<>>>>>>,
              <<<<"Set-Cookie", <<"a">>>>, <<"Set-Cookie", <<"b">>>>>>}
CgiOutputs == [fields : CgiFields, blanks : {<<>>, <<" ", " ">>}, body : {<<>>, <<"X", ":", "a", "CRLF">>}]

Root == <<"/">>
Below == <<"/", "a", "/">>
SiteUrls == {Root, Below, <<"/", "x">>, <<"/", "a">>, <<"/", "a", "/", "x">>, <<"/", "a", "/", "php">>}
SiteMounts == {<<>>, Root :> "D", Below :> "E", (Root :> "D") @@ (Below :> "E")}
SiteFiles == {<<"D", "x">>, <<"D", "a", "/", "x">>, <<"E", "x">>, <<"E", "index">>}
SiteSet == [services : {{}, {<<"/", "x">>}}, patterns : {{}, {{<<"/", "x">>, Root}, {Root}}},
            mounts : SiteMounts, files : SUBSET SiteFiles, enable_php : {FALSE}]
     \cup [services : {{}}, patterns : {{}}, mounts : {(Root :> "D") @@ (Below :> "E")},
           files : {f \cup {<<"E", "php">>} : f \in SUBSET {<<"D", "index">>, <<"E", "index">>}},
           enable_php : BOOLEAN]

Pages == <<"php", "index">>

UrlKeys == {<<"a">>, <<"a", "=">>, <<"&", ";">>}
UrlValues == {<<>>, <<"a">>, <<"%", "2", "6">>, <<" ", "=">>}
-----------------------------------------------------------------------------
allVars == <<jsonVars, partVars, cgiVars, dispVars, textVars, bufVars>>

Init == \/ JsonInit /\ PartIdle /\ CgiIdle /\ DispIdle /\ TextIdle /\ BufIdle
        \/ JsonIdle /\ PartInit /\ CgiIdle /\ DispIdle /\ TextIdle /\ BufIdle
        \/ JsonIdle /\ PartIdle /\ CgiInit /\ DispIdle /\ TextIdle /\ BufIdle
        \/ JsonIdle /\ PartIdle /\ CgiIdle /\ DispInit /\ TextIdle /\ BufIdle
        \/ JsonIdle /\ PartIdle /\ CgiIdle /\ DispIdle /\ TextInit /\ BufIdle
        \/ JsonIdle /\ PartIdle /\ CgiIdle /\ DispIdle /\ TextIdle /\ BufInit

(* A job may stop at its end, and where a loop of the code never ends. *)
Spinning == body # <<>> /\ Last(body) = "?"
Stopped == /\ JsonEnded /\ (PartEnded \/ Spinning) /\ CgiEnded /\ DispEnded /\ (TextEnded \/ TextSpins)
           /\ UNCHANGED allVars

Next == \/ JsonNext /\ UNCHANGED <<partVars, cgiVars, dispVars, textVars, bufVars>>
        \/ PartNext /\ UNCHANGED <<jsonVars, cgiVars, dispVars, textVars, bufVars>>
        \/ CgiNext /\ UNCHANGED <<jsonVars, partVars, dispVars, textVars, bufVars>>
        \/ DispNext /\ UNCHANGED <<jsonVars, partVars, textVars, bufVars>>
        \/ TextNext /\ UNCHANGED <<jsonVars, partVars, cgiVars, dispVars, bufVars>>
        \/ BufNext /\ UNCHANGED <<jsonVars, partVars, cgiVars, dispVars, textVars>>
        \/ Stopped

Spec == Init /\ [][Next]_allVars
=============================================================================
