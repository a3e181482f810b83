--------------------------- MODULE MCBridgeStartup ---------------------------
(* TLC instance of BridgeStartup: sources whose names fall together, lists *)
(* with tools without a name, of one name and with dots in their names,    *)
(* and parameters of every kind that the codec tells apart.                *)
EXTENDS BridgeStartup

MCLetters == {"My", "my", "web", "server", "get", "X", "x", "acp"}
MCLower == [w \in MCLetters |-> CASE w = "My" -> "my" [] w = "X" -> "x" [] OTHER -> w]
MCSeparator == {".", "_", " "}

Named(words, separators) == [words |-> words, separators |-> separators]

Source(name, type, url, command) ==
  [name |-> name, type |-> type, url |-> url, command |-> command, extras |-> {}, skip |-> FALSE]

MyDotServer == Named(<<"My", "server">>, <<".">>)
MyServer == Named(<<"my", "server">>, <<" ">>)
Web == Named(<<"web">>, <<>>)
X == Named(<<"X">>, <<>>)

MCConfig ==
  {<<>>,
   <<Source(MyServer, "stdio", FALSE, TRUE)>>,
   <<Source(Web, "sse", TRUE, FALSE), Source(Named(<<>>, <<>>), "", FALSE, TRUE),
     Source(Web, "stdio", FALSE, TRUE), Source(X, "other", TRUE, TRUE)>>}

Server(name, type, url, command, isACPBridge, inputPrompt) ==
  [name |-> name, type |-> type, url |-> url, command |-> command,
   isACPBridge |-> isACPBridge, inputPrompt |-> inputPrompt]

VSCode ==
  <<Server(Named(<<"acp">>, <<>>), "stdio", FALSE, TRUE, TRUE, FALSE),
    Server(MyDotServer, "", FALSE, TRUE, FALSE, FALSE),
    Server(Web, "", TRUE, FALSE, FALSE, FALSE),
    Server(X, "stdio", FALSE, FALSE, FALSE, FALSE)>>

MCFile == {[servers |-> VSCode, mcpServers |-> <<>>],
           [servers |-> <<>>, mcpServers |-> <<Server(X, "stdio", FALSE, TRUE, FALSE, TRUE)>>]}

(* Parameters.                                                             *)
MCTexts == {"open", "a|b", "why?", "end ", "1", "true"}
MCParts == [t \in MCTexts |-> IF t = "a|b" THEN <<"a", "b">> ELSE <<t>>]
MCBare == [t \in {"why?"} |-> "why"]
MCTrimmed == [t \in MCTexts \cup {"b"} |-> IF t = "end " THEN "end" ELSE t]
MCBracketed == [t \in MCTexts \cup {"b", "why"} |-> <<t, "[]">>]

Said(text) == [kind |-> "string", text |-> text]
One == [kind |-> "number", text |-> "1"]
True == [kind |-> "boolean", text |-> "true"]

Params ==
  {Param("array", 1, <<>>, TRUE), Param("integer", 0, <<>>, FALSE), Param("null", 2, <<>>, TRUE),
   Param("string", 0, <<Said("open"), Said("why?")>>, FALSE),
   Param("string", 0, <<Said("why?"), Said("1")>>, TRUE),
   Param("string", 0, <<Said("a|b")>>, TRUE), Param("string", 1, <<Said("why?")>>, TRUE),
   Param("null", 0, <<Said("true"), Said("end ")>>, TRUE),
   Param("boolean", 0, <<True>>, TRUE), Param("null", 0, <<One, Said("1")>>, TRUE)}

Tool(name, params) == [name |-> name, schema |-> [p \in params |-> p]]

Get == <<"get", "_", "X">>
MCToolList ==
  {<<Tool(Get, Params), Tool(<<"x", ".", "x">>, {})>>,
   <<Tool(<<"x">>, {}), Tool(<<"x">>, {Param("string", 0, <<Said("why?")>>, TRUE)}), Tool(<<>>, {}), Tool(Get, {})>>}

(* One tool with an enumeration of numbers.                                *)
MCNumberList == {<<Tool(Get, {Param("integer", 0, <<One>>, TRUE)})>>}
=============================================================================
