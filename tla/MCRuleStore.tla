---------------------------- MODULE MCRuleStore ----------------------------
(***************************************************************************)
(* Instances of RuleStore.  Names are strings: "ads" and "app" are two     *)
(* ordinary names, "evil" is in the threat feed, "*.corp" is a pattern.    *)
(***************************************************************************)
EXTENDS RuleStore

Flat == {}
Nested == {<<"*.corp", d>> : d \in Domain}

\* What the administrators of an instance may call.
Administration == {<<"add", "white">>, <<"clear", "block">>, <<"clear", "white">>, <<"auto_add", "block">>,
                   <<"wipe", "block">>, <<"console_add", "block">>, <<"console_delete", "block">>,
                   <<"console_add", "white">>, <<"console_delete", "white">>}
AddDelete == {"add", "delete"} \X ListName
AddOnly == {"add"} \X ListName
AddBlock == {<<"add", "block">>}
BlockApi == {"add", "delete"} \X {"block"}
BlockAndWhitelist == {"add"} \X {"block", "white"}
AddWhite == {<<"add", "white">>}
BypassApi == {"add", "delete"} \X {"bypass"}
None == {}
WithClearBlock == {<<"add", "white">>, <<"clear", "block">>}
WithClearWhite == {<<"add", "white">>, <<"clear", "white">>}
WithWipe == {<<"add", "bypass">>, <<"wipe", "block">>}
ConsoleBlock == {<<"console_add", "block">>}
ConsoleUnblock == {"console_add", "console_delete"} \X {"block"}
ConsoleWhite == {<<"console_add", "white">>}
AutoBlock == {"auto_add", "auto_delete"} \X {"block"}
=============================================================================
