----------------------------- MODULE MCCommandLoop -----------------------------
(***************************************************************************)
(* What a user may type, for CommandLoop: each command, each answer, an    *)
(* answer with a command behind it, and an empty line.                     *)
(***************************************************************************)
EXTENDS CommandLoop, TLC

MCFunctionOf == "spin" :> 11 @@ "offset" :> 12
MCAddressOf == "0xc" :> 12

MCLines ==
  {<<>>, <<"run">>, <<"restart">>, <<"step">>, <<"stop">>, <<"kill">>, <<"elf">>,
   <<"bp">>, <<"bp", "spin">>, <<"bp", "0xc">>, <<"bp", "off">>, <<"bp", "offset">>,
   <<"bp", "show">>, <<"y">>, <<"yes">>, <<"n", "kill">>}

\* A session that uses `bp off' as its usage text says.
OffFunctionOf == "spin" :> 1
OffAddressOf == <<>>
OffLines == {<<"run">>, <<"bp", "spin">>, <<"bp", "off", "spin">>}
================================================================================
