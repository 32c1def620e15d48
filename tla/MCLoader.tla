------------------------------ MODULE MCLoader ------------------------------
(***************************************************************************)
(* Module names and the files they lead to, for TLC.  libc and libInternal *)
(* are one file; b does not parse, u does not fit, kernel has no file.     *)
(***************************************************************************)
EXTENDS Loader, TLC

MCFiles == {"eboot", "c", "f", "m", "n", "x", "b", "u"}
MCFileOf ==
    ("libc" :> "c") @@ ("libInternal" :> "c") @@ ("fios" :> "f") @@ ("m" :> "m") @@ ("n" :> "n")
      @@ ("x" :> "x") @@ ("b" :> "b") @@ ("u" :> "u") @@ ("kernel" :> "none")
MCStemOf ==
    ("/app0/u" :> "u") @@ ("/app0/m" :> "m") @@ ("/app0/x" :> "x") @@ ("/app0/libc" :> "libc")
      @@ ("/app1/m" :> "m")
MCHostOf ==
    ("/app0/u" :> "u") @@ ("/app0/m" :> "m") @@ ("/app0/x" :> "x") @@ ("/app0/libc" :> "c")
      @@ ("/app1/m" :> "m")
\* Cycles, self-dependencies, diamonds, and dependencies that fail.
MCNeeds ==
    {("eboot" :> <<"kernel", "fios">>) @@ ("c" :> c) @@ ("f" :> <<"n", "libInternal">>) @@ ("m" :> m) @@ ("n" :> n)
        @@ ("x" :> <<"n", "m">>) @@ ("b" :> <<>>) @@ ("u" :> <<"n">>) :
     c \in {<<"fios">>, <<"libc", "m">>},
     m \in {<<>>, <<"n", "fios">>, <<"m", "libc", "b">>}, n \in {<<>>, <<"m", "b">>, <<"fios", "u">>}}
MCExports ==
    [f \in MCFiles |->
        CASE f = "c" -> {"malloc"} [] f = "f" -> {"open"} [] f = "m" -> {"em"}
          [] f = "n" -> {"en"} [] f = "b" -> {"eb"} [] OTHER -> {}]
MCImports ==
    [f \in MCFiles |->
        CASE f = "eboot" -> <<"open", "syscall">> [] f = "c" -> <<"open">>
          [] f = "f" -> <<"malloc", "gone">> [] f = "m" -> <<"en", "malloc">>
          [] f = "n" -> <<"em", "eb">> [] f = "x" -> <<"em", "gone">> [] f = "b" -> <<"en">>
          [] OTHER -> <<>>]

\* This layout keeps names and paths together.
ASSUME MCNamesTell == NamesTell
=============================================================================
