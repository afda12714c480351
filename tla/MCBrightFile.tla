---------------------------- MODULE MCBrightFile ----------------------------
(***************************************************************************)
(* The file as it is delivered (light_bright_info.txt), scaled down: the   *)
(* second line has a blank behind its number, as English has.  The numbers *)
(* entered all have the right width.                                       *)
(***************************************************************************)
EXTENDS BrightFile
MCNames == << <<"k", "o">>, <<"m">>, <<"e", "n">> >>
MCNumbers == {<<"0", "7">>, <<"9", "0">>}
MCFile == <<"k", "o", ".", "1", "0", "/",
            "m", ".", ".", "5", "0", ".", "/",
            "e", "n", ".", "2", "5", "/">>
=============================================================================
