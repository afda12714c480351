---------------------------- MODULE MCDimmedBulb ----------------------------
(***************************************************************************)
(* Three subjects, two bulbs, a number of the right width and one that is  *)
(* a digit too wide, which eats a letter of the next name: "en" is then    *)
(* another name, and "m" is gone.  The file is as fprintf writes it.       *)
(***************************************************************************)
EXTENDS DimmedBulb
MCNames == << <<"k", "o">>, <<"e", "n">>, <<"m">> >>
MCNumbers == {<<"0", "7">>, <<"9", "9", "9">>}
MCFile == <<"k", "o", ".", "1", "0", "/",
            "e", "n", ".", "2", "5", "/",
            "m", ".", ".", "5", "0", "/">>
MCCommand == MCNumbers \cup {<<"1", "0">>, <<"2", "5">>, <<"5", "0">>, Toggle}
=============================================================================
