------------------------------- MODULE MCBoot -------------------------------
(***************************************************************************)
(* A small instance of Boot: a screen of two lines, and both builds of the *)
(* kernel, the one that only prints at the end and the one with vga_test1. *)
(***************************************************************************)
EXTENDS Boot

MCLastCalls == { << <<"c", "newline">> >>, << <<"%s", "c", "%s">>, <<"%?">> >> }
=============================================================================
