----------------------------- MODULE MCPmmBoot -----------------------------
(***************************************************************************)
(* PmmBoot with memory maps without, with one, two and with too many       *)
(* reserved entries for a list of three, some of them above 128 MiB.       *)
(***************************************************************************)
EXTENDS PmmBoot

Entry(a, n, avail) == [addr |-> a, len |-> n, available |-> avail]

Low  == Entry(0, 159, TRUE)
Rom  == Entry(160, 96, FALSE)
Ram  == Entry(256, 65280, TRUE)
High == Entry(1044480, 4096, FALSE)

MCMaps == { <<Low, Ram>>, <<Low, Rom, Ram>>, <<Low, Rom, Ram, High>>, <<High, Rom, High>>,
            <<Rom, Rom, Rom, High>> }
=============================================================================
