--------------------------- MODULE MCMemoryLayout ---------------------------
(* Model-checking instances of MemoryLayout.                               *)
EXTENDS MemoryLayout

\* The start of the RAM of the board, pages of a pic32mz EF: 512 KB of RAM,
\* 2 MB of flash; 128 MB of low memory for baikal-t1.
MCRamEnd  == [pic32mz |-> KSEG0 + 128, baikal_t1 |-> KSEG0 + 32768]
MCCodeEnd == [pic32mz |-> KSEG0 + 118784 + 512, baikal_t1 |-> KSEG0 + 32768]

\* The UART of pic32mz (0xBF822000): two pages, aligned.  A page pair at an
\* odd address, as the PMU of sample-linux.cfg.  The GIC of the same file.
UART == [base |-> 784418, size |-> 2]
PMU  == [base |-> 782413, size |-> 2]
GIC  == [base |-> 769472, size |-> 32]

\* The first n devices of two pages from UART on.
Devices(n) == [i \in 1 .. n |-> [base |-> 784416 + 2 * i, size |-> 2]]

File(ram, flash, maps) == [ram |-> ram, flash |-> flash, maps |-> maps]

MCAsks ==
  [pic32mz |->
     {File(8, 8, <<>>), File(16, 32, <<UART>>), File(2, 4, <<UART, PMU>>),
      File(1, 1, <<>>), File(4, 16, <<GIC>>), File(8, MISSING, <<>>),
      File(2, 2, Devices(6))},
   baikal_t1 |->
     {File(8, MISSING, <<>>), File(2, MISSING, <<GIC, PMU>>),
      File(1024, MISSING, Devices(7)), File(MISSING, MISSING, <<>>)}]

\* Within a page, to its last byte, across the boundary, and a whole page.
MCBuffers ==
  {[page |-> 0, offset |-> 16, size |-> 128],
   [page |-> 1, offset |-> 0, size |-> 4096],
   [page |-> 0, offset |-> 4000, size |-> 1536]}

=============================================================================
