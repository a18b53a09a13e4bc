---------------------------- MODULE MCInterrupts ----------------------------
(***************************************************************************)
(* The kernel, the kernel without memory for its heap and with each of its *)
(* three faults, the library's test kernel and the four integration tests, *)
(* of which one may lack memory for the heap too.                          *)
(***************************************************************************)
EXTENDS Interrupts

MCPrograms ==
  {"kernel_main", "no_heap", "int3", "page_fault", "overflow", "test_kernel_main",
   "tests/basic_boot", "tests/heap_allocation", "tests/heap_allocation no_heap",
   "tests/should_panic", "tests/stack_overflow"}
=============================================================================
