---------------------------- MODULE MCVgaWriter ----------------------------
(***************************************************************************)
(* A screen of three rows and two columns, with strings that wrap, leave a *)
(* row exactly full, break lines in the middle and scroll everything away. *)
(* The binary prints whole lines, in write_to_vga and with println!; the   *)
(* library also prints dots and typed keys.                                *)
(***************************************************************************)
EXTENDS VgaWriter

MCBytes == {"a", "b", Newline, Unprintable}

Lines == {<<Newline>>, <<"b", Newline>>, <<Newline, "a", Newline>>}

MCStrings ==
  [w \in Writers |-> IF w = "bin" THEN Lines
                     ELSE Lines \cup {<<"a">>, <<"b", "a">>, <<"a", Unprintable, "b">>}]
=============================================================================
