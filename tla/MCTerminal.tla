----------------------------- MODULE MCTerminal -----------------------------
(* The terminal: keyboard, serial line and screen with readline, or the line *)
(* editor of the prompt, to which whole keys come.  A behaviour is of one of  *)
(* the two.                                                                    *)
EXTENDS Console, LineEditor

VARIABLE side

KeyCode(code, ext) == [code |-> code, ext |-> ext]

\* A letter, backspace, enter, the arrows and DEL, two shift keys and an E0
\* control key.
MCKeys == {KeyCode(\h1E, FALSE), KeyCode(\h0E, FALSE), KeyCode(\h1C, FALSE), KeyCode(\h4B, TRUE),
           KeyCode(\h53, TRUE), KeyCode(\h4D, TRUE), KeyCode(\h2A, FALSE), KeyCode(\h36, FALSE),
           KeyCode(\h1D, TRUE)}

\* A command that takes a program, two that share a stem, and two programs.
MCcommands == << <<"a">>, <<"b", "a">>, <<"b">> >>
MCuserPrograms == << <<"b", "b">>, <<"b">> >>
MCTakesProgram == {<<"a">>}

MCInit ==
  /\ Init /\ EditorInit
  /\ \/ side = "console" /\ afterTab = FALSE /\ prefix_list_size = 0
     \/ side = "prompt" /\ reader = "kernel"

MCNext ==
  \/ side = "console" /\ Next /\ UNCHANGED <<side, editorvars>>
  \/ side = "prompt" /\ EditorNext /\ UNCHANGED <<side, vars>>

MCSpec == /\ MCInit /\ [][MCNext]_<<side, vars, editorvars>>
          /\ WF_vars(side = "console" /\ KernelPolls)

=============================================================================
