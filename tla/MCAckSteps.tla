----------------------------- MODULE MCAckSteps -----------------------------
(* The operations that MCAckSteps.cfg tries: one of each pattern the code has. *)
EXTENDS AckSteps

MCPrograms ==
  { << "order" >>, << "sort" >>, << "inputs" >>, << "ask" >>,
    << "reset", "write" >>,                \* reorder_devices
    << "reset", "bind" >>,                 \* command_to_button
    << "create", "takeid" >>,              \* create_wifi_device
    << "page", "write" >>,                 \* run_create_sequence, paged inputs
    << "save", "saved" >> }                \* _send_paged_macro_save

MCSymmetry == Permutations(Threads)

=============================================================================
