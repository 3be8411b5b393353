------------------------------ MODULE MCVault ------------------------------
(* Symmetry for the model-checked instances of Vault. *)
EXTENDS Vault, TLC

DeviceAndEntrySymmetry ==
    Permutations(Devices) \cup Permutations(Entries) \cup Permutations(Attachments)

=============================================================================
