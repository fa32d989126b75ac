--------------------------- MODULE MCTemplateStore ---------------------------
(* Instances of TemplateStore for TLC. *)
EXTENDS TemplateStore

Nothing == {}
SaveAndRestore == {"save", "restore"}
SaveCalls == {"sign", "encrypt"}
OnlyDecrypt == {"decrypt"}
=============================================================================
