----------------------------- MODULE MCAutosave -----------------------------
EXTENDS Autosave

MCDocuments == 0..MaxEdits
=============================================================================
