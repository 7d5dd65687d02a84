--------------------------- MODULE MCEntryWriters ---------------------------
\* Two tasks, one command and one reload, beside one other entry; one finished
\* task is kept of each entry, so that every further finish evicts.
EXTENDS EntryWriters
=============================================================================
