------------------------------- MODULE MCAdminJobs -------------------------------
\* Small instances of AdminJobs.
EXTENDS AdminJobs
=============================================================================
