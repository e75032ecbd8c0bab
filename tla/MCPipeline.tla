------------------------------ MODULE MCPipeline ------------------------------
EXTENDS Pipeline

MCLeads == {1}
===============================================================================
