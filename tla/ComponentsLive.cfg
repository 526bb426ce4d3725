SPECIFICATION Spec
PROPERTIES
  TasksEnd
  FilesSettle
CHECK_DEADLOCK FALSE
